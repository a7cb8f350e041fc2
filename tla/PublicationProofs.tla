------------------------- MODULE PublicationProofs --------------------------
(***************************************************************************)
(* Proofs about Publication, for any number of processes, whoever runs     *)
(* them, and any number of attempts, faults and edits.                     *)
(***************************************************************************)
EXTENDS Publication, FiniteSetTheorems, TLAPS

-----------------------------------------------------------------------------
(* The inductive invariant.                                                *)

Stages == {"none", "publishing", "branch_pushed", "pull_request_created", "published"}
Pcs == {"off", "start", "recover", "wait", "prepare", "repository", "branch-push", "push",
        "send", "pushed", "branch-pushed", "pull-request", "find", "create", "find-created",
        "pull-request-created", "confirm", "status", "project-review-read", "reread",
        "project-review-effect", "edit", "final", "project-review-complete", "published",
        "failing", "done"}

(* The shapes of the row, of GitHub and of a process; the fields that no     *)
(* argument below looks at are left free.                                    *)
IsRow(r) ==
    r \in [state : Stages, attempts : Nat, token : {r.token}, owner : {r.owner},
           live : BOOLEAN, running : {r.running}, pr : {r.pr}]
IsGitHub(g) ==
    g \in [base : BOOLEAN, branch : {"none", "verified", "behind", "other"}, prs : {g.prs},
           status : {"before", "review", "other"}]
IsProc(r) ==
    r \in [pc : Pcs, token : {r.token}, state : {r.state}, pr : {r.pr}, current : {r.current},
           recorded : {r.recorded}, answered : {r.answered}, found : {r.found}]

Shapes ==
    /\ IsRow(pub) /\ IsGitHub(gh) /\ edits \in Nat
    /\ proc = [p \in Procs |-> proc[p]] /\ \A p \in Procs : IsProc(proc[p])

(* A row that does not exist had no attempt, one without a pull request has  *)
(* no number of one, and what is published has no lease left to run out.     *)
RowInv ==
    /\ pub.state = "none" => pub.attempts = 0
    /\ pub.state \notin {"pull_request_created", "published"} => pub.pr = 0
    /\ pub.state = "published" => ~pub.live

(* What GitHub holds as long as no person changed it: at most the branch and *)
(* the one pull request the publishers made.                                 *)
TheRequest == [n |-> 1, open |-> TRUE, ours |-> TRUE]
Untouched(g) ==
    /\ g.branch \notin {"behind", "other"} /\ g.status # "other"
    /\ g.prs \in {{}, {TheRequest}}

(* A process about to record a stage has seen it on GitHub.                  *)
Seen(r, g) ==
    /\ r.pc = "branch-pushed" => g.branch = "verified"
    /\ r.pc = "pull-request-created" => g.prs = {TheRequest} /\ r.found = 1
    /\ r.pc \in {"project-review-complete", "published"} => g.status = "review"

(* What the row records is there.                                            *)
Backed(row, g) ==
    /\ row.state \in {"branch_pushed", "pull_request_created", "published"}
            => g.branch = "verified"
    /\ row.state \in {"pull_request_created", "published"}
            => g.prs = {TheRequest} /\ row.pr = 1
    /\ row.state = "published" => g.status = "review"

PublicationInv ==
    /\ Shapes /\ RowInv
    /\ edits = 0 => /\ Untouched(gh) /\ Backed(pub, gh)
                    /\ \A p \in Procs : Seen(proc[p], gh)

(* Nothing is recorded and nobody works at the start.                        *)
LEMMA InitInv == Init => PublicationInv
<1> SUFFICES ASSUME Init PROVE PublicationInv
    OBVIOUS
<1>1. Shapes
      BY DEF Init, Shapes, IsRow, IsGitHub, IsProc, NoRow, Idle, Stages, Pcs
<1>2. RowInv
      BY DEF Init, RowInv, NoRow
<1>3. Untouched(gh) /\ Backed(pub, gh) /\ \A p \in Procs : Seen(proc[p], gh)
      BY DEF Init, Untouched, Backed, Seen, NoRow, Idle
<1>4. QED
      BY <1>1, <1>2, <1>3 DEF PublicationInv

-----------------------------------------------------------------------------
(* What a step does to the processes.                                        *)

(* The processes as an operation of another one leaves them: at their place, *)
(* with the pull request they found.                                         *)
Carried(procs) ==
    /\ procs = [q \in Procs |-> procs[q]]
    /\ \A q \in Procs : /\ IsProc(procs[q])
                        /\ procs[q].pc = proc[q].pc /\ procs[q].found = proc[q].found

(* A step of p, which goes to the place `next`.                              *)
Moved(p, next) ==
    /\ proc' = [q \in Procs |-> proc'[q]]
    /\ \A q \in Procs : IsProc(proc'[q])
    /\ \A q \in Procs \ {p} : proc'[q].pc = proc[q].pc /\ proc'[q].found = proc[q].found
    /\ proc'[p].pc = next

\* Recording an operation leaves every process at its place.
LEMMA CarriedProcs ==
    ASSUME Shapes, NEW o
    PROVE  Carried(proc) /\ Carried(Moves(o)) /\ Carried(Notes(o))
<1>1. Carried(proc)
      BY DEF Shapes, Carried
<1>2. ASSUME NEW q \in Procs
      PROVE  /\ IsProc(Moves(o)[q]) /\ Moves(o)[q].pc = proc[q].pc
             /\ Moves(o)[q].found = proc[q].found
             /\ IsProc(Notes(o)[q]) /\ Notes(o)[q].pc = proc[q].pc
             /\ Notes(o)[q].found = proc[q].found
  <2> DEFINE r == proc[q]
             m == [r EXCEPT !.current = FALSE, !.recorded = @ \cup {o}]
             n == [r EXCEPT !.recorded = @ \cup {o}]
  <2>1. IsProc(r)
        BY DEF Shapes
  <2>2. IsProc(m) /\ m.pc = r.pc /\ m.found = r.found
        BY <2>1 DEF IsProc
  <2>3. IsProc(n) /\ n.pc = r.pc /\ n.found = r.found
        BY <2>1 DEF IsProc
  <2>4. Moves(o)[q] = IF r.current THEN m ELSE r
        BY DEF Moves
  <2>5. Notes(o)[q] = IF r.current THEN n ELSE r
        BY DEF Notes
  <2>6. QED
        BY <2>1, <2>2, <2>3, <2>4, <2>5
<1>3. Moves(o) = [q \in Procs |-> Moves(o)[q]] /\ Notes(o) = [q \in Procs |-> Notes(o)[q]]
      BY DEF Moves, Notes
<1>4. QED
      BY <1>1, <1>2, <1>3 DEF Carried

(* Putting a process of a given shape in p's place.                          *)
LEMMA PutProc ==
    ASSUME NEW procs, Carried(procs), NEW p \in Procs, NEW r, IsProc(r),
           proc' = [procs EXCEPT ![p] = r]
    PROVE  Moved(p, r.pc) /\ proc'[p] = r
<1>1. \A q \in Procs : proc'[q] = IF q = p THEN r ELSE procs[q]
      BY DEF Carried
<1>2. proc' = [q \in Procs |-> proc'[q]]
      BY DEF Carried
<1>3. QED
      BY <1>1, <1>2 DEF Carried, Moved

\* A process that goes on keeps what it found.
LEMMA GoesMoves ==
    ASSUME Shapes, NEW p \in Procs, NEW next \in Pcs, Goes(p, next)
    PROVE  Moved(p, next) /\ proc'[p].found = proc[p].found
<1> DEFINE r == [proc[p] EXCEPT !.pc = next]
<1>1. IsProc(r) /\ r.pc = next /\ r.found = proc[p].found
      BY DEF Shapes, IsProc
<1>2. proc' = [proc EXCEPT ![p] = r]
      BY DEF Goes
<1>3. Carried(proc)
      BY CarriedProcs
<1> HIDE DEF r
<1>4. QED
      BY <1>1, <1>2, <1>3, PutProc

\* A process ends.
LEMMA EndsMoves ==
    ASSUME NEW procs, Carried(procs), NEW p \in Procs, proc' = [procs EXCEPT ![p] = Idle]
    PROVE  Moved(p, "off")
<1>1. IsProc(Idle) /\ Idle.pc = "off"
      BY DEF IsProc, Idle, Pcs
<1>2. QED
      BY <1>1, PutProc

\* Reading the row moves nobody.
LEMMA ReadShape ==
    ASSUME NEW r, IsProc(r), NEW row, NEW ops
    PROVE  /\ IsProc(Reads(r, row, ops))
           /\ Reads(r, row, ops).found = r.found /\ Reads(r, row, ops).pc = r.pc
BY DEF IsProc, Reads

\* An answer leads on, or to the record of a failure if it was lost.
LEMMA AnsweredMoves ==
    ASSUME NEW procs, Carried(procs), NEW p \in Procs, NEW next \in Pcs, NEW token,
           Answered(p, next, token, procs)
    PROVE  Moved(p, next) \/ Moved(p, "failing")
<1>1. IsProc(procs[p])
      BY DEF Carried
<1>2. ASSUME proc' = [procs EXCEPT ![p] =
                        [Reads(@, pub', noted') EXCEPT !.answered = token, !.pc = next]]
      PROVE  Moved(p, next)
  <2> DEFINE s == Reads(procs[p], pub', noted')
             r == [s EXCEPT !.answered = token, !.pc = next]
  <2>1. IsProc(s)
        BY <1>1, ReadShape
  <2>2. IsProc(r) /\ r.pc = next
        BY <2>1 DEF IsProc
  <2>3. proc' = [procs EXCEPT ![p] = r]
        BY <1>2
  <2>4. QED
        BY <2>2, <2>3, PutProc
<1>3. ASSUME proc' = [procs EXCEPT ![p].pc = "failing"]
      PROVE  Moved(p, "failing")
  <2> DEFINE r == [procs[p] EXCEPT !.pc = "failing"]
  <2>1. IsProc(r) /\ r.pc = "failing"
        BY <1>1 DEF IsProc, Pcs
  <2>2. proc' = [procs EXCEPT ![p] = r]
        BY <1>3
  <2> HIDE DEF r
  <2>3. QED
        BY <2>1, <2>2, PutProc
<1>4. QED
      BY <1>2, <1>3 DEF Answered

\* The answer to a start leads to work, to waiting, to a recovery or to the end.
LEMMA StartMoves ==
    ASSUME NEW procs, Carried(procs), NEW p \in Procs, NEW token, NEW busy,
           StartAnswered(p, token, busy, procs)
    PROVE  \E next \in {"prepare", "wait", "recover", "off"} : Moved(p, next)
<1>1. IsProc(procs[p])
      BY DEF Carried
<1> DEFINE s == Reads(procs[p], pub', noted')
           a == [s EXCEPT !.pc = "prepare", !.answered = token, !.token = token]
           b == [s EXCEPT !.pc = IF busy THEN "wait" ELSE "recover"]
<1>2. IsProc(s)
      BY <1>1, ReadShape
<1>3. IsProc(a) /\ a.pc = "prepare"
      BY <1>2 DEF IsProc, Pcs
<1>4. IsProc(b) /\ b.pc \in {"wait", "recover"}
      BY <1>2 DEF IsProc, Pcs
<1>5. \E r \in {a, b, Idle} : proc' = [procs EXCEPT ![p] = r]
      BY DEF StartAnswered
<1> HIDE DEF s, a, b
<1>6. CASE proc' = [procs EXCEPT ![p] = a]
      BY <1>3, <1>6, PutProc
<1>7. CASE proc' = [procs EXCEPT ![p] = b]
      BY <1>4, <1>7, PutProc
<1>8. CASE proc' = [procs EXCEPT ![p] = Idle]
      BY <1>8, EndsMoves
<1>9. QED
      BY <1>5, <1>6, <1>7, <1>8

-----------------------------------------------------------------------------
(* What a step of p does to the row and to GitHub.                           *)

(* The row keeps its stage; a new attempt or another lease is all there is.  *)
RowStays ==
    /\ IsRow(pub') /\ pub'.state = pub.state /\ pub'.pr = pub.pr
    /\ pub'.attempts >= pub.attempts
    /\ pub.state = "none" => pub'.attempts = pub.attempts
    /\ pub.state = "published" => pub' = pub

RowBegins ==
    /\ pub.state = "none"
    /\ IsRow(pub') /\ pub'.state = "publishing" /\ pub'.pr = 0 /\ pub'.attempts = 1

(* The stage p has seen is recorded.                                         *)
RowAdvances(p) ==
    /\ IsRow(pub') /\ pub'.attempts = pub.attempts
    /\ \/ /\ proc[p].pc = "branch-pushed"
          /\ pub.state = "publishing" /\ pub'.state = "branch_pushed" /\ pub'.pr = pub.pr
       \/ /\ proc[p].pc = "pull-request-created"
          /\ pub.state = "branch_pushed" /\ pub'.state = "pull_request_created"
          /\ pub'.pr = proc[p].found
       \/ /\ proc[p].pc = "published"
          /\ pub.state = "pull_request_created" /\ pub'.state = "published"
          /\ pub'.pr = pub.pr /\ ~pub'.live

RowStep(p) == RowStays \/ RowBegins \/ RowAdvances(p)

(* A publisher adds to an untouched GitHub and takes nothing away.           *)
GitHubGrows ==
    /\ IsGitHub(gh')
    /\ Untouched(gh) =>
         /\ Untouched(gh')
         /\ gh.branch = "verified" => gh'.branch = "verified"
         /\ gh.prs = {TheRequest} => gh'.prs = {TheRequest}
         /\ gh.status = "review" => gh'.status = "review"

(* The branch is moved by a push only, and never away from other commits.    *)
BranchStands(p) ==
    gh'.branch # gh.branch =>
        /\ gh'.branch = "verified" /\ gh.branch # "other"
        /\ proc[p].pc = "send" /\ proc'[p].pc = "pushed"

(* Every step of p is one of these, and p has seen what it goes to record.   *)
Step(p) ==
    /\ \E next \in Pcs : Moved(p, next)
    /\ RowStep(p) /\ GitHubGrows /\ BranchStands(p) /\ edits' = edits
    /\ edits = 0 => Seen(proc'[p], gh')

\* A row that does not change keeps its stage.
LEMMA SameRow == ASSUME Shapes, pub' = pub PROVE RowStays
BY DEF Shapes, RowStays, IsRow

\* So does GitHub.
LEMMA SameGitHub ==
    ASSUME Shapes, gh' = gh, NEW p PROVE GitHubGrows /\ BranchStands(p)
BY DEF Shapes, GitHubGrows, BranchStands

(* Where nothing is about to be recorded nothing has to have been seen.      *)
Claims == {"branch-pushed", "pull-request-created", "project-review-complete", "published"}
LEMMA NothingClaimed ==
    ASSUME NEW p, NEW next \in Pcs \ Claims, Moved(p, next)
    PROVE  Seen(proc'[p], gh')
BY DEF Claims, Moved, Seen

(* A step that touches neither the row nor GitHub.                           *)
LEMMA OnlyMoves ==
    ASSUME Shapes, NEW p \in Procs, NEW next \in Pcs \ Claims, Moved(p, next),
           pub' = pub, gh' = gh, edits' = edits
    PROVE  Step(p)
BY SameRow, SameGitHub, NothingClaimed DEF Step, RowStep

(* The invariant after a step.                                               *)
LEMMA StepInv ==
    ASSUME PublicationInv, NEW p \in Procs, Step(p)
    PROVE  PublicationInv'
<1>1. Shapes'
      BY DEF PublicationInv, Shapes, Step, Moved, RowStep, RowStays, RowBegins, RowAdvances,
             GitHubGrows
<1>2. IsRow(pub) /\ pub.state \in Stages /\ RowInv
      BY DEF PublicationInv, Shapes, IsRow
<1>3. RowInv'
  <2>1. CASE RowStays
        BY <1>2, <2>1 DEF RowInv, RowStays, IsRow
  <2>2. CASE RowBegins
        BY <1>2, <2>2 DEF RowInv, RowBegins
  <2>3. CASE RowAdvances(p)
        BY <1>2, <2>3 DEF RowInv, RowAdvances
  <2>4. QED
        BY <2>1, <2>2, <2>3 DEF Step, RowStep
<1>4. ASSUME edits' = 0
      PROVE  /\ Untouched(gh') /\ Backed(pub', gh')
             /\ \A q \in Procs : Seen(proc'[q], gh')
  <2>1. /\ Untouched(gh) /\ Backed(pub, gh) /\ \A q \in Procs : Seen(proc[q], gh)
        /\ GitHubGrows /\ Untouched(gh')
        BY <1>4 DEF PublicationInv, Step, GitHubGrows
  <2>2. ASSUME NEW q \in Procs PROVE Seen(proc'[q], gh')
    <3>1. CASE q = p
          BY <1>4, <3>1 DEF Step
    <3>2. CASE q # p
      <4>1. proc'[q].pc = proc[q].pc /\ proc'[q].found = proc[q].found
            BY <3>2 DEF Step, Moved
      <4>2. QED
            BY <2>1, <4>1 DEF Seen, GitHubGrows
    <3>3. QED
          BY <3>1, <3>2
  <2>3. Backed(pub, gh')
        BY <2>1 DEF Backed, GitHubGrows
  <2>4. Seen(proc[p], gh')
        BY <2>1 DEF Seen, GitHubGrows
  <2>5. Backed(pub', gh')
    <3>1. CASE RowStays
          BY <2>3, <3>1 DEF Backed, RowStays
    <3>2. CASE RowBegins
          BY <3>2 DEF Backed, RowBegins
    <3>3. CASE RowAdvances(p)
          BY <2>3, <2>4, <3>3 DEF Backed, Seen, RowAdvances
    <3>4. QED
          BY <3>1, <3>2, <3>3 DEF Step, RowStep
  <2>6. QED
        BY <2>1, <2>2, <2>5
<1>5. QED
      BY <1>1, <1>3, <1>4 DEF PublicationInv

-----------------------------------------------------------------------------
(* The steps of a process.                                                   *)

(* The stages in order.                                                      *)
LEMMA Ranks ==
    /\ publication_state_rank("none") = 0 /\ publication_state_rank("publishing") = 1
    /\ publication_state_rank("branch_pushed") = 2
    /\ publication_state_rank("pull_request_created") = 3
    /\ publication_state_rank("published") = 4
BY DEF publication_state_rank

(* A row with another attempt and lease.                                     *)
LEMMA TakenRow ==
    ASSUME NEW r, IsRow(r), NEW n \in Nat, NEW t, NEW o
    PROVE  IsRow([r EXCEPT !.attempts = n, !.token = t, !.owner = o, !.live = TRUE,
                           !.running = TRUE])
<1> DEFINE s == [r EXCEPT !.attempts = n, !.token = t, !.owner = o, !.live = TRUE,
                          !.running = TRUE]
<1> DEFINE R(ts, os, rs) == [state : Stages, attempts : Nat, token : ts, owner : os,
                             live : BOOLEAN, running : rs, pr : {r.pr}]
<1>1. r \in R({r.token, t}, {r.owner, o}, {r.running, TRUE})
      BY DEF IsRow
<1>2. s \in R({r.token, t}, {r.owner, o}, {r.running, TRUE})
      BY <1>1
<1>3. s.token = t /\ s.owner = o /\ s.running = TRUE /\ s.pr = r.pr
      BY <1>1
<1> HIDE DEF s
<1>4. QED
      BY <1>2, <1>3 DEF IsRow

\* start_pull_request_publication creates the row, takes it over or leaves it.
LEMMA StartSteps == ASSUME Shapes, RowInv, NEW p \in Procs, Start(p) PROVE Step(p)
<1> DEFINE moves == \E next \in {"prepare", "wait", "recover", "off"} : Moved(p, next)
<1>1. IsRow(pub) /\ gh' = gh /\ edits' = edits
      BY DEF Shapes, Start
<1>2. SUFFICES moves /\ (RowStays \/ RowBegins)
  <2>1. PICK next \in {"prepare", "wait", "recover", "off"} : Moved(p, next)
        BY <1>2
  <2>2. next \in Pcs \ Claims
        BY DEF Pcs, Claims
  <2>3. QED
        BY <1>1, <1>2, <2>1, <2>2, SameGitHub, NothingClaimed DEF Step, RowStep
<1>3. ASSUME NEW found, StartReplays(p, found) PROVE moves /\ RowStays
      BY <1>3, CarriedProcs, StartMoves, SameRow DEF StartReplays
<1>4. ASSUME NEW recovers, StartJoins(p, recovers) PROVE moves /\ RowStays
  <2>1. ASSUME pub' = pub, NEW o, NEW busy,
               StartAnswered(p, 0, busy, proc) \/ StartAnswered(p, 0, busy, Notes(o))
        PROVE  moves /\ RowStays
        BY <2>1, CarriedProcs, StartMoves, SameRow
  <2>2. ASSUME pub.state \notin {"none", "published"}, pub' = TakesOver(ident[p]), NEW o,
               StartAnswered(p, pub'.token, FALSE, Moves(o))
        PROVE  moves /\ RowStays
    <3>1. moves
          BY <2>2, CarriedProcs, StartMoves
    <3>2. RowStays
      <4>1. /\ pub'.state = pub.state /\ pub'.pr = pub.pr /\ pub'.attempts = pub.attempts + 1
            /\ pub'.live = TRUE /\ pub.attempts \in Nat /\ pub.state \in Stages
            BY <1>1, <2>2 DEF TakesOver, IsRow
      <4>2. IsRow(pub')
        <5>1. pub' = [pub EXCEPT !.attempts = pub.attempts + 1, !.token = pub.attempts + 1,
                                 !.owner = ident[p], !.live = TRUE, !.running = TRUE]
              BY <2>2 DEF TakesOver
        <5>2. pub.attempts + 1 \in Nat
              BY <4>1
        <5>3. QED
              BY <1>1, <5>1, <5>2, TakenRow
      <4>3. QED
            BY <2>2, <4>1, <4>2 DEF RowStays
    <3>3. QED
          BY <3>1, <3>2
  <2>3. QED
        BY <1>4, <2>1, <2>2 DEF StartJoins
<1>5. ASSUME StartCreates(p) PROVE moves /\ RowBegins
  <2>1. moves
        BY <1>5, CarriedProcs, StartMoves DEF StartCreates
  <2>2. RowBegins
        BY <1>5 DEF StartCreates, RowBegins, NewPublication, NoRow, IsRow, Stages
  <2>3. QED
        BY <2>1, <2>2
<1>6. ASSUME Ends(p), pub' = pub PROVE moves /\ RowStays
      BY <1>6, CarriedProcs, EndsMoves, SameRow DEF Ends
<1>7. QED
      BY <1>3, <1>4, <1>5, <1>6 DEF Start

(* A row whose lease is renewed or runs out, and one that is given up.       *)
LEMMA LeasedRow ==
    ASSUME Shapes, NEW l \in BOOLEAN, pub.state # "published",
           pub' = [pub EXCEPT !.live = l]
    PROVE  RowStays
<1>1. IsRow(pub)
      BY DEF Shapes
<1>2. IsRow([pub EXCEPT !.live = l])
      BY <1>1 DEF IsRow
<1>3. QED
      BY <1>1, <1>2 DEF RowStays, IsRow

\* A row that is given up keeps stage, pull request and attempts.
LEMMA GivenUpRow ==
    ASSUME NEW r, IsRow(r)
    PROVE  /\ IsRow(GivenUp(r)) /\ ~GivenUp(r).live
           /\ GivenUp(r).state = r.state /\ GivenUp(r).pr = r.pr
           /\ GivenUp(r).attempts = r.attempts
<1> DEFINE s == GivenUp(r)
           R(ts, os, rs) == [state : Stages, attempts : Nat, token : ts, owner : os,
                             live : BOOLEAN, running : rs, pr : {r.pr}]
<1>1. r \in R({r.token, 0}, {r.owner, "none"}, {r.running, FALSE})
      BY DEF IsRow
<1>2. s \in R({r.token, 0}, {r.owner, "none"}, {r.running, FALSE})
      BY <1>1 DEF GivenUp
<1>3. /\ s.token = 0 /\ s.owner = "none" /\ s.running = FALSE /\ s.pr = r.pr
      /\ ~s.live /\ s.state = r.state /\ s.attempts = r.attempts
      BY <1>1 DEF GivenUp
<1>4. QED
      BY <1>2, <1>3 DEF IsRow

\* A renewal keeps the stage; only the last one leads to a checkpoint.
LEMMA RenewSteps ==
    ASSUME Shapes, NEW p \in Procs, edits = 0 => Seen(proc[p], gh), Renew(p)
    PROVE  Step(p)
<1> DEFINE stage == proc[p].pc
<1>1. gh' = gh /\ edits' = edits /\ stage \in DOMAIN AfterRenewal
      BY DEF Renew
<1>2. ASSUME NEW token, NEW procs, Carried(procs), RenewalAnswered(p, stage, token, procs)
      PROVE  \E next \in Pcs : /\ Moved(p, next)
                               /\ next \in Claims => /\ next = "published"
                                                     /\ stage = "project-review-complete"
  <2>1. /\ AfterRenewal[stage] \in Pcs
        /\ AfterRenewal[stage] \in Claims =>
             AfterRenewal[stage] = "published" /\ stage = "project-review-complete"
        BY <1>1 DEF AfterRenewal, Pcs, Claims
  <2>2. "failing" \in Pcs \ Claims
        BY DEF Pcs, Claims
  <2>3. PICK next \in {AfterRenewal[stage], "failing"} : Answered(p, next, token, procs)
        BY <1>2 DEF RenewalAnswered
  <2>4. QED
        BY <1>2, <2>1, <2>2, <2>3, AnsweredMoves
<1>3. ASSUME NEW next \in Pcs, Moved(p, next), RowStays,
             next \in Claims => next = "published" /\ stage = "project-review-complete"
      PROVE  Step(p)
  <2>1. ASSUME edits = 0 PROVE Seen(proc'[p], gh')
    <3>1. CASE next \in Claims
          BY <1>1, <1>3, <2>1, <3>1 DEF Seen, Moved
    <3>2. CASE next \notin Claims
          BY <1>3, <3>2, NothingClaimed
    <3>3. QED
          BY <3>1, <3>2
  <2>2. QED
        BY <1>1, <1>3, <2>1, SameGitHub DEF Step, RowStep
<1>4. ASSUME renew_pull_request_publication(p, stage) PROVE Step(p)
  <2>1. ASSUME NEW token, pub' = pub, RenewalAnswered(p, stage, token, proc) PROVE Step(p)
        BY <1>2, <1>3, <2>1, CarriedProcs, SameRow
  <2>2. ASSUME NEW o, RenewAdmitted(p, stage), pub' = Renewed,
               RenewalAnswered(p, stage, proc[p].token, Moves(o))
        PROVE  Step(p)
    <3>1. pub.state # "published"
          BY <2>2 DEF RenewAdmitted, ensure_active_publication_control
    <3>2. RowStays
          BY <2>2, <3>1, LeasedRow DEF Renewed
    <3>3. QED
          BY <1>2, <1>3, <2>2, <3>2, CarriedProcs
  <2>3. QED
        BY <1>4, <2>1, <2>2 DEF renew_pull_request_publication
<1>5. ASSUME Fails(p), pub' = pub PROVE Step(p)
  <2>1. "failing" \in Pcs \ Claims
        BY DEF Pcs, Claims
  <2>2. QED
        BY <1>1, <1>5, <2>1, GoesMoves, OnlyMoves DEF Fails
<1>6. QED
      BY <1>4, <1>5 DEF Renew

\* A checkpoint records the stage its process has seen, or nothing.
LEMMA CheckpointSteps ==
    ASSUME Shapes, NEW p \in Procs, Checkpoint(p)
    PROVE  Step(p)
<1> DEFINE stage == proc[p].pc
           number == proc[p].found
<1>1. /\ gh' = gh /\ edits' = edits
      /\ stage \in {"branch-pushed", "pull-request-created", "published"}
      BY DEF Checkpoint
<1>2. ASSUME NEW token, NEW procs, Carried(procs), CheckpointAnswered(p, stage, token, procs)
      PROVE  \E next \in Pcs \ Claims : Moved(p, next)
  <2>1. AfterCheckpoint(stage, pub') \in {"pull-request", "confirm", "status", "done"}
        BY <1>1 DEF AfterCheckpoint
  <2>2. {"pull-request", "confirm", "status", "done", "failing"} \subseteq Pcs \ Claims
        BY DEF Pcs, Claims
  <2>3. PICK next \in {"pull-request", "confirm", "status", "done"} :
             Answered(p, next, token, procs)
        BY <1>2, <2>1 DEF CheckpointAnswered
  <2>4. QED
        BY <1>2, <2>2, <2>3, AnsweredMoves
<1>3. ASSUME NEW next \in Pcs \ Claims, Moved(p, next), RowStep(p) PROVE Step(p)
      BY <1>1, <1>3, SameGitHub, NothingClaimed DEF Step
<1>4. ASSUME NEW token, NEW procs, Carried(procs), pub' = pub,
             CheckpointAnswered(p, stage, token, procs)
      PROVE  Step(p)
      BY <1>2, <1>3, <1>4, SameRow DEF RowStep
<1>5. ASSUME CheckpointAdmitted(p, stage, number), ~CheckpointKnown(stage),
             pub' = Checkpointed(stage, number)
      PROVE  RowAdvances(p)
  <2>1. IsRow(pub) /\ pub.state \in Stages
        BY DEF Shapes, IsRow
  <2>2. pub.state # "published" /\ CheckpointFits(stage, number)
        BY <1>5 DEF CheckpointAdmitted, ensure_active_publication_control
  <2>3. CASE stage = "branch-pushed"
    <3>1. pub.state = "publishing"
          BY <1>5, <2>1, <2>2, <2>3, Ranks DEF CheckpointFits, CheckpointKnown, Stages
    <3>2. pub' = [pub EXCEPT !.state = "branch_pushed"]
          BY <1>5, <2>3 DEF Checkpointed
    <3>3. IsRow(pub') /\ pub'.state = "branch_pushed" /\ pub'.pr = pub.pr
          /\ pub'.attempts = pub.attempts
          BY <2>1, <3>2 DEF IsRow, Stages
    <3>4. QED
          BY <2>3, <3>1, <3>3 DEF RowAdvances
  <2>4. CASE stage = "pull-request-created"
    <3>1. pub.state = "branch_pushed"
          BY <1>5, <2>1, <2>2, <2>4, Ranks DEF CheckpointFits, CheckpointKnown, Stages
    <3>2. pub' = [pub EXCEPT !.state = "pull_request_created", !.pr = number]
          BY <1>5, <2>4 DEF Checkpointed
    <3>3. IsRow(pub') /\ pub'.state = "pull_request_created" /\ pub'.pr = number
          /\ pub'.attempts = pub.attempts
          BY <2>1, <3>2 DEF IsRow, Stages
    <3>4. QED
          BY <2>4, <3>1, <3>3 DEF RowAdvances
  <2>5. CASE stage = "published"
    <3> DEFINE r == [pub EXCEPT !.state = "published"]
    <3>1. pub.state = "pull_request_created"
          BY <2>2, <2>5 DEF CheckpointFits
    <3>2. IsRow(r) /\ r.state = "published" /\ r.pr = pub.pr /\ r.attempts = pub.attempts
          BY <2>1 DEF IsRow, Stages
    <3>3. pub' = GivenUp(r)
          BY <1>5, <2>5 DEF Checkpointed
    <3> HIDE DEF r
    <3>4. QED
          BY <2>5, <3>1, <3>2, <3>3, GivenUpRow DEF RowAdvances
  <2>6. QED
        BY <1>1, <2>3, <2>4, <2>5
<1>6. ASSUME record_pull_request_publication_checkpoint(p, stage, number) PROVE Step(p)
  <2>1. ASSUME NEW o, NEW token, pub' = pub,
               \/ CheckpointAnswered(p, stage, token, proc)
               \/ CheckpointAnswered(p, stage, token, Notes(o))
        PROVE  Step(p)
        BY <1>4, <2>1, CarriedProcs
  <2>2. ASSUME CheckpointAdmitted(p, stage, number), ~CheckpointKnown(stage),
               pub' = Checkpointed(stage, number), NEW o, NEW token,
               CheckpointAnswered(p, stage, token, Moves(o))
        PROVE  Step(p)
        BY <1>2, <1>3, <1>5, <2>2, CarriedProcs DEF RowStep
  <2>3. QED
        BY <1>6, <2>1, <2>2 DEF record_pull_request_publication_checkpoint
<1>7. ASSUME Fails(p), pub' = pub PROVE Step(p)
  <2>1. "failing" \in Pcs \ Claims
        BY DEF Pcs, Claims
  <2>2. QED
        BY <1>1, <1>7, <2>1, GoesMoves, OnlyMoves DEF Fails
<1>8. QED
      BY <1>6, <1>7 DEF Checkpoint

(* The steps that only look at GitHub.                                       *)
LEMMA LooksSteps ==
    ASSUME Shapes, NEW p \in Procs,
           \/ Begin(p) \/ Wait(p) \/ Done(p) \/ Repository(p) \/ Status(p) \/ Reread(p)
           \/ Crash(p)
    PROVE  Step(p)
<1> DEFINE idle == {"off", "start", "recover", "failing", "branch-push", "pull-request",
                    "confirm", "project-review-read", "project-review-effect", "final"}
<1>1. idle \subseteq Pcs \ Claims
      BY DEF Pcs, Claims
<1>2. pub' = pub /\ gh' = gh /\ edits' = edits
      BY DEF Begin, Wait, Done, Repository, Status, Reread, Crash
<1>3. Carried(proc) /\ IsProc(proc[p])
      BY CarriedProcs DEF Shapes
<1>4. SUFFICES \E next \in idle : Moved(p, next)
      BY <1>1, <1>2, OnlyMoves
<1>5. ASSUME Ends(p) PROVE Moved(p, "off")
      BY <1>3, <1>5, EndsMoves DEF Ends
<1>6. ASSUME NEW next \in idle, Goes(p, next) PROVE Moved(p, next)
      BY <1>1, <1>6, GoesMoves
<1>7. CASE Begin(p)
  <2>1. IsProc(publication_plan) /\ publication_plan.pc = "start"
        BY DEF publication_plan, Idle, IsProc, Pcs
  <2>2. QED
        BY <1>3, <1>7, <2>1, PutProc DEF Begin
<1>8. CASE Wait(p)
  <2> DEFINE s == Reads(proc[p], pub, noted)
             r == [s EXCEPT !.pc = "recover"]
  <2>1. IsProc(s)
        BY <1>3, ReadShape
  <2>2. IsProc(r) /\ r.pc = "recover"
        BY <2>1 DEF IsProc, Pcs
  <2>3. Ends(p) \/ proc' = [proc EXCEPT ![p] = r]
        BY <1>8 DEF Wait, Ends
  <2> HIDE DEF r
  <2>4. QED
        BY <1>3, <1>5, <2>2, <2>3, PutProc
<1>9. CASE Done(p) \/ Crash(p)
      BY <1>5, <1>9 DEF Done, Crash
<1>10. CASE Repository(p)
  <2>1. \E next \in {"failing", "branch-push", "pull-request", "confirm"} : Goes(p, next)
        BY <1>10 DEF Repository, Fails
  <2>2. QED
        BY <1>6, <2>1
<1>11. CASE Status(p) \/ Reread(p)
  <2>1. \E next \in {"failing", "project-review-read", "project-review-effect", "final"} :
            Goes(p, next)
        BY <1>11 DEF Status, Reread, Fails
  <2>2. QED
        BY <1>6, <2>1
<1>12. QED
       BY <1>7, <1>8, <1>9, <1>10, <1>11

\* A recorded failure gives the lease up and keeps the stage.
LEMMA FailureSteps == ASSUME Shapes, NEW p \in Procs, RecordFailure(p) PROVE Step(p)
<1>1. gh' = gh /\ edits' = edits /\ "off" \in Pcs \ Claims /\ IsRow(pub)
      BY DEF RecordFailure, Pcs, Claims, Shapes
<1>2. CASE /\ CheckpointAdmitted(p, "failed", 0) /\ pub' = Checkpointed("failed", 0)
           /\ proc' = [Moves(Asks(p, "failed")) EXCEPT ![p] = Idle]
  <2>1. Moved(p, "off")
        BY <1>2, CarriedProcs, EndsMoves
  <2>2. pub.state # "published" /\ pub' = GivenUp(pub) /\ pub.attempts \in Nat
        BY <1>1, <1>2
        DEF CheckpointAdmitted, ensure_active_publication_control, Checkpointed, IsRow
  <2>3. RowStays
        BY <1>1, <2>2, GivenUpRow DEF RowStays
  <2>4. QED
        BY <1>1, <2>1, <2>3, SameGitHub, NothingClaimed DEF Step, RowStep
<1>3. CASE Ends(p) /\ pub' = pub
      BY <1>1, <1>3, CarriedProcs, EndsMoves, OnlyMoves DEF Ends
<1>4. QED
      BY <1>2, <1>3 DEF RecordFailure

(* The pull request an untouched GitHub lets a process adopt.                *)
LEMMA Adopted ==
    ASSUME Shapes, NEW p \in Procs, NEW next \in Pcs, Adopts(p, next)
    PROVE  /\ Moved(p, next)
           /\ Untouched(gh) => gh.prs = {TheRequest} /\ proc'[p].found = 1
<1>1. PICK r \in find_pull_request :
           /\ find_pull_request = {r} /\ ensure_remote_pull_request_matches(r)
           /\ proc' = [proc EXCEPT ![p].found = r.n, ![p].pc = next]
      BY DEF Adopts
<1> DEFINE me == [proc[p] EXCEPT !.found = r.n, !.pc = next]
<1>2. IsProc(me) /\ me.pc = next /\ me.found = r.n
      BY DEF Shapes, IsProc
<1>3. proc' = [proc EXCEPT ![p] = me]
      BY <1>1
<1>4. Carried(proc)
      BY CarriedProcs
<1> HIDE DEF me
<1>5. Moved(p, next) /\ proc'[p].found = r.n
      BY <1>2, <1>3, <1>4, PutProc
<1>6. Untouched(gh) => gh.prs = {TheRequest} /\ r = TheRequest
      BY <1>1 DEF Untouched, find_pull_request
<1>7. QED
      BY <1>5, <1>6 DEF TheRequest

\* A pull request is adopted only as it is on GitHub.
LEMMA FindSteps ==
    ASSUME PublicationInv, NEW p \in Procs, Find(p) \/ FindCreated(p) \/ Confirm(p)
    PROVE  Step(p)
<1>1. /\ pub' = pub /\ gh' = gh /\ edits' = edits /\ Shapes
      /\ edits = 0 => Untouched(gh)
      BY DEF Find, FindCreated, Confirm, PublicationInv
<1>2. /\ {"failing", "create", "status"} \subseteq Pcs \ Claims
      /\ "pull-request-created" \in Pcs /\ "status" \in Pcs
      BY DEF Pcs, Claims
<1>3. ASSUME NEW next \in {"failing", "create"}, Goes(p, next) PROVE Step(p)
      BY <1>1, <1>2, <1>3, GoesMoves, OnlyMoves
<1>4. ASSUME Adopts(p, "pull-request-created") PROVE Step(p)
  <2>1. /\ Moved(p, "pull-request-created")
        /\ Untouched(gh) => gh.prs = {TheRequest} /\ proc'[p].found = 1
        BY <1>1, <1>2, <1>4, Adopted
  <2>2. edits = 0 => Seen(proc'[p], gh')
        BY <1>1, <2>1 DEF Seen, Moved
  <2>3. QED
        BY <1>1, <1>2, <2>1, <2>2, SameRow, SameGitHub DEF Step, RowStep
<1>5. ASSUME Adopts(p, "status") PROVE Step(p)
      BY <1>1, <1>2, <1>5, Adopted, OnlyMoves
<1>6. QED
      BY <1>3, <1>4, <1>5 DEF Find, FindCreated, Confirm, Fails

\* The last look at the Project status comes before the last renewal.
LEMMA FinalSteps == ASSUME Shapes, NEW p \in Procs, Final(p) PROVE Step(p)
<1>1. /\ pub' = pub /\ gh' = gh /\ edits' = edits
      /\ "failing" \in Pcs \ Claims /\ "project-review-complete" \in Pcs
      BY DEF Final, Pcs, Claims
<1>2. CASE Goes(p, "project-review-complete") /\ gh.status = "review"
  <2>1. Moved(p, "project-review-complete")
        BY <1>1, <1>2, GoesMoves
  <2>2. Seen(proc'[p], gh')
        BY <1>1, <1>2, <2>1 DEF Seen, Moved
  <2>3. QED
        BY <1>1, <2>1, <2>2, SameRow, SameGitHub DEF Step, RowStep
<1>3. CASE Fails(p)
      BY <1>1, <1>3, GoesMoves, OnlyMoves DEF Fails
<1>4. QED
      BY <1>2, <1>3 DEF Final

\* A branch is adopted, before or after a push, only at the verified commit.
LEMMA AdoptSteps ==
    ASSUME PublicationInv, NEW p \in Procs, Push(p) \/ Pushed(p)
    PROVE  Step(p)
<1>1. /\ pub' = pub /\ gh' = gh /\ edits' = edits /\ Shapes
      /\ {"failing", "send"} \subseteq Pcs \ Claims /\ "branch-pushed" \in Pcs
      BY DEF Push, Pushed, PublicationInv, Pcs, Claims
<1>2. CASE Goes(p, "failing") \/ Goes(p, "send")
      BY <1>1, <1>2, GoesMoves, OnlyMoves
<1>3. CASE Goes(p, "branch-pushed") /\ gh.branch = "verified"
  <2>1. Moved(p, "branch-pushed")
        BY <1>1, <1>3, GoesMoves
  <2>2. Seen(proc'[p], gh')
        BY <1>1, <1>3, <2>1 DEF Seen, Moved
  <2>3. QED
        BY <1>1, <2>1, <2>2, SameRow, SameGitHub DEF Step, RowStep
<1>4. QED
      BY <1>2, <1>3 DEF Push, Pushed, push_or_adopt_branch, ensure_remote_branch, Fails

(* The steps that change GitHub.                                             *)
LEMMA SendSteps ==
    ASSUME PublicationInv, NEW p \in Procs, Send(p)
    PROVE  Step(p)
<1>1. /\ pub' = pub /\ edits' = edits /\ Shapes /\ IsGitHub(gh)
      /\ "pushed" \in Pcs \ Claims /\ Goes(p, "pushed") /\ proc[p].pc = "send"
      BY DEF Send, PublicationInv, Shapes, Pcs, Claims
<1>2. Moved(p, "pushed")
      BY <1>1, GoesMoves
<1>3. CASE gh' = gh
      BY <1>1, <1>2, <1>3, OnlyMoves
<1>4. CASE gh' = [gh EXCEPT !.branch = "verified"] /\ gh.branch # "other"
  <2>1. /\ IsGitHub(gh') /\ gh'.branch = "verified"
        /\ gh'.prs = gh.prs /\ gh'.status = gh.status
        BY <1>1, <1>4 DEF IsGitHub
  <2>2. GitHubGrows
        BY <2>1 DEF GitHubGrows, Untouched
  <2>3. BranchStands(p)
        BY <1>1, <1>2, <1>4, <2>1 DEF BranchStands, Moved
  <2>4. QED
        BY <1>1, <1>2, <2>2, <2>3, SameRow, NothingClaimed DEF Step, RowStep
<1>5. QED
      BY <1>3, <1>4 DEF Send, GitPush

\* A pull request is created only where there is no open one.
LEMMA CreateSteps ==
    ASSUME PublicationInv, NEW p \in Procs, Create(p)
    PROVE  Step(p)
<1>1. /\ pub' = pub /\ edits' = edits /\ Shapes /\ IsGitHub(gh)
      /\ "find-created" \in Pcs \ Claims /\ Goes(p, "find-created")
      BY DEF Create, PublicationInv, Shapes, Pcs, Claims
<1>2. CASE gh' = gh
      BY <1>1, <1>2, GoesMoves, OnlyMoves
<1>3. CASE GitHubCreates /\ GitHubAccepts
  <2> DEFINE new == [n |-> Cardinality(gh.prs) + 1, open |-> TRUE,
                     ours |-> gh.branch = "verified"]
             more == gh.prs \cup {new}
  <2>1. gh' = [gh EXCEPT !.prs = more]
        BY <1>3 DEF GitHubCreates
  <2>2. IsGitHub(gh') /\ gh'.branch = gh.branch /\ gh'.status = gh.status /\ gh'.prs = more
        BY <1>1, <2>1 DEF IsGitHub
  <2>3. ASSUME Untouched(gh) PROVE gh.prs = {} /\ more = {TheRequest}
    <3>1. gh.prs = {} /\ gh.branch = "verified"
          BY <1>3, <2>3 DEF Untouched, TheRequest, GitHubAccepts
    <3>2. Cardinality(gh.prs) = 0
          BY <3>1, FS_EmptySet
    <3>3. (gh.branch = "verified") = TRUE
          BY <3>1
    <3> Cardinality(gh.prs) + 1 = 1
          BY <3>2
    <3>4. new = [n |-> 1, open |-> TRUE, ours |-> TRUE]
          BY <3>3, Zenon
    <3>5. QED
          BY <3>1, <3>4 DEF TheRequest
  <2>4. GitHubGrows /\ BranchStands(p)
        BY <2>2, <2>3 DEF GitHubGrows, BranchStands, Untouched
  <2>5. Moved(p, "find-created")
        BY <1>1, GoesMoves
  <2>6. QED
        BY <1>1, <2>4, <2>5, SameRow, NothingClaimed DEF Step, RowStep
<1>4. QED
      BY <1>2, <1>3 DEF Create

\* The Project status moves to review.
LEMMA EditSteps ==
    ASSUME PublicationInv, NEW p \in Procs, Edit(p)
    PROVE  Step(p)
<1>1. /\ pub' = pub /\ edits' = edits /\ Shapes /\ IsGitHub(gh)
      /\ {"final", "failing"} \subseteq Pcs \ Claims
      BY DEF Edit, PublicationInv, Shapes, Pcs, Claims
<1>2. PICK next \in {"final", "failing"} : Goes(p, next)
      BY DEF Edit, Fails
<1>3. Moved(p, next)
      BY <1>1, <1>2, GoesMoves
<1>4. GitHubGrows /\ BranchStands(p)
  <2>1. CASE gh' = gh
        BY <1>1, <2>1, SameGitHub
  <2>2. CASE gh' = [gh EXCEPT !.status = "review"]
    <3>1. /\ IsGitHub(gh') /\ gh'.status = "review"
          /\ gh'.branch = gh.branch /\ gh'.prs = gh.prs
          BY <1>1, <2>2 DEF IsGitHub
    <3>2. QED
          BY <3>1 DEF GitHubGrows, BranchStands, Untouched
  <2>3. QED
        BY <2>1, <2>2 DEF Edit
<1>5. QED
      BY <1>1, <1>3, <1>4, SameRow, NothingClaimed DEF Step, RowStep

\* Every step of a process is a Step.
LEMMA WorkSteps ==
    ASSUME PublicationInv, NEW p \in Procs, Work(p) \/ Crash(p)
    PROVE  Step(p)
<1>1. Shapes /\ RowInv /\ (edits = 0 => Seen(proc[p], gh))
      BY DEF PublicationInv
<1>2. QED
      BY <1>1, LooksSteps, StartSteps, RenewSteps, CheckpointSteps, FailureSteps, FindSteps,
         FinalSteps, AdoptSteps, SendSteps, CreateSteps, EditSteps
      DEF Work

-----------------------------------------------------------------------------
(* What happens around the processes.                                        *)

(* A lease ends: the row keeps its stage and a published row has none.       *)
LEMMA LeaseSteps ==
    ASSUME PublicationInv, LeaseEnds
    PROVE  RowStays /\ UNCHANGED <<proc, gh, edits>>
<1>1. pub' = [pub EXCEPT !.live = FALSE] /\ pub.state # "published" /\ Shapes
      BY DEF LeaseEnds, PublicationInv, RowInv
<1>2. QED
      BY <1>1, LeasedRow DEF LeaseEnds

(* People edit GitHub or take authority away, and the row stays.             *)
LEMMA PeopleSteps ==
    ASSUME PublicationInv, People \/ revoke_publication_publisher_credential
    PROVE  pub' = pub /\ proc' = proc /\ edits' = edits + 1 /\ IsGitHub(gh')
<1>1. pub' = pub /\ proc' = proc /\ edits' = edits + 1 /\ IsGitHub(gh)
      BY DEF People, revoke_publication_publisher_credential, PublicationInv, Shapes
<1>2. CASE gh' = gh
      BY <1>1, <1>2
<1>3. CASE gh' = [gh EXCEPT !.base = FALSE]
      BY <1>1, <1>3 DEF IsGitHub
<1>4. ASSUME NEW b \in {"none", "behind", "other"}, gh' = [gh EXCEPT !.branch = b]
      PROVE  IsGitHub(gh')
      BY <1>1, <1>4 DEF IsGitHub
<1>5. ASSUME NEW s \in {"before", "review", "other"}, gh' = [gh EXCEPT !.status = s]
      PROVE  IsGitHub(gh')
      BY <1>1, <1>5 DEF IsGitHub
<1>6. ASSUME NEW rs, gh' = [gh EXCEPT !.prs = rs] PROVE IsGitHub(gh')
      BY <1>1, <1>6 DEF IsGitHub
<1>7. QED
      BY <1>1, <1>2, <1>3, <1>4, <1>5, <1>6
      DEF People, revoke_publication_publisher_credential

\* The invariant is inductive.
LEMMA NextInv == PublicationInv /\ [Next]_vars => PublicationInv'
<1> SUFFICES ASSUME PublicationInv, [Next]_vars PROVE PublicationInv'
    OBVIOUS
<1>1. ASSUME NEW p \in Procs, Work(p) \/ Crash(p) PROVE PublicationInv'
      BY <1>1, WorkSteps, StepInv
<1>2. CASE LeaseEnds
  <2>1. RowStays /\ UNCHANGED <<proc, gh, edits>>
        BY <1>2, LeaseSteps
  <2>2. Shapes' /\ RowInv'
        BY <2>1 DEF PublicationInv, Shapes, RowInv, RowStays, IsRow
  <2>3. Backed(pub, gh) => Backed(pub', gh)
        BY <2>1 DEF Backed, RowStays
  <2>4. QED
        BY <2>1, <2>2, <2>3 DEF PublicationInv
<1>3. CASE People \/ revoke_publication_publisher_credential
  <2>1. pub' = pub /\ proc' = proc /\ edits' = edits + 1 /\ IsGitHub(gh')
        BY <1>3, PeopleSteps
  <2>2. edits \in Nat /\ edits' \in Nat \ {0}
        BY <2>1 DEF PublicationInv, Shapes
  <2>3. Shapes' /\ RowInv'
        BY <2>1, <2>2 DEF PublicationInv, Shapes, RowInv
  <2>4. QED
        BY <2>2, <2>3 DEF PublicationInv
<1>4. CASE UNCHANGED vars
      BY <1>4 DEF vars, PublicationInv, Shapes, RowInv
<1>5. QED
      BY <1>1, <1>2, <1>3, <1>4 DEF Next

\* It holds in every reachable state.
LEMMA InvAlways == Spec => []PublicationInv
BY InitInv, NextInv, PTL DEF Spec

-----------------------------------------------------------------------------
(* The row never runs ahead of GitHub: however many processes interleave,    *)
(* crash, lose answers and take the row over, as long as no person changed   *)
(* something every recorded stage is there, with the one pull request the    *)
(* row names, and a published item is in review.                             *)
THEOREM RecordedIsOnGitHubHolds == Spec => []RecordedIsOnGitHub
<1>1. PublicationInv => RecordedIsOnGitHub
  <2> SUFFICES ASSUME PublicationInv, edits = 0
               PROVE  /\ publication_state_rank(pub.state) >= 2 => gh.branch = "verified"
                      /\ Cardinality(gh.prs) <= 1
                      /\ publication_state_rank(pub.state) >= 3 =>
                           gh.prs = {[n |-> pub.pr, open |-> TRUE, ours |-> TRUE]}
                      /\ pub.state = "published" => gh.status = "review"
      BY DEF RecordedIsOnGitHub
  <2>1. Untouched(gh) /\ Backed(pub, gh) /\ pub.state \in Stages
        BY DEF PublicationInv, Shapes, IsRow
  <2>2. Cardinality({}) = 0 /\ Cardinality({TheRequest}) = 1
        BY FS_EmptySet, FS_Singleton
  <2>3. Cardinality(gh.prs) <= 1
        BY <2>1, <2>2 DEF Untouched
  <2>4. QED
        BY <2>1, <2>3, Ranks DEF Backed, Stages, TheRequest
<1>2. QED
      BY <1>1, InvAlways, PTL

(* No stage, pull request or attempt on record is ever taken back, published *)
(* is final, and the branch is moved only by the push of a process that had  *)
(* found none, and never away from commits the verified one does not have,   *)
(* whoever made them and whenever.                                           *)
THEOREM NothingIsUndoneHolds == Spec => NothingIsUndone
<1> DEFINE Stand == /\ publication_state_rank(pub'.state) >= publication_state_rank(pub.state)
                    /\ pub.pr # 0 => pub'.pr = pub.pr
                    /\ pub'.attempts >= pub.attempts
                    /\ pub.state = "published" => pub' = pub
           Foreign == gh'.branch # gh.branch /\ edits' = edits =>
                         /\ gh'.branch = "verified" /\ gh.branch # "other"
                         /\ \E p \in Procs : proc[p].pc = "send" /\ proc'[p].pc = "pushed"
<1>1. ASSUME PublicationInv, RowStays PROVE Stand
  <2>1. pub.state \in Stages /\ pub'.state = pub.state
        BY <1>1 DEF PublicationInv, Shapes, IsRow, RowStays
  <2>2. publication_state_rank(pub.state) \in Nat
        BY <2>1, Ranks DEF Stages
  <2>3. QED
        BY <1>1, <2>1, <2>2 DEF RowStays
<1>2. ASSUME PublicationInv, NEW q \in Procs, Step(q) PROVE Stand /\ Foreign
  <2>1. CASE RowStays
        BY <1>1, <1>2, <2>1 DEF Step, BranchStands
  <2>2. pub.attempts \in Nat /\ RowInv
        BY <1>2 DEF PublicationInv, Shapes, IsRow
  <2>3. CASE RowBegins
        BY <1>2, <2>2, <2>3, Ranks DEF Step, BranchStands, RowBegins, RowInv
  <2>4. CASE RowAdvances(q)
        BY <1>2, <2>2, <2>4, Ranks DEF Step, BranchStands, RowAdvances, RowInv
  <2>5. QED
        BY <1>2, <2>1, <2>3, <2>4 DEF Step, RowStep
<1>3. ASSUME PublicationInv, [Next]_vars PROVE Stand /\ Foreign
  <2>1. ASSUME NEW q \in Procs, Work(q) \/ Crash(q) PROVE Stand /\ Foreign
        BY <1>2, <1>3, <2>1, WorkSteps
  <2>2. CASE LeaseEnds
        BY <1>1, <1>3, <2>2, LeaseSteps
  <2>3. CASE People \/ revoke_publication_publisher_credential
    <3>1. pub' = pub /\ edits' = edits + 1 /\ edits \in Nat /\ Shapes
          BY <1>3, <2>3, PeopleSteps DEF PublicationInv, Shapes
    <3>2. Stand
          BY <1>1, <1>3, <3>1, SameRow
    <3>3. QED
          BY <3>1, <3>2
  <2>4. CASE UNCHANGED vars
    <3>1. pub' = pub /\ gh' = gh /\ Shapes
          BY <1>3, <2>4 DEF vars, PublicationInv
    <3>2. QED
          BY <1>1, <1>3, <3>1, SameRow
  <2>5. QED
        BY <1>3, <2>1, <2>2, <2>3, <2>4 DEF Next
<1>4. PublicationInv /\ [Next]_vars => [Stand]_vars /\ [Foreign]_vars
      BY <1>3
<1>5. Spec => [][Stand]_vars /\ [][Foreign]_vars
      BY <1>4, InvAlways, PTL DEF Spec
<1>6. QED
      BY <1>5, PTL DEF NothingIsUndone, StagesStand, ForeignBranchStands
=============================================================================
