------------------------------ MODULE Worktree ------------------------------
(***************************************************************************)
(* One managed worktree of a runner and the assignments that use it: the   *)
(* first provider run creates it, later ones resume the provider in it or  *)
(* only verify what it holds (crony-runner/src/workspace.rs, verifier.rs,  *)
(* deliverable.rs and the assignment functions of main.rs).  Meanwhile     *)
(* people may edit the worktree behind the runner's back, the base branch  *)
(* moves, a hard stop arrives, or the runner process dies.                 *)
(*                                                                         *)
(* A path stands for a class of files: "src" is tracked and inside the     *)
(* task's write scope, "key" a secret-like name inside it, "doc" tracked   *)
(* and outside it, "log" ignored by Git, "art" the artifact the provider   *)
(* reported.  A content is 0 (what the base holds), 1 (the provider's), 2  *)
(* (somebody else's: a person's, or a verifier command's).  Fingerprint    *)
(* and head are sets with at most one member, {} for "not given".          *)
(***************************************************************************)
EXTENDS Naturals, Sequences, FiniteSets

CONSTANTS
    Works,       \* what a provider session may do: [paths, commit, detach]
    CheckWrites, \* the sets of paths a verifier command may write
    Specs,       \* the deliverable contracts: [form, paths, pinned]
    MaxRuns,     \* assignments the worktree lives through
    MaxTrouble,  \* edits from outside, moves of the base branch, failing file
                 \* system operations and deaths of the runner, together
    MaxChecks,   \* checks in the verification policy
    MaxTries     \* uploads of one deliverable

VARIABLES
    wt,        \* the worktree directory: [present, tree, on, at]
    branch,    \* its branch: {} or {commit}
    main,      \* the base ref: the trees it has pointed at, oldest first
    merged,    \* branch commits reachable from the base ref
    home,      \* WorkspaceManager.base_commit: where the runner found the base ref,
               \* 0 for a commit the task was never pinned to
    rec,       \* what the server has recorded: [disp, fp, head, ckpt, base, art]
    asg,       \* the running assignment: [mode, fp, head, ckpt]
    run,       \* what its task remembers
    pc,        \* where its task is
    hard,      \* HardBoundaryControl.phase
    snaps,     \* verification snapshots on disk
    accepted,  \* what the last acceptance vouched for: {} or {record}
    made,      \* paths whose content is the provider's last word
    spec,      \* the task's deliverable contract
    used       \* what of the bounds is used: [runs, edits, main, faults, crashes]

vars == <<wt, branch, main, merged, home, rec, asg, run, pc, hard, snaps, accepted,
          made, spec, used>>

Paths == {"src", "key", "doc", "log", "art"}
Tracked == Paths \ {"log"}
Scope == {"src", "key"}
Sensitive == {"key"}
Clean == [p \in Paths |-> 0]

Commits == [base : Nat, tree : [Tracked -> 0..2], n : Nat, by : {"main", "agent", "runner", "person"}]
Modes == {"fresh", "resume", "verify", "checkpoint"}
Pcs == {"idle", "prepare", "admit", "provider", "settle", "baseline", "stage", "check", "vcheck", "report",
        "export", "upload", "accept", "close", "remove"}

Committed(tree) == [p \in Tracked |-> tree[p]]
BaseCommit == [base |-> rec.base, tree |-> main[rec.base], n |-> 0, by |-> "main"]
HeadCommit == CHOOSE c \in (IF wt.on THEN branch ELSE wt.at) : TRUE
Use(what) == [used EXCEPT ![what] = @ + 1]
MoreTrouble == used.edits + used.main + used.faults + used.crashes < MaxTrouble
Cancelled == hard = "requested" \/ run.stopped

Fresh == [exit |-> "none", uncertain |-> FALSE, known |-> FALSE, preserve |-> FALSE, quarantined |-> FALSE,
          admitted |-> FALSE, failed |-> FALSE, verified |-> FALSE, outcome |-> "none", chead |-> {}, guard |-> {},
          baseline |-> {}, checked |-> {}, passed |-> TRUE, exported |-> {},
          sent |-> FALSE, checks |-> 0, tries |-> 0, stopped |-> FALSE]

NoAssignment == [mode |-> "fresh", fp |-> {}, head |-> {}, ckpt |-> FALSE]

TypeOK ==
    /\ wt \in [present : BOOLEAN, tree : [Paths -> 0..2], on : BOOLEAN, at : SUBSET Commits]
    /\ branch \subseteq Commits /\ Cardinality(branch) <= 1
    /\ pc \in Pcs /\ hard \in {"open", "requested", "finalizing"}
    /\ snaps \subseteq {"baseline", "check", "artifact"}
    /\ rec.disp \in {"none", "preserved", "removed", "quarantined"}
    /\ made \subseteq Paths /\ spec \in Specs

Init ==
    /\ wt = [present |-> FALSE, tree |-> Clean, on |-> TRUE, at |-> {}]
    /\ branch = {} /\ main = <<Committed(Clean)>> /\ merged = {}
    /\ rec = [disp |-> "none", fp |-> {}, head |-> {}, ckpt |-> FALSE, base |-> 0, art |-> FALSE]
    /\ asg = NoAssignment
    /\ run = Fresh /\ pc = "idle" /\ hard = "open" /\ snaps = {} /\ accepted = {} /\ made = {}
    /\ spec \in Specs /\ home \in (IF spec.pinned THEN {0, 1} ELSE {1})
    /\ used = [runs |-> 0, edits |-> 0, main |-> 0, faults |-> 0, crashes |-> 0]

-----------------------------------------------------------------------------
(***************************************************************************)
(* What the outcome of an assignment tells the server.  A quarantine is    *)
(* sticky and never carries a fingerprint (crony-store keeps it so).       *)
(***************************************************************************)
Record(disp, fp, head, ckpt, quarantined) ==
    LET q == quarantined \/ rec.disp = "quarantined"
    IN  rec' = [rec EXCEPT !.disp = IF q THEN "quarantined" ELSE disp,
                           !.fp = IF q THEN {} ELSE fp,
                           !.head = head, !.ckpt = ckpt]

\* The head the server knows of: the one a sent deliverable named, else the one it asked for.
KnownHead == IF run.sent THEN {e.head : e \in run.exported} ELSE asg.head

\* remove_verification_snapshot, bounded by a timeout: a removal may fail and
\* leave its directory behind.
RemoveSnapshots ==
    \E kept \in SUBSET snaps :
        /\ kept = {} \/ MoreTrouble
        /\ snaps' = kept
        /\ used' = IF kept = {} THEN used ELSE Use("faults")

\* The task ends and everything it owned goes with it.
Leave == pc' = "idle" /\ run' = Fresh /\ hard' = "open" /\ asg' = NoAssignment /\ accepted' = {}

\* The physical bytes of every entry but Git's own, ignored files included.
Fingerprint(tree) == [p \in Paths |-> tree[p]]

\* The fingerprint of this moment, if it can be read.
SealNow == IF wt.present THEN {Fingerprint(wt.tree)} ELSE {}

\* WorkspaceManager::verify_source_identity: a pinned assignment names the
\* commit this runner is configured for.
SourceMatches == spec.pinned => home = 1

\* workspace.rs verify_existing: the directory is this worktree, on its own
\* branch, and its head descends from the recorded base.
Verified == wt.present /\ wt.on /\ HeadCommit.base >= rec.base

\* Mutant: only the head is compared.
SameCheckpointHeadOnly(fp, head) == head = {} \/ (wt.present /\ head = {HeadCommit})

\* verify_preserved_workspace_checkpoint: the exact bytes and the exact head.
SameCheckpoint(fp, head) ==
    /\ fp = {} \/ (wt.present /\ fp = {Fingerprint(wt.tree)})
    /\ head = {} \/ (wt.present /\ head = {HeadCommit})

Sealed == SameCheckpoint(IF asg.mode = "verify" THEN asg.fp ELSE {}, run.chead)

-----------------------------------------------------------------------------
(* Assignments. *)

\* The server sends a task's next assignment: a first run, the provider
\* again in what the last one left, the verifier alone on a sealed checkpoint,
\* or the seal alone for a worktree retained without one.  A quarantined worktree is never used again.
Assign(mode) ==
    /\ pc = "idle" /\ used.runs < MaxRuns /\ rec.disp # "quarantined"
    /\ CASE mode = "fresh" -> rec.base = 0
         [] mode = "resume" -> rec.base # 0 /\ rec.disp # "removed"
         [] mode = "verify" -> rec.disp = "preserved" /\ rec.fp # {}
         [] mode = "checkpoint" -> rec.disp = "preserved" /\ rec.fp = {} /\ rec.head # {}
    /\ asg' = [mode |-> mode, fp |-> rec.fp, head |-> rec.head, ckpt |-> rec.ckpt /\ mode = "verify"]
    /\ pc' = "prepare" /\ used' = Use("runs")
    /\ UNCHANGED <<wt, branch, main, merged, home, rec, run, hard, snaps, accepted, made, spec>>

\* WorkspaceManager::prepare for a first run: the branch is created at the
\* pinned commit, or where the base ref points now.
PrepareFresh ==
    /\ pc = "prepare" /\ asg.mode = "fresh" /\ SourceMatches
    /\ LET b == IF spec.pinned THEN 1 ELSE Len(main)
           c == [base |-> b, tree |-> main[b], n |-> 0, by |-> "main"]
       IN  /\ rec' = [rec EXCEPT !.base = b]
           /\ branch' = {c}
           /\ wt' = [present |-> TRUE, on |-> TRUE, at |-> {},
                     tree |-> [p \in Paths |-> IF p \in Tracked THEN main[b][p] ELSE 0]]
    /\ pc' = "provider"
    /\ UNCHANGED <<main, merged, home, asg, run, hard, snaps, accepted, made, spec, used>>

\* prepare for a later one: the worktree must still be there, on its branch,
\* and descend from the recorded base; it is never recreated.
PrepareAgain ==
    /\ pc = "prepare" /\ asg.mode # "fresh" /\ SourceMatches
    /\ IF Verified THEN pc' = "admit" /\ UNCHANGED <<run, asg, hard, accepted>> ELSE Leave
    /\ UNCHANGED <<wt, branch, main, merged, home, rec, snaps, made, spec, used>>

\* An assignment for another source than the runner's is refused untouched.
RefuseSource ==
    /\ pc = "prepare" /\ ~SourceMatches
    /\ Leave
    /\ UNCHANGED <<wt, branch, main, merged, home, rec, snaps, made, spec, used>>

\* execute_assignment, resumed: the provider starts only in the exact
\* checkpoint the server recorded, if it recorded one.
AdmitResume ==
    /\ pc = "admit" /\ asg.mode = "resume"
    /\ IF SameCheckpoint(asg.fp, asg.head)
         THEN pc' = "provider" /\ UNCHANGED <<rec, run, asg, hard, accepted>>
         ELSE Leave /\ Record("preserved", {}, asg.head, FALSE, TRUE)
    /\ UNCHANGED <<wt, branch, main, merged, home, snaps, made, spec, used>>

\* checkpoint_preserved_workspace: at the expected head, the worktree as it is
\* becomes the seal; at another one it is quarantined.
Checkpoint ==
    /\ pc = "admit" /\ asg.mode = "checkpoint"
    /\ LET same == SameCheckpoint({}, asg.head)
       IN  Record("preserved", IF same THEN SealNow ELSE {}, asg.head, FALSE, ~same)
    /\ Leave
    /\ UNCHANGED <<wt, branch, main, merged, home, snaps, made, spec, used>>

\* execute_verification_assignment: the checkpoint must be exact before
\* anything is copied from it.
AdmitVerify ==
    /\ pc = "admit" /\ asg.mode = "verify"
    /\ IF SameCheckpoint(asg.fp, asg.head)
         THEN pc' = "baseline" /\ run' = [run EXCEPT !.guard = asg.head]
         ELSE pc' = "close" /\ run' = [run EXCEPT !.quarantined = TRUE, !.failed = TRUE, !.guard = asg.head]
    /\ UNCHANGED <<wt, branch, main, merged, home, rec, asg, hard, snaps, accepted, made, spec, used>>

\* A snapshot is a physical copy of every entry but Git's own.
Copied(tree) == [p \in Paths |-> tree[p]]

\* verifier_only_artifact: transferred bytes are staged privately, older
\* assignments need the original file in the worktree; either way an original
\* that matches is kept out of the export.
HasOriginal == wt.tree["art"] = 1
Staged(inline) == inline \/ HasOriginal

\* The sealed baseline is copied, and the copy's own fingerprint must be the
\* recorded one; then the provider's artifact gets a private directory of its
\* own.  Copying or staging can fail.
TakeBaseline ==
    /\ pc = "baseline"
    /\ \/ /\ MoreTrouble /\ used' = Use("faults") /\ snaps' = snaps
          /\ pc' = "close" /\ run' = [run EXCEPT !.failed = TRUE]
       \/ /\ wt.present /\ used' = used
          /\ IF asg.fp = {Fingerprint(Copied(wt.tree))}
               THEN /\ snaps' = snaps \cup {"baseline"} /\ pc' = "stage"
                    /\ run' = [run EXCEPT !.baseline = {Copied(wt.tree)}, !.admitted = TRUE]
               ELSE /\ snaps' = snaps \cup {"baseline"} /\ pc' = "close"
                    /\ run' = [run EXCEPT !.failed = TRUE, !.quarantined = TRUE]
       \/ /\ ~wt.present /\ used' = used /\ snaps' = snaps
          /\ pc' = "close" /\ run' = [run EXCEPT !.failed = TRUE]
    /\ UNCHANGED <<wt, branch, main, merged, home, rec, asg, hard, accepted, made, spec>>

StageArtifact ==
    /\ pc = "stage"
    /\ snaps' = IF rec.art THEN snaps \cup {"artifact"} ELSE snaps
    /\ \E inline \in BOOLEAN :
         IF rec.art /\ ~Staged(inline)
           THEN pc' = "close" /\ run' = [run EXCEPT !.failed = TRUE]
           ELSE /\ pc' = "check"
                /\ run' = [run EXCEPT !.known = rec.art /\ HasOriginal, !.checks = MaxChecks,
                                      !.chead = IF asg.head = {} /\ wt.present THEN {HeadCommit} ELSE asg.head]
    /\ UNCHANGED <<wt, branch, main, merged, home, rec, asg, hard, accepted, made, spec, used>>

-----------------------------------------------------------------------------
(* The provider session. *)

\* The agent edits, and may commit on whatever is checked out, or detach.
ProviderWorks ==
    /\ pc = "provider" /\ run.exit = "none" /\ wt.present
    /\ \E w \in Works :
         LET t == [p \in Paths |-> IF p \in w.paths THEN 1 ELSE wt.tree[p]]
             c == [base |-> HeadCommit.base, tree |-> Committed(t), n |-> HeadCommit.n + 1, by |-> "agent"]
             h == IF w.commit THEN c ELSE HeadCommit
             on == wt.on /\ ~w.detach
         IN  /\ w.commit => Committed(t) # HeadCommit.tree
             /\ wt' = [wt EXCEPT !.tree = t, !.on = on, !.at = IF on THEN {} ELSE {h}]
             /\ branch' = IF on THEN {h} ELSE branch
             /\ made' = made \cup w.paths
             /\ run' = [run EXCEPT !.exit = "working", !.known = "art" \in w.paths]
             /\ rec' = [rec EXCEPT !.art = @ \/ "art" \in w.paths]
    /\ UNCHANGED <<main, merged, home, asg, pc, hard, snaps, accepted, spec, used>>

\* adapter.execute / resume returns; a teardown that cannot prove the
\* process tree dead is remembered.
ProviderExits ==
    /\ pc = "provider"
    /\ \E exit \in {"completed", "failed", "cancelled", "error"}, uncertain \in BOOLEAN :
         /\ uncertain => exit \in {"failed", "cancelled"}
         /\ run' = [run EXCEPT !.exit = exit, !.uncertain = uncertain,
                               !.preserve = exit = "error" \/ asg.mode = "resume"]
    /\ pc' = "settle"
    /\ UNCHANGED <<wt, branch, main, merged, home, rec, asg, hard, snaps, accepted, made, spec, used>>

\* source_checkpoint::report: the stopped source is retained, with its exact
\* head and bytes where they can be proven, and nothing else happens to it.
ReportCheckpoint(allowed) ==
    /\ IF allowed /\ ~run.quarantined /\ spec.pinned /\ Verified
         THEN Record("preserved", {Fingerprint(wt.tree)}, {HeadCommit}, TRUE, FALSE)
         ELSE Record("preserved", {}, KnownHead, FALSE, run.quarantined)
    /\ Leave

\* The buffered terminal event decides; a hard stop that arrived by now wins
\* over a completion.
Settle ==
    /\ pc = "settle"
    /\ IF run.exit # "error" /\ hard = "requested"
         THEN ReportCheckpoint(~run.uncertain)
         ELSE /\ IF run.exit = "completed"
                   THEN pc' = "check" /\ run' = [run EXCEPT !.checks = MaxChecks]
                   ELSE pc' = "close" /\ run' = [run EXCEPT !.preserve = @ \/ run.exit = "failed"]
              /\ UNCHANGED <<rec, asg, hard, accepted>>
    /\ UNCHANGED <<wt, branch, main, merged, home, snaps, made, spec, used>>

-----------------------------------------------------------------------------
(* Verification. *)

End(outcome) == [run EXCEPT !.outcome = outcome]

\* What a check can do to the tree it runs in.  A program that cannot be
\* resolved touches nothing; one that runs may write, whether it passes, fails,
\* times out or is cancelled; the others only read.
Unresolved == {[ok |-> FALSE, writes |-> {}]}
Executed == {[ok |-> ok, writes |-> W] : ok \in BOOLEAN, W \in CheckWrites}
FileRead(tree) == {[ok |-> tree["src"] # 0, writes |-> {}]}
ArtifactRead(tree) == {[ok |-> rec.art /\ (asg.mode = "verify" \/ tree["art"] = 1), writes |-> {}]}
Attempts(tree) == Unresolved \cup Executed \cup FileRead(tree) \cup ArtifactRead(tree)

\* A check of a provider run executes in the worktree itself.
RunCheck ==
    /\ pc = "check" /\ asg.mode # "verify" /\ run.checks > 0
    /\ \E a \in Attempts(wt.tree) :
         /\ wt.present \/ a \in Unresolved
         /\ wt' = [wt EXCEPT !.tree = [p \in Paths |-> IF p \in a.writes THEN 2 ELSE @[p]]]
         /\ made' = made \ a.writes
         /\ IF Cancelled THEN pc' = "close" /\ run' = End("cancelled")
                         ELSE pc' = pc /\ run' = [run EXCEPT !.checks = @ - 1, !.passed = @ /\ a.ok]
    /\ UNCHANGED <<branch, main, merged, home, rec, asg, hard, snaps, accepted, spec, used>>

\* verify_isolated_recovery_checks: each command gets its own copy of the
\* sealed baseline ...
StartIsolatedCheck ==
    /\ pc = "check" /\ asg.mode = "verify" /\ run.checks > 0 /\ ~Cancelled
    /\ \/ /\ snaps' = snaps \cup {"check"} /\ pc' = "vcheck" /\ UNCHANGED <<run, used>>
       \/ /\ MoreTrouble /\ used' = Use("faults") /\ snaps' = snaps
          /\ pc' = "close" /\ run' = End("failed")
    /\ UNCHANGED <<wt, branch, main, merged, home, rec, asg, hard, accepted, made, spec>>

\* ... which is removed before the next; a copy that cannot be removed fails
\* the verification.
EndIsolatedCheck ==
    /\ pc = "vcheck"
    /\ \/ /\ ~Cancelled /\ snaps' = snaps \ {"check"} /\ used' = used /\ pc' = "check"
          /\ \E t \in run.baseline : \E a \in Attempts(t) :
               run' = [run EXCEPT !.checks = @ - 1, !.passed = @ /\ a.ok, !.checked = @ \cup {t}]
       \/ /\ ~Cancelled /\ MoreTrouble /\ used' = Use("faults") /\ snaps' = snaps
          /\ pc' = "close" /\ run' = End("failed")
       \/ /\ Cancelled /\ RemoveSnapshots /\ pc' = "close"
          /\ run' = IF snaps' = {} THEN End("cancelled") ELSE End("failed")
    /\ UNCHANGED <<wt, branch, main, merged, home, rec, asg, hard, accepted, made, spec>>

\* All checks ran: every snapshot must be gone before the report counts.
ChecksDone ==
    /\ pc = "check" /\ run.checks = 0 /\ ~Cancelled
    /\ RemoveSnapshots
    /\ IF snaps' = {} THEN pc' = "report" /\ run' = run ELSE pc' = "close" /\ run' = End("failed")
    /\ UNCHANGED <<wt, branch, main, merged, home, rec, asg, hard, accepted, made, spec>>

\* The checkpoint is compared again and the evidence sent.
SendEvidence ==
    /\ pc = "report" /\ ~Cancelled
    /\ IF ~Sealed THEN pc' = "close" /\ run' = End("integrity")
       ELSE IF ~run.passed THEN pc' = "close" /\ run' = End("failed")
       ELSE pc' = "export" /\ run' = run
    /\ UNCHANGED <<wt, branch, main, merged, home, rec, asg, hard, snaps, accepted, made, spec, used>>

\* A cancellation noticed between two steps of the verification.
CancelVerification ==
    /\ pc \in {"check", "report", "export", "upload", "accept"} /\ Cancelled
    /\ pc' = "close" /\ run' = End("cancelled")
    /\ UNCHANGED <<wt, branch, main, merged, home, rec, asg, hard, snaps, accepted, made, spec, used>>

-----------------------------------------------------------------------------
(* The deliverable. *)

\* The export index: the base, with the selected changes of the worktree and
\* without the provider's own artifacts.
Index == [p \in Tracked |-> IF p \in spec.paths /\ ~(p = "art" /\ run.known)
                              THEN wt.tree[p] ELSE BaseCommit.tree[p]]
Changes == {p \in Tracked : Index[p] # BaseCommit.tree[p]}

\* reject_out_of_scope_changes and reject_unsafe_changes
InScope == Changes \subseteq Scope
Safe == Changes \cap Sensitive = {}

\* commit_index: a preserved head must already hold exactly this tree;
\* otherwise one commit on the base, moved in by compare-and-swap on HEAD.
Preserve == IF asg.mode = "verify" /\ ~asg.ckpt THEN asg.head ELSE {}
CommitAllowed ==
    IF Preserve # {} THEN Preserve = {HeadCommit} /\ HeadCommit.tree = Index ELSE branch = {HeadCommit}
CommitIndex ==
    IF Preserve # {} THEN HeadCommit
    ELSE IF Index = BaseCommit.tree THEN BaseCommit
    ELSE [base |-> rec.base, tree |-> Index, n |-> 1, by |-> "runner"]

\* deliverable::export.  Patch form leaves the branch alone; commit form
\* moves it first and then bundles it, and an empty bundle is refused.
Export ==
    /\ pc = "export" /\ ~Cancelled
    /\ LET commits == spec.form = "commit"
           moved == commits /\ wt.present /\ InScope /\ Safe /\ CommitAllowed
           ok == wt.present /\ InScope /\ Safe /\ Changes # {} /\ (commits => moved)
           head == IF commits THEN {CommitIndex} ELSE {}
           binds == ok /\ commits /\ asg.mode = "verify" /\ Preserve = {}
       IN  /\ branch' = IF moved THEN {CommitIndex} ELSE branch
           /\ IF ok THEN /\ pc' = "upload"
                         /\ run' = [run EXCEPT !.exported = {[tree |-> Index, head |-> h] : h \in
                                                               (IF commits THEN {CommitIndex} ELSE {BaseCommit})},
                                               !.tries = MaxTries,
                                               !.chead = IF binds THEN head ELSE @,
                                               !.guard = IF binds THEN head ELSE @]
                    ELSE pc' = "close" /\ run' = End("failed")
    /\ UNCHANGED <<wt, main, merged, home, rec, asg, hard, snaps, accepted, made, spec, used>>

\* Mutant: the upload is awaited without a limit.
UploadAwaited ==
    /\ pc = "upload" /\ ~Cancelled /\ Sealed /\ run.tries > 0
    /\ run' = [run EXCEPT !.sent = TRUE, !.tries = @ - 1]
    /\ UNCHANGED <<wt, branch, main, merged, home, rec, asg, pc, hard, snaps, accepted, made, spec, used>>

\* The upload is sent, and sent again when its acknowledgment does not come
\* in time; each wake-up compares the checkpoint again.
Upload ==
    /\ pc = "upload" /\ ~Cancelled
    /\ IF ~Sealed THEN pc' = "close" /\ run' = End("integrity")
       ELSE IF run.tries = 0 THEN pc' = "close" /\ run' = End("failed")
       ELSE pc' = pc /\ run' = [run EXCEPT !.sent = TRUE, !.tries = @ - 1]
    /\ UNCHANGED <<wt, branch, main, merged, home, rec, asg, hard, snaps, accepted, made, spec, used>>

\* The acknowledgment comes, and is only a wake-up: the checkpoint is compared first.
Acknowledged ==
    /\ pc = "upload" /\ run.sent /\ ~Cancelled
    /\ IF Sealed THEN pc' = "accept" /\ run' = run ELSE pc' = "close" /\ run' = End("integrity")
    /\ UNCHANGED <<wt, branch, main, merged, home, rec, asg, hard, snaps, accepted, made, spec, used>>

\* The last comparison, and the acceptance events after it.
Accept ==
    /\ pc = "accept" /\ ~Cancelled
    /\ pc' = "close"
    /\ IF Sealed
         THEN /\ run' = End("finished")
              /\ accepted' = {[mode |-> asg.mode, fp |-> asg.fp, tree |-> e.tree, checked |-> run.checked,
                               snaps |-> snaps] : e \in run.exported}
         ELSE run' = End("integrity") /\ UNCHANGED accepted
    /\ UNCHANGED <<wt, branch, main, merged, home, rec, asg, hard, snaps, made, spec, used>>

-----------------------------------------------------------------------------
(* The end of an assignment. *)

\* The verifier-only exit never deletes anything: snapshots go, the source is
\* compared once more unless it was accepted, and only an admitted and
\* unbroken checkpoint keeps its fingerprint.
CloseVerify ==
    /\ pc = "close" /\ asg.mode = "verify"
    /\ RemoveSnapshots
    /\ LET finished == run.outcome = "finished"
           intact == finished \/ SameCheckpoint(asg.fp, run.guard)
           q == run.quarantined \/ ~intact \/ run.outcome = "integrity"
           trusted == run.admitted /\ intact /\ (finished \/ snaps' = {}) /\ ~q
       IN  Record("preserved", IF trusted THEN asg.fp ELSE {}, KnownHead, asg.ckpt, q)
    /\ Leave
    /\ UNCHANGED <<wt, branch, main, merged, home, made, spec>>

\* After a provider run: a hard stop requested by now retains the source ...
Retain == run.preserve \/ run.uncertain \/ run.outcome \in {"failed", "integrity", "cancelled"}
CloseStopped ==
    /\ pc = "close" /\ asg.mode # "verify" /\ hard = "requested"
    /\ ReportCheckpoint(run.exit # "error" /\ ~run.uncertain /\ run.exit # "completed")
    /\ UNCHANGED <<wt, branch, main, merged, home, snaps, made, spec, used>>

\* Mutant: finalization does not close the hard boundary.
BeginFinalizationLoad == hard
\* HardBoundaryControl::begin_finalization: one compare-and-swap decides.
BeginFinalization == "finalizing"

\* ... a failure, a resumed session or an uncertain teardown keeps it with
\* the fingerprint of this moment ...
CloseRetained ==
    /\ pc = "close" /\ asg.mode # "verify" /\ hard = "open" /\ Retain
    /\ Record("preserved", SealNow, KnownHead, FALSE, run.outcome = "integrity")
    /\ Leave
    /\ UNCHANGED <<wt, branch, main, merged, home, snaps, made, spec, used>>

\* git status --untracked-files=all, and ls-files --others --ignored.
StatusClean == Committed(wt.tree) = HeadCommit.tree
NothingIgnored == wt.tree["log"] = 0

\* rev-list base..HEAD, and whether the base already has the same tree.
Reachable(c) == c.n = 0 \/ c \in merged
Integrated == Reachable(HeadCommit) \/ main[Len(main)] = HeadCommit.tree

\* ... and finalize removes it only when nothing in it could be lost.
CloseFinalize ==
    /\ pc = "close" /\ asg.mode # "verify" /\ hard = "open" /\ ~Retain
    /\ IF wt.present /\ Verified /\ StatusClean /\ NothingIgnored /\ Integrated
         THEN pc' = "remove" /\ hard' = BeginFinalization /\ UNCHANGED <<rec, run, asg, accepted>>
         ELSE /\ IF wt.present THEN Record("preserved", SealNow, KnownHead, FALSE, FALSE)
                              ELSE Record("removed", {}, KnownHead, FALSE, FALSE)
              /\ Leave
    /\ UNCHANGED <<wt, branch, main, merged, home, snaps, made, spec, used>>

\* git worktree remove, which itself refuses a modified tree, and then
\* git branch -d, which keeps a branch that is not merged.
Remove ==
    /\ pc = "remove"
    /\ IF wt.present /\ StatusClean
         THEN /\ wt' = [wt EXCEPT !.present = FALSE, !.tree = Clean]
              /\ \E deleted \in BOOLEAN :
                   /\ deleted => \A c \in branch : Reachable(c)
                   /\ branch' = IF deleted THEN {} ELSE branch
              /\ Record("removed", {}, KnownHead, FALSE, FALSE)
         ELSE /\ UNCHANGED <<wt, branch>>
              /\ Record("preserved", SealNow, KnownHead, FALSE, FALSE)
    /\ Leave
    /\ UNCHANGED <<main, merged, home, snaps, made, spec, used>>

-----------------------------------------------------------------------------
(* Everything else that happens around an assignment. *)

\* ActiveRunControl::apply_circuit_breaker with suspend or stop, acknowledged
\* only while the boundary is open.
HardStop ==
    /\ pc # "idle" /\ asg.mode # "verify" /\ hard = "open"
    /\ hard' = "requested"
    /\ UNCHANGED <<wt, branch, main, merged, home, rec, asg, run, pc, snaps, accepted, made, spec, used>>

\* An interrupt, or a stop of any kind, reaches the verifier-only control loop
\* (which deletes nothing and so never looks at the hard boundary).
Interrupt ==
    /\ pc \notin {"idle", "close", "remove"} /\ asg.mode = "verify" /\ ~run.stopped
    /\ run' = [run EXCEPT !.stopped = TRUE]
    /\ UNCHANGED <<wt, branch, main, merged, home, rec, asg, pc, hard, snaps, accepted, made, spec, used>>

\* A person (or a process a verifier command left behind) edits a file, commits, or deletes the directory.
OutsideEdit ==
    /\ wt.present /\ MoreTrouble /\ used' = Use("edits")
    /\ \E p \in {"src", "log", "art"} :
         /\ wt.tree[p] # 2
         /\ wt' = [wt EXCEPT !.tree[p] = 2]
         /\ made' = made \ {p}
    /\ UNCHANGED <<branch, main, merged, home, rec, asg, run, pc, hard, snaps, accepted, spec>>

OutsideCommit ==
    /\ wt.present /\ wt.on /\ MoreTrouble /\ used' = Use("edits")
    /\ branch' = {[base |-> HeadCommit.base, tree |-> Committed(wt.tree), n |-> HeadCommit.n + 1, by |-> "person"]}
    /\ UNCHANGED <<wt, main, merged, home, rec, asg, run, pc, hard, snaps, accepted, made, spec>>

OutsideDelete ==
    /\ wt.present /\ MoreTrouble /\ used' = Use("edits")
    /\ wt' = [wt EXCEPT !.present = FALSE, !.tree = Clean]
    /\ made' = {}
    /\ UNCHANGED <<branch, main, merged, home, rec, asg, run, pc, hard, snaps, accepted, spec>>

\* The base branch moves: somebody's own commit, the branch merged, or its
\* tree integrated as one new commit.
MainMoves ==
    /\ MoreTrouble /\ used' = Use("main")
    /\ \/ main' = Append(main, [main[Len(main)] EXCEPT !["doc"] = 2]) /\ UNCHANGED merged
       \/ \E c \in branch : main' = Append(main, c.tree) /\ merged' = merged \cup {c}
       \/ \E c \in branch : main' = Append(main, c.tree) /\ UNCHANGED merged
    /\ UNCHANGED <<wt, branch, home, rec, asg, run, pc, hard, snaps, accepted, made, spec>>

\* The runner process dies and starts again; what it had not reported is never
\* reported.  It resolves its base ref anew, unless configuration pins it.
Crash ==
    /\ pc # "idle" /\ MoreTrouble /\ used' = Use("crashes")
    /\ Leave
    /\ home' \in {home, Len(main)}
    /\ UNCHANGED <<wt, branch, main, merged, rec, snaps, made, spec>>

Step ==
    \/ PrepareFresh \/ PrepareAgain \/ RefuseSource \/ Checkpoint \/ AdmitResume \/ AdmitVerify \/ TakeBaseline \/ StageArtifact
    \/ ProviderExits \/ Settle \/ RunCheck \/ StartIsolatedCheck \/ EndIsolatedCheck \/ ChecksDone
    \/ SendEvidence \/ CancelVerification \/ Export \/ Upload \/ Accept
    \/ CloseVerify \/ CloseStopped \/ CloseRetained \/ CloseFinalize \/ Remove

Around == HardStop \/ Interrupt \/ OutsideEdit \/ OutsideCommit \/ OutsideDelete \/ MainMoves \/ Crash

Exhausted == pc = "idle" /\ UNCHANGED vars

Next == (\E mode \in Modes : Assign(mode)) \/ ProviderWorks \/ Acknowledged \/ Step \/ Around \/ Exhausted

Spec == Init /\ [][Next]_vars
\* The adapter returns (its deadlines and the budget's hard stop see to it),
\* a verifier command has a timeout, an upload six tries of five seconds.
FairSpec == Spec /\ WF_vars(Step)

-----------------------------------------------------------------------------
(* Properties. *)

\* What the provider last wrote is never lost by the runner's own cleanup: it
\* is in the worktree, on the branch, or in the base's history, unless
\* somebody else overwrote or deleted it (finalize in workspace.rs).
CleanupLosesNothing ==
    \A p \in made :
        \/ wt.present /\ wt.tree[p] = 1
        \/ p \in Tracked /\ \E c \in branch : c.tree[p] = 1
        \/ p \in Tracked /\ \E i \in 1..Len(main) : main[i][p] = 1

\* A hard stop the runner acknowledged keeps the source: no cleanup of that
\* run removes the worktree afterwards (HardBoundaryControl in main.rs).
HardStopKeepsSource ==
    [][hard = "requested" /\ wt.present /\ ~wt'.present => used'.edits > used.edits]_vars

\* What verifier-only recovery accepts is one tree: the sealed one is the one
\* the checks saw and the one the deliverable was cut from, whatever happened
\* to the worktree meanwhile, and no snapshot outlives the acceptance.
AcceptedIsSealed ==
    \A a \in accepted : a.mode = "verify" =>
        /\ a.checked \subseteq a.fp
        /\ \A t \in a.fp : \A p \in spec.paths \ {"art"} : a.tree[p] = t[p]
        /\ a.snaps = {}

\* A deliverable never carries a change outside the task's write scope, a
\* secret-like file, or the provider's own artifact (export_with_index in deliverable.rs).
DeliveredIsScoped ==
    \A a \in accepted : \A p \in Tracked \ (Scope \ Sensitive) : a.tree[p] = main[rec.base][p]

\* A fingerprint the server may recover from is that of the worktree as it
\* is, if nobody edited it since the assignment ended.
SealIsCurrent ==
    rec.fp # {} /\ pc = "idle" /\ used.edits = 0 /\ used.crashes = 0
        => wt.present /\ rec.fp = {wt.tree}

\* What an assignment hands over is one tree: sealed, checked, exported within
\* its scope, and still the tree in the worktree when the server reads the seal.
AcceptanceIsSound == TypeOK /\ AcceptedIsSealed /\ DeliveredIsScoped /\ SealIsCurrent

\* The runner keeps the source: its own cleanup loses nothing the provider
\* wrote, and none follows a hard stop it acknowledged.
SourceIsKept == []CleanupLosesNothing /\ HardStopKeepsSource

\* Every assignment ends, whatever fails, is edited or is asked meanwhile.
AssignmentEnds == [](pc # "idle" => <>(pc = "idle"))
=============================================================================
