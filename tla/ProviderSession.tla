--------------------------- MODULE ProviderSession ---------------------------
(***************************************************************************)
(* One provider session of a runner: what an AgentAdapter does between the *)
(* runner's call of execute or resume and its return.  Four adapters share *)
(* the contract (adapter/mod.rs) and differ in how they meet it:           *)
(*                                                                         *)
(*   claude, opencode  a command line in an owned process tree, spoken to  *)
(*                     in lines of JSON (external.rs, process_tree.rs);    *)
(*   codex             an app-server child spoken to by JSON-RPC           *)
(*                     (codex.rs);                                         *)
(*   copilot           an SDK client with its own event stream and a       *)
(*                     permission callback (copilot.rs).                   *)
(*                                                                         *)
(* The kind "probe" is the availability probe of the command lines, which  *)
(* owns a process tree of its own.  Controls come from people at any time, *)
(* the provider says what it likes, and its processes live or die on their *)
(* own.  Texts, models, session identities and usage figures are data and  *)
(* left out; what a line is for is kept.                                   *)
(***************************************************************************)
EXTENDS Naturals, Sequences

CONSTANTS
  Kinds,      \* the adapters of this instance
  MaxAsks,    \* permission requests of the provider
  MaxSteers,  \* directions of people
  MaxPosts,   \* controls of every sort
  MaxLines,   \* provider lines besides its handshake and its end
  MaxFaults,  \* failed writes, queries, terminations and exports
  MaxProbes   \* availability probes

ASSUME SessionBounds ==
  /\ Kinds \subseteq {"claude", "opencode", "codex", "copilot", "probe"}
  /\ {MaxAsks, MaxSteers, MaxPosts, MaxLines, MaxFaults, MaxProbes} \subseteq Nat

VARIABLES
  kind,      \* the adapter
  stage,     \* where its run stands
  turn,      \* codex: 0 spawned, 1 thread requested, 2 thread known, 3 turn known
  stopping,  \* codex: termination, requested or with its interrupt sent
  root,      \* the provider's root process (copilot: its client)
  tree,      \* descendants of the root are alive
  term,      \* the kill has been sent
  stderr,    \* the task that copies standard error is running
  inbox,     \* controls sent by the runner and not yet received
  deferred,  \* controls received and kept for later (codex: pending_steers)
  writing,   \* the frame being written to the provider
  posts,     \* controls sent so far
  steers,    \* directions sent so far
  heard,     \* directions the provider received, in order
  ask,       \* what became of each permission request, for the provider
  answers,   \* answers written for each request
  pending,   \* the adapter's map of undecided requests
  granted,   \* requests found safe or approved by a person
  shown,     \* requests that became an approval a person can decide
  decided,   \* requests a person has decided
  cancelled, failed, seen,   \* the locals of the same names
  success,   \* the provider itself reported success
  artifact,  \* the evidence artifact has been emitted
  reported,  \* the terminal event emitted
  late,      \* some event was emitted after it
  uncertain, \* TeardownUncertain has been emitted
  exit,      \* what the adapter returned
  probes, lines, faults      \* what the bounds count

proc == <<root, tree, term, stderr>>
chan == <<inbox, deferred, writing, posts, steers, heard>>
perm == <<ask, answers, pending, granted, shown, decided>>
said == <<cancelled, failed, seen, success>>
out  == <<artifact, reported, late, uncertain, exit>>
vars == <<kind, stage, turn, stopping, proc, chan, perm, said, out,
          probes, lines, faults>>

Asks     == 1 .. MaxAsks
Owned    == {"claude", "opencode", "probe"}
Outcomes == {"completed", "failed", "cancelled"}
Live     == stage \in {"handshake", "session", "drained", "closing", "teardown"}
Dead     == root # "alive"
Idle     == [t |-> "none", n |-> 0]
Control(t, n) == [t |-> t, n |-> n]
\* Stop, Interrupt, and a circuit breaker at "suspend" or "stop".
Hard(c)  == c.t = "stop"

TypeOK ==
  /\ kind \in Kinds
  /\ stage \in {"start", "handshake", "session", "drained", "closing",
                "teardown", "returned"}
  /\ turn \in 0 .. 3 /\ stopping \in {"no", "asked", "sent"}
  /\ root \in {"none", "alive", "ok", "bad"}
  /\ {tree, term, stderr} \subseteq BOOLEAN
  /\ pending \subseteq Asks /\ granted \subseteq Asks
  /\ decided \subseteq shown /\ shown \subseteq Asks
  /\ ask \in [Asks -> {"none", "waiting", "allowed", "denied", "withdrawn"}]
  /\ answers \in [Asks -> 0 .. 3]
  /\ {cancelled, failed, seen, success, artifact, late, uncertain}
       \subseteq BOOLEAN
  /\ reported \in Outcomes \cup {"none"}
  /\ exit \in Outcomes \cup {"none", "error", "dropped"}

Init ==
  /\ kind \in Kinds
  /\ stage = "start" /\ turn = 0 /\ stopping = "no"
  /\ root = "none" /\ tree = FALSE /\ term = FALSE /\ stderr = FALSE
  /\ inbox = <<>> /\ deferred = <<>> /\ writing = Idle
  /\ posts = 0 /\ steers = 0 /\ heard = <<>>
  /\ ask = [r \in Asks |-> "none"] /\ answers = [r \in Asks |-> 0]
  /\ pending = {} /\ granted = {} /\ shown = {} /\ decided = {}
  /\ cancelled = FALSE /\ failed = FALSE /\ seen = FALSE /\ success = FALSE
  /\ artifact = FALSE /\ reported = "none" /\ late = FALSE
  /\ uncertain = FALSE /\ exit = "none"
  /\ probes = 0 /\ lines = 0 /\ faults = 0

Fault == faults < MaxFaults /\ faults' = faults + 1
Says  == lines < MaxLines /\ lines' = lines + 1

-----------------------------------------------------------------------------
(* The runner's side: controls, and the run's task being dropped.          *)

Post(c) ==
  /\ Live /\ kind # "probe" /\ posts < MaxPosts
  /\ posts' = posts + 1 /\ inbox' = Append(inbox, c)
  /\ UNCHANGED <<kind, stage, turn, stopping, proc, deferred, writing, heard,
                 ask, answers, pending, shown, said, out, probes, lines,
                 faults>>

PostSteer ==
  /\ steers < MaxSteers /\ steers' = steers + 1
  /\ Post(Control("steer", steers + 1))
  /\ UNCHANGED <<granted, decided>>

PostNote == Post(Control("note", 0)) /\ UNCHANGED <<steers, granted, decided>>
PostStop == Post(Control("stop", 0)) /\ UNCHANGED <<steers, granted, decided>>

\* A person decides a request once; by then it may no longer wait.
PostDecision(r, v) ==
  /\ r \in shown \ decided
  /\ decided' = decided \cup {r}
  /\ granted' = IF v = "approve" THEN granted \cup {r} ELSE granted
  /\ Post(Control(v, r))
  /\ UNCHANGED steers

\* The future is dropped with the runner's task: the owned scope (or the
\* child, kill_on_drop) is sent its termination and nothing is awaited.
DropSession ==
  /\ Live /\ kind # "probe" /\ Fault
  /\ stage' = "returned" /\ exit' = "dropped"
  /\ term' = TRUE /\ stderr' = FALSE
  /\ inbox' = <<>> /\ deferred' = <<>> /\ writing' = Idle
  /\ UNCHANGED <<kind, turn, stopping, root, tree, posts, steers, heard, perm,
                 said, artifact, reported, late, uncertain, probes, lines>>

-----------------------------------------------------------------------------
(* The provider's processes.                                               *)

\* A process whose set-up failed never ran.
Running == root = "alive" /\ (stderr \/ kind \in {"codex", "copilot", "probe"})

RootExits(status) ==
  /\ Running /\ kind # "copilot" /\ ~term
  /\ root' = status
  /\ UNCHANGED <<kind, stage, turn, stopping, tree, term, stderr, chan, perm,
                 said, out, probes, lines, faults>>

\* The processes that tools of the provider left behind end by themselves.
TreeEnds ==
  /\ tree /\ ~term
  /\ tree' = FALSE
  /\ UNCHANGED <<kind, stage, turn, stopping, root, term, stderr, chan, perm,
                 said, out, probes, lines, faults>>

\* The kill takes effect: a Job Object takes the descendants with the root.
KillLands ==
  /\ term /\ (root = "alive" \/ (kind \in Owned /\ tree))
  /\ root' = IF root = "alive" THEN "bad" ELSE root
  /\ tree' = IF kind \in Owned THEN FALSE ELSE tree
  /\ UNCHANGED <<kind, stage, turn, stopping, term, stderr, chan, perm, said,
                 out, probes, lines, faults>>

\* The standard-error task copies a line into the event stream.
StderrLine ==
  /\ stderr
  /\ late' = (late \/ reported # "none")
  /\ UNCHANGED <<kind, stage, turn, stopping, proc, chan, perm, said, artifact,
                 reported, uncertain, exit, probes, lines, faults>>

-----------------------------------------------------------------------------
(* Shared by the adapters.                                                 *)

Answer(r, v) ==
  /\ ask' = [ask EXCEPT ![r] = v]
  /\ answers' = [answers EXCEPT ![r] = @ + 1]

\* Requests are numbered as they come.
Fresh(r) == ask[r] = "none" /\ \A q \in 1 .. r - 1: ask[q] # "none"

\* deny_pending_permissions: the map is drained first, then each request is
\* refused; a write that fails leaves some unanswered and is reported.
DenyPending(ok) ==
  \E D \in (IF ok THEN {pending} ELSE SUBSET pending):
    /\ ask' = [r \in Asks |-> IF r \in D THEN "denied" ELSE ask[r]]
    /\ answers' = [r \in Asks |-> answers[r] + (IF r \in D THEN 1 ELSE 0)]
    /\ pending' = {}

\* A frame that reached the provider.
Delivered(f) ==
  /\ heard' = IF f.t = "steer" THEN Append(heard, f.n) ELSE heard
  /\ IF f.t \in {"approve", "reject"}
       THEN Answer(f.n, IF f.t = "approve" THEN "allowed" ELSE "denied")
       ELSE UNCHANGED <<ask, answers>>

Undelivered == UNCHANGED <<heard, ask, answers>>

\* An early return through `?': what the adapter holds is dropped, the kill
\* is sent and not awaited, and no terminal event is emitted.
ReturnError ==
  /\ stage' = "returned" /\ exit' = "error"
  /\ inbox' = <<>> /\ deferred' = <<>> /\ writing' = Idle
  /\ term' = TRUE
  /\ UNCHANGED <<kind, turn, stopping, root, tree, posts, steers, heard, perm,
                 said, artifact, reported, late, uncertain, probes>>

\* The adapter is unavailable, or nothing could be spawned.
Refuse ==
  /\ stage = "start" /\ kind # "probe"
  /\ stage' = "returned" /\ exit' = "error"
  /\ UNCHANGED <<kind, turn, stopping, proc, chan, perm, said, artifact,
                 reported, late, uncertain, probes, lines, faults>>

Report(o) ==
  /\ stage' = "returned" /\ exit' = o /\ reported' = o
  /\ late' = late
  /\ inbox' = <<>> /\ deferred' = <<>>

-----------------------------------------------------------------------------
(* claude and opencode: spawn and handshake.                               *)

Spawned(next) ==
  /\ root' = "alive" /\ stage' = next
  /\ UNCHANGED <<kind, turn, stopping, term, chan, perm, out, probes, lines>>

\* Whether tools will leave processes behind is settled here: nothing looks
\* at them before the teardown.
ExternalSpawn ==
  /\ stage = "start" /\ kind \in {"claude", "opencode"}
  /\ Spawned(IF kind = "claude" THEN "handshake" ELSE "session")
  /\ stderr' = TRUE /\ tree' \in BOOLEAN
  /\ UNCHANGED <<said, faults>>

\* The suspended process could not be placed in its scope or resumed: it is
\* torn down before the adapter returns its error (CleanupRequired).
ExternalSetupFails ==
  /\ stage = "start" /\ kind \in {"claude", "opencode"} /\ Fault
  /\ Spawned("teardown")
  /\ UNCHANGED <<stderr, tree, said>>

Initialized ==
  /\ stage = "handshake" /\ kind = "claude"
  /\ stage' = "session"
  /\ UNCHANGED <<kind, turn, stopping, proc, chan, perm, said, out, probes,
                 lines, faults>>

\* A wrong answer, the deadline, the root's exit or a failed query of it.
InitializeFails ==
  /\ stage = "handshake" /\ kind = "claude"
  /\ failed' = TRUE /\ stage' = "closing"
  /\ UNCHANGED <<kind, turn, stopping, proc, chan, perm, cancelled, seen,
                 success, out, probes, lines, faults>>

\* A hard control ends the handshake; any other waits for the session.
HandshakeControl ==
  /\ stage = "handshake" /\ kind = "claude" /\ inbox # <<>>
  /\ inbox' = Tail(inbox)
  /\ IF Hard(Head(inbox))
       THEN cancelled' = TRUE /\ stage' = "closing" /\ UNCHANGED deferred
       ELSE /\ deferred' = Append(deferred, Head(inbox))
            /\ UNCHANGED <<cancelled, stage>>
  /\ UNCHANGED <<kind, turn, stopping, proc, writing, posts, steers, heard,
                 perm, failed, seen, success, out, probes, lines, faults>>

-----------------------------------------------------------------------------
(* claude and opencode: the session loop.                                  *)

External == stage = "session" /\ kind \in {"claude", "opencode"} /\ writing = Idle

\* The next control: a kept one first.
NextControl == IF deferred # <<>> THEN Head(deferred) ELSE Head(inbox)
PopControl ==
  IF deferred # <<>> THEN deferred' = Tail(deferred) /\ UNCHANGED inbox
                     ELSE inbox' = Tail(inbox) /\ UNCHANGED deferred

\* Mutant: the reason is noted and the loop goes on until the provider ends.
ExternalStopNoted ==
  /\ External /\ deferred \o inbox # <<>> /\ Hard(NextControl)
  /\ PopControl
  /\ DenyPending(TRUE) /\ cancelled' = TRUE
  /\ UNCHANGED <<kind, stage, turn, stopping, proc, writing, posts, steers,
                 heard, granted, shown, decided, failed, seen, success, out,
                 probes, lines, faults>>

\* Stop, interrupt or hard breaker: what waits is refused and the loop ends.
ExternalStop ==
  /\ External /\ deferred \o inbox # <<>> /\ Hard(NextControl)
  /\ PopControl /\ stage' = "closing"
  /\ \/ DenyPending(TRUE) /\ cancelled' = TRUE /\ UNCHANGED <<failed, faults>>
     \/ pending # {} /\ Fault /\ DenyPending(FALSE) /\ failed' = TRUE
        /\ UNCHANGED cancelled
  /\ UNCHANGED <<kind, turn, stopping, proc, writing, posts, steers, heard,
                 granted, shown, decided, seen, success, out, probes, lines>>

\* Mutant: the request stays in the map while its answer is written.
ExternalControlKeepsRequest ==
  /\ External /\ deferred \o inbox # <<>> /\ ~Hard(NextControl)
  /\ PopControl
  /\ writing' = IF NextControl.t \in {"approve", "reject"} /\ NextControl.n \notin pending
                  THEN Idle ELSE NextControl
  /\ UNCHANGED <<kind, stage, turn, stopping, proc, posts, steers, heard, perm,
                 said, out, probes, lines, faults>>

\* A steer, a breaker's note or a decision becomes the frame to write.  The
\* request leaves the map before its answer is written.
ExternalControl ==
  /\ External /\ deferred \o inbox # <<>> /\ ~Hard(NextControl)
  /\ PopControl
  /\ IF NextControl.t \in {"approve", "reject"}
       THEN /\ pending' = pending \ {NextControl.n}
            /\ writing' = IF NextControl.n \in pending THEN NextControl ELSE Idle
       ELSE writing' = NextControl /\ UNCHANGED pending
  /\ UNCHANGED <<kind, stage, turn, stopping, proc, posts, steers, heard, ask,
                 answers, granted, shown, decided, said, out, probes, lines, faults>>

\* send_protocol_frame_preemptible: the frame is written, or fails or times
\* out, or a hard control arrives first; other controls are kept meanwhile.
WriteDone ==
  /\ stage = "session" /\ writing # Idle
  /\ Delivered(writing) /\ writing' = Idle
  /\ UNCHANGED <<kind, stage, turn, stopping, proc, inbox, deferred, posts,
                 steers, pending, granted, shown, decided, said, out, probes, lines,
                 faults>>

WriteFails ==
  /\ stage = "session" /\ writing # Idle
  /\ writing' = Idle /\ failed' = TRUE /\ stage' = "closing"
  /\ UNCHANGED <<kind, turn, stopping, proc, inbox, deferred, posts, steers,
                 heard, perm, cancelled, seen, success, out, probes, lines,
                 faults>>

WritePreempted ==
  /\ stage = "session" /\ writing # Idle /\ inbox # <<>>
  /\ inbox' = Tail(inbox)
  /\ IF Hard(Head(inbox))
       THEN /\ Delivered(writing) \/ Undelivered
            /\ writing' = Idle /\ cancelled' = TRUE /\ stage' = "closing"
            /\ UNCHANGED deferred
       ELSE /\ deferred' = Append(deferred, Head(inbox))
            /\ UNCHANGED <<writing, cancelled, stage, heard, ask, answers>>
  /\ UNCHANGED <<kind, turn, stopping, proc, posts, steers, pending, granted, shown,
                 decided, failed, seen, success, out, probes, lines, faults>>

\* A line that is refused (malformed, oversized, an unknown cancellation, a
\* reused request) fails the session and refuses what waits.
ExternalRejects ==
  /\ failed' = TRUE /\ stage' = "closing"
  /\ \/ DenyPending(TRUE) /\ UNCHANGED faults
     \/ pending # {} /\ Fault /\ DenyPending(FALSE)
  /\ UNCHANGED <<kind, turn, stopping, proc, chan, granted, shown, decided, cancelled,
                 seen, success, out, probes>>

ProtocolError == External /\ Says /\ ExternalRejects

\* A request whose context is too long to be kept as an approval.
ContextTooLong == External /\ kind = "claude" /\ Says /\ ExternalRejects

\* What the classification of a request looks at: a file tool inside the
\* worktree, a read of the session's own state, or anything else (outside,
\* blocked, managed, another tool).
Classes == {"inside", "state", "other"}
ClaudeSafe(c)  == c = "inside"
CopilotSafe(c) == c \in {"inside", "state"}

\* can_use_tool: a request inside the worktree is allowed at once, any other
\* becomes an approval that a person decides.
ClaudeAsks(r, c) ==
  /\ External /\ kind = "claude" /\ Fresh(r) /\ Says
  /\ ask' = [ask EXCEPT ![r] = "waiting"]
  /\ IF ClaudeSafe(c)
       THEN /\ writing' = Control("approve", r)
            /\ granted' = granted \cup {r}
            /\ UNCHANGED <<pending, shown>>
       ELSE /\ pending' = pending \cup {r} /\ shown' = shown \cup {r}
            /\ UNCHANGED <<writing, granted>>
  /\ UNCHANGED <<kind, stage, turn, stopping, proc, inbox, deferred, posts,
                 steers, heard, answers, decided, said, out, probes, faults>>

\* The same request again while it waits is ignored.
ClaudeRepeats(r) ==
  /\ External /\ kind = "claude" /\ r \in pending /\ Says
  /\ UNCHANGED <<kind, stage, turn, stopping, proc, chan, perm, said, out,
                 probes, faults>>

\* control_cancel_request of a waiting request.
ClaudeWithdraws(r) ==
  /\ External /\ kind = "claude" /\ r \in pending /\ Says
  /\ pending' = pending \ {r}
  /\ ask' = [ask EXCEPT ![r] = "withdrawn"]
  /\ UNCHANGED <<kind, stage, turn, stopping, proc, chan, answers, granted, shown,
                 decided, said, out, probes, faults>>

\* The result frame: refused while a request waits, else it ends the loop.
ClaudeResult(good) ==
  /\ External /\ kind = "claude" /\ UNCHANGED lines
  /\ IF pending # {} THEN ExternalRejects
     ELSE /\ stage' = "closing"
          /\ seen' = good /\ success' = good
          /\ \/ failed' = ~good /\ UNCHANGED faults
             \/ good /\ Fault /\ failed' = TRUE
          /\ UNCHANGED <<kind, turn, stopping, proc, chan, perm, cancelled,
                         out, probes>>

\* The root is seen gone (with success, after the streams had their time), a
\* query of it fails, or the stream ends or breaks.
ExternalLoopEnds ==
  /\ External
  /\ \/ Fault /\ failed' = TRUE
     \/ root = "bad" /\ failed' = TRUE /\ UNCHANGED faults
     \/ root = "ok" /\ UNCHANGED <<failed, faults>>
     \/ root = "alive" /\ Fault /\ UNCHANGED failed
  /\ stage' = "closing"
  /\ UNCHANGED <<kind, turn, stopping, proc, chan, perm, cancelled, seen,
                 success, out, probes, lines>>

-----------------------------------------------------------------------------
(* claude and opencode: the end, and the owned scope.                      *)

ExternalClose ==
  /\ stage = "closing" /\ kind \in {"claude", "opencode"}
  /\ stage' = "teardown"
  /\ \/ DenyPending(TRUE) /\ UNCHANGED <<failed, faults>>
     \/ Fault /\ DenyPending(FALSE) /\ failed' = TRUE
  /\ UNCHANGED <<kind, turn, stopping, proc, chan, granted, shown, decided, cancelled,
                 seen, success, out, probes, lines>>

Teardown == stage = "teardown" /\ kind \in Owned

\* terminate_and_wait, first part: after the grace period the scope is killed.
Terminate ==
  /\ Teardown /\ ~term
  /\ term' = TRUE
  /\ UNCHANGED <<kind, stage, turn, stopping, root, tree, stderr, chan, perm,
                 said, out, probes, lines, faults>>

\* The kill is refused, or the root or a descendant outlives the deadline:
\* said once, and tried again.
TeardownFails ==
  /\ Teardown /\ Fault
  /\ uncertain' = (kind # "probe" \/ uncertain)
  /\ UNCHANGED <<kind, stage, turn, stopping, proc, chan, perm, said, artifact,
                 reported, late, exit, probes, lines>>

\* Controls that arrive between the passes are read and dropped.
TeardownControl ==
  /\ Teardown /\ uncertain /\ inbox # <<>>
  /\ inbox' = Tail(inbox)
  /\ UNCHANGED <<kind, stage, turn, stopping, proc, deferred, writing, posts,
                 steers, heard, perm, said, out, probes, lines, faults>>

\* Mutant: the root's exit is taken for the end of its scope.
VerifiedByRoot == Teardown /\ term /\ Dead

Verified == Teardown /\ term /\ Dead /\ ~tree

\* What the locals make of the run once the scope is verified empty.
ExternalOutcome ==
  IF cancelled THEN "cancelled"
  ELSE IF failed \/ (kind = "claude" /\ ~seen) \/ root # "ok" THEN "failed"
  ELSE "completed"

\* The standard-error task is drained or aborted before the terminal event.
ExternalReport ==
  /\ Verified /\ kind # "probe" /\ stderr
  /\ stderr' = FALSE
  /\ \/ /\ Report(ExternalOutcome)
        /\ artifact' = (ExternalOutcome = "completed")
        /\ UNCHANGED faults
     \/ /\ ExternalOutcome = "completed" /\ Fault
        /\ stage' = "returned" /\ exit' = "error" /\ inbox' = <<>>
        /\ deferred' = <<>>
        /\ UNCHANGED <<artifact, reported, late>>
  /\ UNCHANGED <<kind, turn, stopping, root, tree, term, writing, posts, steers,
                 heard, perm, said, uncertain, probes, lines>>

ExternalSetupReport ==
  /\ Verified /\ kind # "probe" /\ ~stderr
  /\ ReturnError /\ UNCHANGED <<stderr, lines, faults>>

-----------------------------------------------------------------------------
(* The availability probe: its lease is the guardian's, not the caller's.   *)

ProbeFree == kind = "probe" /\ stage = "start"

ProbeStart ==
  /\ ProbeFree /\ probes < MaxProbes
  /\ probes' = probes + 1
  /\ stage' = "session" /\ root' = "alive" /\ tree' \in BOOLEAN /\ term' = FALSE
  /\ UNCHANGED <<kind, turn, stopping, stderr, chan, perm, said, out, lines,
                 faults>>

\* The root exited, its time is over, or it cannot be observed.
ProbeRootEnds ==
  /\ kind = "probe" /\ stage = "session"
  /\ stage' = "teardown"
  /\ UNCHANGED <<kind, turn, stopping, proc, chan, perm, said, out, probes,
                 lines, faults>>

ProbeVerified ==
  /\ Verified /\ kind = "probe"
  /\ stage' = "start"
  /\ UNCHANGED <<kind, turn, stopping, proc, chan, perm, said, out, probes,
                 lines, faults>>

-----------------------------------------------------------------------------
(* codex.                                                                   *)

Codex == stage = "session" /\ kind = "codex"

CodexSpawn ==
  /\ stage = "start" /\ kind = "codex"
  /\ Spawned("session") /\ stderr' = TRUE
  /\ UNCHANGED <<tree, said, faults>>

\* Directions kept until the turn is known are forwarded in order, unless a
\* termination is under way: then one more is taken off, the rest stay, and
\* the interrupt that waited for the turn is sent.
CodexFlush ==
  /\ stopping' = IF turn' = 3 /\ stopping = "asked" THEN "sent" ELSE stopping
  /\ IF turn' < 3 \/ deferred = <<>> THEN UNCHANGED <<deferred, heard>>
     ELSE IF stopping # "no" THEN deferred' = Tail(deferred) /\ UNCHANGED heard
     ELSE LET kept == SelectSeq(deferred, LAMBDA c: c.t = "steer") IN
            /\ heard' = heard \o [i \in DOMAIN kept |-> kept[i].n]
            /\ deferred' = <<>>

\* The answers to initialize, thread/start (or resume) and turn/start; each
\* sends the next request, the last one opens the turn.
CodexReply ==
  /\ Codex /\ turn < 3
  /\ turn' = turn + 1
  /\ CodexFlush
  /\ UNCHANGED <<kind, stage, proc, inbox, writing, posts, steers, perm, said,
                 out, probes, lines, faults>>

\* Any other line: items, usage, warnings; kept directions go out after it.
CodexLine ==
  /\ Codex /\ Says
  /\ UNCHANGED turn /\ CodexFlush
  /\ UNCHANGED <<kind, stage, proc, inbox, writing, posts, steers, perm, said,
                 out, probes, faults>>

\* A request of the app-server for approval is declined on the spot.
CodexAsks(r) ==
  /\ Codex /\ Fresh(r) /\ Says
  /\ Answer(r, "denied")
  /\ UNCHANGED <<kind, stage, turn, stopping, proc, chan, pending, granted, shown,
                 decided, said, out, probes, faults>>

\* A direction goes straight to the open turn; before it, and for decisions
\* and breaker notes, it is kept; after a stop it is ignored.
CodexControl ==
  /\ Codex /\ inbox # <<>> /\ ~Hard(Head(inbox))
  /\ inbox' = Tail(inbox)
  /\ IF Head(inbox).t = "steer" /\ stopping # "no" THEN UNCHANGED <<heard, deferred>>
     ELSE IF Head(inbox).t = "steer" /\ turn = 3
       THEN heard' = Append(heard, Head(inbox).n) /\ UNCHANGED deferred
       ELSE deferred' = Append(deferred, Head(inbox)) /\ UNCHANGED heard
  /\ UNCHANGED <<kind, stage, turn, stopping, proc, writing, posts, steers,
                 perm, said, out, probes, lines, faults>>

\* A stop interrupts the open turn and waits for its end.  Before the thread
\* is requested the child is killed and the run cancelled; between the two
\* the stop only waits, for the turn or for the end of the start-up.
CodexStop ==
  /\ Codex /\ inbox # <<>> /\ Hard(Head(inbox))
  /\ inbox' = Tail(inbox)
  /\ stopping' = IF stopping # "no" THEN stopping
                 ELSE IF turn = 3 THEN "sent" ELSE "asked"
  /\ IF turn = 0
       THEN /\ root' = IF Dead THEN root ELSE "bad"
            /\ cancelled' = TRUE /\ stage' = "closing"
       ELSE UNCHANGED <<root, cancelled, stage>>
  /\ UNCHANGED <<kind, turn, tree, term, stderr, deferred, writing, posts,
                 steers, heard, perm, failed, seen, success, out, probes,
                 lines, faults>>

CodexEnds(c, f, s) ==
  /\ cancelled' = c /\ failed' = f /\ success' = s /\ stage' = "closing"
  /\ UNCHANGED <<kind, turn, stopping, tree, term, stderr, chan, perm, seen, out,
                 probes, lines, faults>>

\* turn/completed decides, also after a stop.
CodexTurnCompleted(status) ==
  /\ Codex /\ turn = 3 /\ UNCHANGED root
  /\ CodexEnds(status = "interrupted", status = "failed", status = "completed")

\* The start-up is answered with an error or takes too long, whether or not a
\* stop waits for the turn.
CodexStartupFails ==
  /\ Codex /\ turn < 3 /\ UNCHANGED root
  /\ CodexEnds(FALSE, TRUE, FALSE)

\* Standard output ends, by the exit of the child or of its own accord.  From
\* here on the loop waits for the child's exit and for nothing else.
CodexStreamEnds ==
  /\ Codex
  /\ stage' = "drained"
  /\ UNCHANGED <<kind, turn, stopping, proc, chan, perm, said, out, probes,
                 lines, faults>>

CodexBreaksOff ==
  /\ stage = "drained" /\ Dead /\ UNCHANGED root
  /\ CodexEnds(stopping # "no", stopping = "no", FALSE)

\* The interrupt is not acknowledged in time: the child is killed.
CodexInterruptTimeout ==
  /\ Codex /\ stopping = "sent"
  /\ root' = IF Dead THEN root ELSE "bad"
  /\ CodexEnds(TRUE, FALSE, FALSE)

\* A write to the app-server or a read of its stream fails: `?'.  The task
\* that copies standard error is left running.
CodexFails ==
  /\ Codex /\ Fault /\ ReturnError /\ UNCHANGED <<stderr, lines>>

\* The child is waited for or, after its time, killed; standard error aborted.
CodexShutdown ==
  /\ stage = "closing" /\ kind = "codex"
  /\ root' = IF Dead THEN root ELSE "bad"
  /\ stderr' = FALSE /\ stage' = "teardown"
  /\ UNCHANGED <<kind, turn, stopping, tree, term, chan, perm, said, out, probes,
                 lines, faults>>

\* Reading the changed files, or writing the evidence file, fails.
CodexEvidenceFails   == Fault
CopilotEvidenceFails == Fault

\* The evidence is written and emitted whatever the outcome, and only then
\* the terminal event.
CodexReport ==
  /\ stage = "teardown" /\ kind = "codex"
  /\ \/ /\ artifact' = TRUE
        /\ Report(IF cancelled THEN "cancelled"
                  ELSE IF failed THEN "failed" ELSE "completed")
        /\ UNCHANGED faults
     \/ /\ CodexEvidenceFails
        /\ stage' = "returned" /\ exit' = "error" /\ inbox' = <<>>
        /\ deferred' = <<>>
        /\ UNCHANGED <<artifact, reported, late>>
  /\ UNCHANGED <<kind, turn, stopping, proc, writing, posts, steers, heard,
                 perm, said, uncertain, probes, lines>>

-----------------------------------------------------------------------------
(* copilot: the loop and, beside it, the permission callback of the SDK.    *)

Copilot == stage = "session" /\ kind = "copilot"

CopilotStart ==
  /\ stage = "start" /\ kind = "copilot"
  /\ Spawned("session")
  /\ UNCHANGED <<stderr, tree, said, faults>>

\* The sandbox, the session, a message or an abort is refused: `?'.
CopilotFails ==
  /\ Copilot /\ Fault /\ ReturnError /\ UNCHANGED <<stderr, lines>>

\* The callback runs in the SDK's own task until the session is disconnected.
CopilotAsks(r, c) ==
  /\ stage \in {"session", "closing", "teardown"} /\ kind = "copilot"
  /\ Fresh(r) /\ Says
  /\ late' = (late \/ (~CopilotSafe(c) /\ reported # "none"))
  /\ IF CopilotSafe(c)
       THEN /\ Answer(r, "allowed")
            /\ granted' = granted \cup {r}
            /\ UNCHANGED <<pending, shown>>
       ELSE /\ ask' = [ask EXCEPT ![r] = "waiting"]
            /\ pending' = pending \cup {r} /\ shown' = shown \cup {r}
            /\ UNCHANGED <<answers, granted>>
  /\ UNCHANGED <<kind, stage, turn, stopping, proc, chan, decided, said,
                 artifact, reported, uncertain, exit, probes, faults>>

\* Ten minutes without a decision: refused; the sender stays in the map.
CopilotExpires(r) ==
  /\ Live /\ kind = "copilot" /\ ask[r] = "waiting"
  /\ Answer(r, "denied")
  /\ UNCHANGED <<kind, stage, turn, stopping, proc, chan, pending, granted, shown,
                 decided, said, out, probes, lines, faults>>

\* A direction or note is sent at once; a decision wakes its callback, if the
\* callback still waits.
CopilotControl ==
  /\ Copilot /\ inbox # <<>> /\ ~Hard(Head(inbox))
  /\ inbox' = Tail(inbox)
  /\ LET c == Head(inbox) IN
       IF c.t \in {"approve", "reject"}
         THEN /\ pending' = pending \ {c.n} /\ UNCHANGED heard
              /\ IF c.n \in pending /\ ask[c.n] = "waiting"
                   THEN Answer(c.n, IF c.t = "approve" THEN "allowed"
                                                        ELSE "denied")
                   ELSE UNCHANGED <<ask, answers>>
         ELSE /\ heard' = IF c.t = "steer" THEN Append(heard, c.n) ELSE heard
              /\ UNCHANGED <<ask, answers, pending>>
  /\ UNCHANGED <<kind, stage, turn, stopping, proc, deferred, writing, posts,
                 steers, granted, shown, decided, said, out, probes, lines, faults>>

\* Every waiting callback is refused.
RejectPending ==
  LET W == {r \in pending: ask[r] = "waiting"} IN
    /\ ask' = [r \in Asks |-> IF r \in W THEN "denied" ELSE ask[r]]
    /\ answers' = [r \in Asks |-> answers[r] + (IF r \in W THEN 1 ELSE 0)]
    /\ pending' = {}

\* A stop refuses what waits and aborts the turn; the loop goes on until the
\* SDK reports the session idle or failed.
CopilotStop ==
  /\ Copilot /\ inbox # <<>> /\ Hard(Head(inbox))
  /\ inbox' = Tail(inbox)
  /\ RejectPending /\ cancelled' = TRUE
  /\ UNCHANGED <<kind, stage, turn, stopping, proc, deferred, writing, posts,
                 steers, heard, granted, shown, decided, failed, seen, success, out,
                 probes, lines, faults>>

\* session.idle (aborted or not), session.error, or the stream closes.
CopilotLoopEnds(e) ==
  /\ Copilot
  /\ stage' = "closing"
  /\ failed' = (e = "error")
  /\ success' = (e = "idle")
  /\ cancelled' = (cancelled \/ e = "aborted")
  /\ UNCHANGED <<kind, turn, stopping, proc, chan, perm, seen, out, probes,
                 lines, faults>>

\* pending.clear(): the callbacks find their sender gone.
CopilotClose ==
  /\ stage = "closing" /\ kind = "copilot"
  /\ stage' = "teardown"
  /\ RejectPending
  /\ UNCHANGED <<kind, turn, stopping, proc, chan, granted, shown, decided, said, out,
                 probes, lines, faults>>

\* The session is disconnected and the client stopped before anything is
\* said; that either of them fails is ignored, and the client may live on.
CopilotReport ==
  /\ stage = "teardown" /\ kind = "copilot"
  /\ LET o == IF cancelled THEN "cancelled"
              ELSE IF failed THEN "failed" ELSE "completed" IN
       \/ /\ Report(o) /\ artifact' = (o = "completed")
          /\ \/ root' = "ok" /\ UNCHANGED faults
             \/ Fault /\ UNCHANGED root
       \/ /\ o = "completed" /\ CopilotEvidenceFails
          /\ root' \in {"ok", root}
          /\ stage' = "returned" /\ exit' = "error" /\ inbox' = <<>>
          /\ deferred' = <<>>
          /\ UNCHANGED <<artifact, reported, late>>
  /\ UNCHANGED <<kind, turn, stopping, tree, term, stderr, writing, posts,
                 steers, heard, perm, said, uncertain, probes, lines>>

-----------------------------------------------------------------------------
(* What the code does by itself, and what it is exposed to.                 *)

Adapter ==
  \/ KillLands
  \/ Initialized \/ InitializeFails \/ HandshakeControl
  \/ ExternalStop \/ ExternalControl \/ WriteDone \/ WritePreempted
  \/ ExternalClose \/ Terminate \/ TeardownControl
  \/ ExternalReport \/ ExternalSetupReport
  \/ ProbeRootEnds \/ ProbeVerified
  \/ CodexControl \/ CodexStop \/ CodexStartupFails \/ CodexBreaksOff
  \/ CodexInterruptTimeout \/ CodexShutdown \/ CodexReport
  \/ CopilotControl \/ CopilotStop \/ CopilotClose \/ CopilotReport

World ==
  \/ PostSteer \/ PostNote \/ PostStop \/ DropSession
  \/ \E r \in Asks, v \in {"approve", "reject"}: PostDecision(r, v)
  \/ \E s \in {"ok", "bad"}: RootExits(s)
  \/ TreeEnds \/ StderrLine
  \/ Refuse \/ ExternalSpawn \/ ExternalSetupFails \/ ProbeStart \/ CodexSpawn
  \/ CopilotStart
  \/ WriteFails \/ ProtocolError \/ ContextTooLong \/ TeardownFails \/ ExternalLoopEnds
  \/ CodexFails \/ CopilotFails
  \/ \E r \in Asks, c \in Classes: ClaudeAsks(r, c) \/ CopilotAsks(r, c)
  \/ \E r \in Asks: \/ ClaudeRepeats(r) \/ ClaudeWithdraws(r) \/ CodexAsks(r)
                    \/ CopilotExpires(r)
  \/ \E b \in BOOLEAN: ClaudeResult(b)
  \/ CodexReply \/ CodexLine \/ CodexStreamEnds
  \/ \E s \in {"completed", "interrupted", "failed"}: CodexTurnCompleted(s)
  \/ \E e \in {"idle", "aborted", "error"}: CopilotLoopEnds(e)

Next == Adapter \/ World
Spec == Init /\ [][Next]_vars
\* Only what the adapter, its timers, the operating system's kill and a call of
\* the SDK owe is fair; people and providers owe nothing, neither an answer to
\* an abort nor the end of a stream.
FairSpec == Spec /\ WF_vars(Adapter)

-----------------------------------------------------------------------------

\* "Implementations must not return while their child process or SDK client
\* is still live" (adapter/mod.rs): an outcome is returned, and the lease of
\* an availability probe is free, only once the root is gone; an adapter that
\* owns its process tree has verified the descendants gone as well, whatever
\* it returns.  Teardown, retries, controls and the provider's own exits race.
\* Copilot's client is gone unless its stop failed, which is ignored.
ReturnedIsStopped ==
  /\ stage = "returned" /\ exit \in Outcomes =>
       Dead \/ (kind = "copilot" /\ faults > 0)
  /\ stage = "returned" /\ kind \in Owned /\ exit # "dropped" => Dead /\ ~tree
  /\ ProbeFree => Dead /\ ~tree

\* A permission request is answered at most once, whatever decision,
\* cancellation, expiry, stop and teardown do to it, and "allow" is only ever
\* said to a request found safe or approved by a person for that request.
AnswersAreDecided ==
  \A r \in Asks: answers[r] <= 1 /\ (ask[r] = "allowed" => r \in granted)

\* The terminal event is the last event of the session and agrees with what
\* the adapter returns; an error return emits none.
TerminalIsLast ==
  /\ ~late
  /\ reported = IF exit \in Outcomes THEN exit ELSE "none"

\* A session is completed only on the provider's own success (Claude's result
\* frame and a clean exit, OpenCode's clean exit, Codex's completed turn, the
\* idle Copilot session), with its evidence emitted and no request waiting.
CompletedIsEarned ==
  reported = "completed" =>
    /\ artifact /\ ~cancelled /\ ~failed
    /\ kind # "opencode" => success
    /\ kind \in Owned => root = "ok"
    /\ kind # "copilot" => \A r \in Asks: ask[r] # "waiting"

\* Directions reach the provider in the order people gave them, although some
\* are kept back during the handshake, a blocked write or before the turn.
DirectionsKeepOrder ==
  \A i, j \in DOMAIN heard: i < j => heard[i] < heard[j]

\* What a stop cannot reach: an app-server that closed its output and lives,
\* for whose exit alone the Codex loop waits, and a Copilot session that was
\* told to abort and reports neither that it is idle nor that it failed.
OutOfReach ==
  \/ stage = "drained" /\ ~Dead
  \/ kind = "copilot" /\ stage = "session" /\ cancelled

\* A stop the session was sent ends it, wherever it finds the session: in the
\* handshake, during a blocked write, before the turn, in the teardown.  The
\* adapter returns, by the provider's end, by a timeout or by the kill, unless
\* the provider stays out of reach for good.
StopEnds ==
  (\E i \in DOMAIN inbox: Hard(inbox[i])) ~> (stage = "returned" \/ []OutOfReach)

\* A return means what it says: the processes are gone, the terminal event is
\* the last one and agrees with the outcome, and "completed" was earned.
ReturnIsSound == TypeOK /\ ReturnedIsStopped /\ TerminalIsLast /\ CompletedIsEarned

\* What the provider is told is what people said: each request answered once
\* and as decided, and directions in their order.
ProviderIsTold == AnswersAreDecided /\ DirectionsKeepOrder
=============================================================================
