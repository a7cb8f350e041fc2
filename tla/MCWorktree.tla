----------------------------- MODULE MCWorktree -----------------------------
(* The worktree on a small instance: what a provider may leave changed and *)
(* which deliverable the task asks for.                                    *)
EXTENDS Worktree

Session(paths, commit, detach) == [paths |-> paths, commit |-> commit, detach |-> detach]
SmallWorks == {Session({"src"}, FALSE, FALSE), Session({"src", "art", "log"}, TRUE, FALSE),
               Session({"src", "doc", "key"}, FALSE, TRUE)}
SmallCheckWrites == {{}, {"src"}}

SmallSpecs == {[form |-> "commit", paths |-> {"src", "doc", "art", "key"}, pinned |-> TRUE],
               [form |-> "patch", paths |-> {"src"}, pinned |-> FALSE]}
=============================================================================
