------------------------ MODULE MCRunnerConnection ------------------------
(* Small instances of RunnerConnection for TLC: the cfg gives every constant. *)
EXTENDS RunnerConnection
=============================================================================
