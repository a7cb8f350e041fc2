-------------------------- MODULE MCProviderSession --------------------------
(* Bounds for TLC: every adapter and the probe, one session each. *)
EXTENDS ProviderSession

AllKinds == {"claude", "opencode", "codex", "copilot", "probe"}

=============================================================================
