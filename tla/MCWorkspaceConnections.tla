---------------------- MODULE MCWorkspaceConnections ----------------------
(* Small instances of WorkspaceConnections for TLC. *)
EXTENDS WorkspaceConnections

ConnectSignInTest == <<{"connect"}, {"sign_in"}, {"test"}>>

\* The ref has moved from commit 1 to commit 2 when the last check looks, or not.
RefMoves == <<{1}, {1}, {1, 2}>>
=============================================================================
