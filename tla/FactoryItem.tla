---------------------------- MODULE FactoryItem ----------------------------
(***************************************************************************)
(* What the factory promises about one Project item, whoever drives it: a   *)
(* fence that only grows, a version that every change consumes, at most one *)
(* mission, and outcomes that stay, but for the one that may be taken back  *)
(* for the mission the item already has.  FactoryClaim implements it.       *)
(***************************************************************************)
EXTENDS Naturals

CONSTANTS Unlinked,   \* states in which no mission need exist
          Linked,     \* states that a mission must back
          Terminal,   \* outcomes
          Reopenable  \* the outcomes that may be taken back

VARIABLES state, version, fence, missions

vars == <<state, version, fence, missions>>

States == Unlinked \cup Linked \cup Terminal

Init ==
    /\ version \in Nat /\ fence \in Nat
    /\ \/ state \in {"none"} \cup Unlinked /\ missions = 0
       \/ state \in Linked \cup Reopenable /\ missions = 1

(* A new owner takes the item over: a fresh fence, never a new outcome.      *)
TakeOver ==
    /\ state \notin Terminal
    /\ fence' = fence + 1 /\ version' = version + 1
    /\ missions' = missions
    /\ IF missions = 0 THEN state' \in Unlinked ELSE state' = state

(* The owner, or the outcome of the mission, moves the item.                 *)
Advance ==
    /\ state \in States \ Terminal
    /\ fence' = fence /\ version' = version + 1
    /\ \/ missions = 0 /\ missions' = 0 /\ state' \in Unlinked \cup Terminal
       \/ missions = 1 /\ missions' = 1 /\ state' \in Linked \cup Unlinked \cup Terminal

(* The item gets its mission, once.                                          *)
Link ==
    /\ state \in Unlinked /\ missions = 0
    /\ fence' = fence /\ version' = version + 1
    /\ missions' = 1 /\ state' \in Linked

(* An outcome is taken back: the mission is there, and the fence stays.      *)
Reopen ==
    /\ state \in Reopenable /\ missions = 1
    /\ fence' = fence /\ version' = version + 1
    /\ missions' = missions /\ state' \in Linked

Next == TakeOver \/ Advance \/ Link \/ Reopen

Spec == Init /\ [][Next]_vars
============================================================================
