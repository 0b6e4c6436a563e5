------------------------------- MODULE MCCamps -------------------------------
(* A small instance of Camps for TLC. *)
EXTENDS Camps

\* Two camps side by side: player 1 is near both, and nearer to the only one that
\* player 2 is near.
Distances == <<<<4, 2>>, <<30, 2>>>>

\* Two marks, creeps to come at both camps, nothing in the boxes.
Replays == {[boxes |-> {"none"}, odd |-> FALSE, at |-> {1, 2}, creeps |-> 2, ends |-> 0, ticks |-> 4]}

Spec == CampsInit /\ [][CampsNext]_<<wild, jung>>
=============================================================================
