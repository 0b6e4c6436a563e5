------------------------------- MODULE MCWards -------------------------------
(* A small instance of Wards for TLC. *)
EXTENDS Wards

\* Three wards of one kind, placed at once, that others than heroes kill.
TheWards == {[kinds |-> {0}, killers |-> {0}, most |-> 3, by |-> 0]}

Spec == WardsInit /\ [][WardsNext]_<<field, wlog>>
=============================================================================
