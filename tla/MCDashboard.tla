---------------------------- MODULE MCDashboard -----------------------------
(* Dashboard for TLC: two addresses for one type of client, one for the other. *)
EXTENDS Dashboard

MCPool == [t \in Type |-> IF t = "wifi" THEN {1, 2} ELSE {3}]

=============================================================================
