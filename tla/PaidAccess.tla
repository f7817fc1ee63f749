----------------------------- MODULE PaidAccess -----------------------------
(***************************************************************************)
(* What the hotspot sale promises, with requests, callbacks, the router    *)
(* and the jobs left out: a session gains access to the network only after *)
(* its customer has paid, one session at a time, and may lose it at any    *)
(* time; a payment is never taken back.                                    *)
(***************************************************************************)
CONSTANT Session

VARIABLES paid,    \* the sessions a customer has paid for
          access   \* the sessions that are active or known to the router

Init ==
    /\ paid = {}
    /\ access = {}

Pay(s) ==
    /\ paid' = paid \cup {s}
    /\ UNCHANGED access

Grant(s) ==
    /\ s \in paid
    /\ access' = access \cup {s}
    /\ UNCHANGED paid

Revoke(S) ==
    /\ access' = access \ S
    /\ UNCHANGED paid

Next ==
    \/ \E s \in Session : Pay(s) \/ Grant(s)
    \/ \E S \in SUBSET Session : Revoke(S)

Spec == Init /\ [][Next]_<<paid, access>>
=============================================================================
