---------------------------- MODULE DeviceLease ----------------------------
(***************************************************************************)
(* What the hotspot sale promises about devices, with requests, payments,  *)
(* the router and the jobs left out: a session is opened once, for one     *)
(* device, and only when the device has no other session running; it ends  *)
(* once and is never opened again.  Sessions may end together, as they do  *)
(* when the expiry job or the lock of a tenant commits.                    *)
(***************************************************************************)
CONSTANTS Device,
          Placeholder,  \* devices that cannot be told apart: no limit
          Session,
          None

VARIABLES holder,  \* the device a session was opened for; None: not opened
          ended    \* the sessions that have ended

Running(s) == holder[s] # None /\ s \notin ended

Init ==
    /\ holder = [s \in Session |-> None]
    /\ ended = {}

Open(s, d) ==
    /\ holder[s] = None
    /\ d \notin Placeholder => \A x \in Session : Running(x) => holder[x] # d
    /\ holder' = [holder EXCEPT ![s] = d]
    /\ UNCHANGED ended

End(S) ==
    /\ \A s \in S : Running(s)
    /\ ended' = ended \cup S
    /\ UNCHANGED holder

Next ==
    \/ \E s \in Session, d \in Device : Open(s, d)
    \/ \E S \in SUBSET Session : End(S)

Spec == Init /\ [][Next]_<<holder, ended>>
=============================================================================
