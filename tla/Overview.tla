------------------------------ MODULE Overview ------------------------------
(***************************************************************************)
(* The first page of the ISP's dashboard, app/dashboard/page.tsx: the live *)
(* sessions with their Kick buttons, the steps of the set-up that are done *)
(* and the windows over the page.  The page loads itself anew every 30     *)
(* seconds and loads may overlap; a load's answer replaces what the page   *)
(* shows, also what a kick has changed since the load was read.  The       *)
(* requests of one load are read together; what the drawers do between     *)
(* opening and saving is in RouterSetup and MpesaSetup.                    *)
(***************************************************************************)
EXTENDS Naturals

CONSTANTS
    Session,   \* sessions that can ever be made
    Step,      \* steps of the set-up: router, M-Pesa, packages
    Drawer,    \* the steps that have a drawer on this page
    MaxLoads   \* bound: loads under way at once

VARIABLES
    state,     \* the session on the server: none, active or ended
    saved,     \* the steps that are done on the server
    page,      \* loaded once, sessions listed, steps shown as done, window open
    load,      \* each load under way: sent, or read and what was read
    kick,      \* kick[s]: none, sent or handled
    confirmed, \* ghost: kicks answered since the page was opened
    stale      \* ghost: rows the last answer brought that had ended by then

vars == <<state, saved, page, load, kick, confirmed, stale>>

Window == {"none", "setup", "router"} \cup Drawer
Idle   == [at |-> "idle", list |-> {}, done |-> {}]
Sent   == [Idle EXCEPT !.at = "sent"]
Opened == [ready |-> FALSE, list |-> {}, done |-> {}, open |-> "none"]
First  == [i \in 1..MaxLoads |-> IF i = 1 THEN Sent ELSE Idle]

Init == /\ state = [s \in Session |-> "none"] /\ saved = {}
        /\ page = Opened /\ load = First
        /\ kick = [s \in Session |-> "none"]
        /\ confirmed = {} /\ stale = {}

Active == {s \in Session : state[s] = "active"}
Ended  == {s \in Session : state[s] = "ended"}

----------------------------------------------------------------------------
(* Loading: when the page opens, every 30 seconds, on Refresh. *)
Load(i) ==
    /\ load[i] = Idle
    /\ load' = [load EXCEPT ![i] = Sent]
    /\ UNCHANGED <<state, saved, page, kick, confirmed, stale>>

(* A failed request for a configuration counts as one not made. *)
LoadReads(i, failed) ==
    /\ load[i].at = "sent"
    /\ load' = [load EXCEPT ![i] = [at |-> "read", list |-> Active, done |-> saved \ failed]]
    /\ UNCHANGED <<state, saved, page, kick, confirmed, stale>>

LoadAnswered(i) ==
    /\ load[i].at = "read"
    /\ page' = [page EXCEPT !.ready = TRUE, !.list = load[i].list, !.done = load[i].done]
    /\ stale' = load[i].list \cap Ended
    /\ load' = [load EXCEPT ![i] = Idle]
    /\ UNCHANGED <<state, saved, kick, confirmed>>

(* The page stays as it was. *)
LoadFails(i) ==
    /\ load[i] # Idle
    /\ page' = [page EXCEPT !.ready = TRUE]
    /\ load' = [load EXCEPT ![i] = Idle]
    /\ UNCHANGED <<state, saved, kick, confirmed, stale>>

(* The page is left and opened again: nothing under way reaches it, and a   *)
(* kick on its way is handled or not.                                       *)
Reopen(handled) ==
    /\ page.ready
    /\ \A s \in handled : kick[s] = "sent"
    /\ state' = [s \in Session |-> IF s \in handled /\ state[s] = "active" THEN "ended" ELSE state[s]]
    /\ page' = Opened /\ load' = First
    /\ kick' = [s \in Session |-> "none"]
    /\ confirmed' = {} /\ stale' = {}
    /\ UNCHANGED saved

----------------------------------------------------------------------------
(* Kicking. *)
Clickable == page.ready /\ page.open = "none"

Kick(s) ==
    /\ Clickable /\ s \in page.list /\ kick[s] = "none"
    /\ kick' = [kick EXCEPT ![s] = "sent"]
    /\ UNCHANGED <<state, saved, page, load, confirmed, stale>>

(* terminate_session also answers yes for a session that has ended. *)
KickHandled(s) ==
    /\ kick[s] = "sent"
    /\ state' = [state EXCEPT ![s] = IF @ = "active" THEN "ended" ELSE @]
    /\ kick' = [kick EXCEPT ![s] = "handled"]
    /\ UNCHANGED <<saved, page, load, confirmed, stale>>

\* Mutant: the row is left to the next load.
RowStays(s) == page
RowGone(s) == [page EXCEPT !.list = @ \ {s}]

KickAnswered(s) ==
    /\ kick[s] = "handled"
    /\ page' = RowGone(s)
    /\ confirmed' = confirmed \cup {s}
    /\ kick' = [kick EXCEPT ![s] = "none"]
    /\ UNCHANGED <<state, saved, load, stale>>

(* No answer came, even to the retries. *)
KickFails(s) ==
    /\ kick[s] # "none"
    /\ kick' = [kick EXCEPT ![s] = "none"]
    /\ UNCHANGED <<state, saved, page, load, confirmed, stale>>

----------------------------------------------------------------------------
(* The windows over the page. *)
Show(w) ==
    /\ page' = [page EXCEPT !.open = w]
    /\ UNCHANGED <<state, saved, load, kick, confirmed, stale>>

CompleteSetup == Clickable /\ Step \ page.done # {} /\ Show("setup")
QuickAction(k) == Clickable /\ k \in Drawer \ page.done /\ Show(k)
RouterPill == Clickable /\ "mikrotik" \in page.done /\ Show("router")
Reconnect == page.open = "router" /\ Show("mikrotik")

(* The cross, Escape, Dismiss, or the link of a step, which also leaves. *)
Close == page.open # "none" /\ Show("none")

DrawerSaved(k) ==
    /\ page.open = k /\ k \in Drawer
    /\ saved' = saved \cup {k}
    /\ page' = [page EXCEPT !.open = "none", !.done = @ \cup {k}]
    /\ UNCHANGED <<state, load, kick, confirmed, stale>>

----------------------------------------------------------------------------
(* Customers, the clock and the other pages. *)
SessionChanges(s, from, to) ==
    /\ state[s] = from
    /\ state' = [state EXCEPT ![s] = to]
    /\ UNCHANGED <<saved, page, load, kick, confirmed, stale>>

Configured(k) ==
    /\ k \notin saved
    /\ saved' = saved \cup {k}
    /\ UNCHANGED <<state, page, load, kick, confirmed, stale>>

Next ==
    \/ \E i \in 1..MaxLoads : \/ Load(i) \/ LoadAnswered(i) \/ LoadFails(i)
                              \/ \E failed \in SUBSET saved : LoadReads(i, failed)
    \/ \E handled \in SUBSET Session : Reopen(handled)
    \/ \E s \in Session : \/ Kick(s) \/ KickHandled(s) \/ KickAnswered(s) \/ KickFails(s)
                          \/ SessionChanges(s, "none", "active")
                          \/ SessionChanges(s, "active", "ended")
    \/ CompleteSetup \/ RouterPill \/ Reconnect \/ Close
    \/ \E k \in Drawer : QuickAction(k) \/ DrawerSaved(k)
    \/ \E k \in Step : Configured(k)

Spec == Init /\ [][Next]_vars

----------------------------------------------------------------------------
TypeOK == /\ state \in [Session -> {"none", "active", "ended"}]
          /\ saved \subseteq Step
          /\ page \in [ready : BOOLEAN, list : SUBSET Session, done : SUBSET Step, open : Window]
          /\ load \in [1..MaxLoads -> [at : {"idle", "sent", "read"}, list : SUBSET Session,
                                       done : SUBSET Step]]
          /\ kick \in [Session -> {"none", "sent", "handled"}]
          /\ confirmed \subseteq Session /\ stale \subseteq Session

(* A session whose kick was confirmed is not listed again, unless by an     *)
(* answer that was read before the session ended.                           *)
KickedIsGone == page.list \cap confirmed \subseteq stale
=============================================================================
