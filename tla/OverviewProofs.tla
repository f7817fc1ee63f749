--------------------------- MODULE OverviewProofs ---------------------------
(***************************************************************************)
(* Proofs about Overview, for any number of sessions and of loads under    *)
(* way at once, and any steps of which some, the router among them, have a *)
(* drawer.                                                                 *)
(***************************************************************************)
EXTENDS Overview, TLAPS

\* What the code has for steps and drawers.
DrawersAreSteps == Drawer \subseteq Step /\ "mikrotik" \in Drawer

-----------------------------------------------------------------------------
(* The inductive invariant.                                                *)

\* What was read, listed or clicked exists.
Made(s) == state[s] # "none"
Exist == /\ \A s \in page.list : Made(s)
         /\ \A i \in 1..MaxLoads : \A s \in load[i].list : Made(s)
         /\ \A s \in Session : kick[s] # "none" => Made(s)

\* A kick that was handled has ended its session for good.
KicksEnd == /\ \A s \in Session : kick[s] = "handled" => state[s] = "ended"
            /\ \A s \in confirmed : state[s] = "ended"

IInv == TypeOK /\ Exist /\ KicksEnd /\ KickedIsGone

States == [Session -> {"none", "active", "ended"}]
PageState == [ready : BOOLEAN, list : SUBSET Session, done : SUBSET Step, open : Window]
LoadState == [at : {"idle", "sent", "read"}, list : SUBSET Session, done : SUBSET Step]

\* The ranges of TypeOK, by name.
LEMMA Types == TypeOK <=> /\ state \in States /\ saved \subseteq Step
                          /\ page \in PageState /\ load \in [1..MaxLoads -> LoadState]
                          /\ kick \in [Session -> {"none", "sent", "handled"}]
                          /\ confirmed \subseteq Session /\ stale \subseteq Session
BY DEF TypeOK, States, PageState, LoadState

\* And after a step.
LEMMA TypesAfter == TypeOK' <=> /\ state' \in States /\ saved' \subseteq Step
                                /\ page' \in PageState /\ load' \in [1..MaxLoads -> LoadState]
                                /\ kick' \in [Session -> {"none", "sent", "handled"}]
                                /\ confirmed' \subseteq Session /\ stale' \subseteq Session
BY DEF TypeOK, States, PageState, LoadState

\* A page and a list of loads that were just opened.
LEMMA Openings ==
    /\ Opened \in PageState /\ Opened.list = {}
    /\ Idle \in LoadState /\ Idle.list = {}
    /\ Sent \in LoadState /\ Sent.list = {}
    /\ First \in [1..MaxLoads -> LoadState]
    /\ \A i \in 1..MaxLoads : First[i].list = {}
<1>1. Opened \in PageState /\ Opened.list = {}
  BY DEF Opened, PageState, Window
<1>2. Idle \in LoadState /\ Idle.list = {}
  BY DEF Idle, LoadState
<1>3. Sent \in LoadState /\ Sent.list = {}
  BY DEF Idle, Sent, LoadState
<1> QED
  BY <1>1, <1>2, <1>3 DEF First

\* The invariant holds at first.
LEMMA InitIInv == Init => IInv
<1> SUFFICES ASSUME Init PROVE IInv
  OBVIOUS
<1>1. TypeOK
  BY Openings, Types DEF Init, States
<1>2. Exist /\ KicksEnd /\ KickedIsGone
  BY Openings DEF Init, Exist, KicksEnd, KickedIsGone
<1> QED
  BY <1>1, <1>2 DEF IInv

-----------------------------------------------------------------------------
(* The steps.                                                              *)

\* What a step of the server does to a session: it never comes back.
Forward(s) == /\ Made(s) => Made(s)'
              /\ state[s] = "ended" => state'[s] = "ended"

\* A step in which nothing that the page shows of sessions changes: sessions
\* go forward, and loads and kicks under way are dropped or kept.
LEMMA QuietStep ==
    ASSUME IInv, TypeOK', \A s \in Session : Forward(s),
           page'.list = page.list, UNCHANGED <<confirmed, stale>>,
           \A i \in 1..MaxLoads : load'[i].list \subseteq load[i].list \cup Active,
           \A s \in Session : kick'[s] \in {"none", kick[s]}
    PROVE  IInv'
<1> USE DEF IInv, Forward
<1>1. page.list \subseteq Session /\ confirmed \subseteq Session
      /\ \A i \in 1..MaxLoads : load[i].list \subseteq Session
  BY Types DEF PageState, LoadState
<1>2. \A s \in Active : Made(s) /\ s \in Session
  BY DEF Active, Made
<1>3. Exist'
  <2>1. \A s \in page'.list : Made(s)'
    BY <1>1 DEF Exist
  <2>2. \A i \in 1..MaxLoads : \A s \in load'[i].list : Made(s)'
    BY <1>1, <1>2 DEF Exist
  <2>3. \A s \in Session : kick'[s] # "none" => Made(s)'
    BY DEF Exist
  <2> QED
    BY <2>1, <2>2, <2>3 DEF Exist, Made
<1>4. KicksEnd'
  BY <1>1 DEF KicksEnd
<1>5. KickedIsGone'
  BY DEF KickedIsGone
<1> QED
  BY <1>3, <1>4, <1>5

\* Loading, up to the answer.
LEMMA LoadSteps ==
    ASSUME IInv, NEW i \in 1..MaxLoads,
           \/ Load(i) \/ LoadFails(i) \/ \E failed \in SUBSET saved : LoadReads(i, failed)
    PROVE  IInv'
<1>0. IInv /\ TypeOK
  BY DEF IInv
<1> USE Types, TypesAfter
<1>1. load' \in [1..MaxLoads -> LoadState]
      /\ \A j \in 1..MaxLoads : load'[j].list \subseteq load[j].list \cup Active
  <2>1. CASE Load(i)
    BY <1>0, <2>1, Openings DEF Load
  <2>2. CASE LoadFails(i)
    BY <1>0, <2>2, Openings DEF LoadFails
  <2>3. ASSUME NEW failed \in SUBSET saved, LoadReads(i, failed)
        PROVE  load' \in [1..MaxLoads -> LoadState]
               /\ \A j \in 1..MaxLoads : load'[j].list \subseteq load[j].list \cup Active
    <3> DEFINE r == [at |-> "read", list |-> Active, done |-> saved \ failed]
    <3>1. r \in LoadState /\ r.list = Active
      BY <1>0 DEF LoadState, Active
    <3>2. load' = [load EXCEPT ![i] = r]
      BY <2>3 DEF LoadReads
    <3> QED
      BY <1>0, <3>1, <3>2
  <2> QED
    BY <2>1, <2>2, <2>3
<1>2. page' \in PageState /\ page'.list = page.list
  BY <1>0 DEF Load, LoadFails, LoadReads, PageState
<1>3. UNCHANGED <<state, saved, kick, confirmed, stale>>
  BY DEF Load, LoadFails, LoadReads
<1>4. TypeOK'
  BY <1>0, <1>1, <1>2, <1>3
<1> QED
  BY <1>0, <1>1, <1>2, <1>3, <1>4, QuietStep DEF Forward, Made

\* A load's answer: what it brings and has ended since is stale.
LEMMA AnswerSteps ==
    ASSUME IInv, NEW i \in 1..MaxLoads, LoadAnswered(i)
    PROVE  IInv'
<1> USE Types, TypesAfter
<1>0. TypeOK /\ Exist /\ KicksEnd
  BY DEF IInv
<1>1. page' \in PageState /\ page'.list = load[i].list
  BY <1>0 DEF LoadAnswered, PageState, LoadState
<1>2. load' \in [1..MaxLoads -> LoadState]
      /\ \A j \in 1..MaxLoads : load'[j].list \subseteq load[j].list
  BY <1>0, Openings DEF LoadAnswered
<1>3. UNCHANGED <<state, saved, kick, confirmed>> /\ stale' = load[i].list \cap Ended
  BY DEF LoadAnswered
<1>4. TypeOK'
  <2>1. Ended \subseteq Session
    BY DEF Ended
  <2> QED
    BY <1>0, <1>1, <1>2, <1>3, <2>1
<1>5. Exist' /\ KicksEnd'
  BY <1>0, <1>1, <1>2, <1>3 DEF Exist, KicksEnd, Made
<1>6. KickedIsGone'
  BY <1>0, <1>1, <1>3 DEF KicksEnd, KickedIsGone, Ended
<1> QED
  BY <1>4, <1>5, <1>6 DEF IInv

\* Opening the page again.
LEMMA ReopenSteps ==
    ASSUME IInv, NEW handled \in SUBSET Session, Reopen(handled)
    PROVE  IInv'
<1> USE Types, TypesAfter
<1>0. TypeOK /\ Exist
  BY DEF IInv
<1>1. state' \in States
  BY <1>0 DEF Reopen, States
<1>2. page' = Opened /\ load' = First /\ kick' = [s \in Session |-> "none"]
      /\ confirmed' = {} /\ stale' = {} /\ saved' = saved
  BY DEF Reopen
<1>3. TypeOK'
  BY <1>0, <1>1, <1>2, Openings
<1>4. Exist' /\ KicksEnd' /\ KickedIsGone'
  BY <1>2, Openings DEF Exist, KicksEnd, KickedIsGone
<1> QED
  BY <1>3, <1>4 DEF IInv

\* Kicking.
LEMMA KickSteps ==
    ASSUME IInv, NEW s \in Session,
           Kick(s) \/ KickHandled(s) \/ KickAnswered(s) \/ KickFails(s)
    PROVE  IInv'
<1> USE Types, TypesAfter
<1>0. IInv /\ TypeOK /\ Exist /\ KicksEnd /\ KickedIsGone
  BY DEF IInv
<1>1. CASE Kick(s)
  <2>1. UNCHANGED <<state, saved, page, load, confirmed, stale>> /\ s \in page.list
        /\ kick' = [kick EXCEPT ![s] = "sent"]
    BY <1>1 DEF Kick
  <2>2. TypeOK'
    BY <1>0, <2>1
  <2>3. Exist' /\ KicksEnd' /\ KickedIsGone'
    BY <1>0, <2>1 DEF Exist, KicksEnd, KickedIsGone, Made
  <2> QED
    BY <2>2, <2>3 DEF IInv
<1>2. CASE KickHandled(s)
  <2>1. UNCHANGED <<saved, page, load, confirmed, stale>> /\ kick[s] = "sent"
        /\ kick' = [kick EXCEPT ![s] = "handled"]
        /\ state' = [state EXCEPT ![s] = IF @ = "active" THEN "ended" ELSE @]
    BY <1>2 DEF KickHandled
  <2>2. state[s] # "none"
    BY <1>0, <2>1 DEF Exist, Made
  <2>3. state' \in States /\ state'[s] = "ended"
        /\ \A r \in Session \ {s} : state'[r] = state[r]
    BY <1>0, <2>1, <2>2 DEF States
  <2>4. TypeOK'
    BY <1>0, <2>1, <2>3
  <2>5. page.list \subseteq Session /\ confirmed \subseteq Session
        /\ \A i \in 1..MaxLoads : load[i].list \subseteq Session
    BY <1>0 DEF PageState, LoadState
  <2>6. Exist'
    BY <1>0, <2>1, <2>3, <2>5 DEF Exist, Made
  <2>7. KicksEnd'
    BY <1>0, <2>1, <2>3, <2>5 DEF KicksEnd
  <2>8. KickedIsGone'
    BY <1>0, <2>1 DEF KickedIsGone
  <2> QED
    BY <2>4, <2>6, <2>7, <2>8 DEF IInv
<1>3. CASE KickAnswered(s)
  <2>1. UNCHANGED <<state, saved, load, stale>> /\ kick[s] = "handled"
        /\ kick' = [kick EXCEPT ![s] = "none"]
        /\ confirmed' = confirmed \cup {s} /\ page' = RowGone(s)
    BY <1>3 DEF KickAnswered
  <2>2. RowGone(s) \in PageState /\ RowGone(s).list = page.list \ {s}
    BY <1>0 DEF RowGone, PageState
  <2>3. TypeOK'
    BY <1>0, <2>1, <2>2
  <2>4. Exist' /\ KicksEnd' /\ KickedIsGone'
    BY <1>0, <2>1, <2>2 DEF Exist, KicksEnd, KickedIsGone, Made
  <2> QED
    BY <2>3, <2>4 DEF IInv
<1>4. CASE KickFails(s)
  <2>1. UNCHANGED <<state, saved, page, load, confirmed, stale>>
        /\ kick' = [kick EXCEPT ![s] = "none"]
    BY <1>4 DEF KickFails
  <2>2. TypeOK'
    BY <1>0, <2>1
  <2> QED
    BY <1>0, <2>1, <2>2, QuietStep DEF Forward, Made
<1> QED
  BY <1>1, <1>2, <1>3, <1>4

\* Customers and the clock.
LEMMA SessionSteps ==
    ASSUME IInv, NEW s \in Session,
           SessionChanges(s, "none", "active") \/ SessionChanges(s, "active", "ended")
    PROVE  IInv'
<1> USE Types, TypesAfter
<1>0. TypeOK
  BY DEF IInv
<1>1. UNCHANGED <<saved, page, load, kick, confirmed, stale>>
  BY DEF SessionChanges
<1>2. state' \in States /\ \A r \in Session : Forward(r)
  BY <1>0 DEF SessionChanges, States, Forward, Made
<1>3. TypeOK'
  BY <1>0, <1>1, <1>2
<1> QED
  BY <1>0, <1>1, <1>2, <1>3, QuietStep

\* The windows over the page, and what the other pages configure.
LEMMA WindowSteps ==
    ASSUME DrawersAreSteps, IInv,
           \/ CompleteSetup \/ RouterPill \/ Reconnect \/ Close
           \/ \E k \in Drawer : QuickAction(k) \/ DrawerSaved(k)
           \/ \E k \in Step : Configured(k)
    PROVE  IInv'
<1> USE Types, TypesAfter
<1>0. TypeOK
  BY DEF IInv
<1>1. UNCHANGED <<state, load, kick, confirmed, stale>>
  BY DEF CompleteSetup, RouterPill, Reconnect, Close, QuickAction, DrawerSaved, Configured, Show
<1>2. page' \in PageState /\ page'.list = page.list /\ saved' \subseteq Step
  <2>1. ASSUME NEW w \in Window, Show(w)
        PROVE page' \in PageState /\ page'.list = page.list /\ saved' \subseteq Step
    BY <1>0, <2>1 DEF Show, PageState
  <2>2. CASE CompleteSetup \/ RouterPill \/ Reconnect \/ Close
    BY <2>1, <2>2 DEF CompleteSetup, RouterPill, Reconnect, Close, Window, DrawersAreSteps
  <2>3. ASSUME NEW k \in Drawer, QuickAction(k)
        PROVE page' \in PageState /\ page'.list = page.list /\ saved' \subseteq Step
    BY <2>1, <2>3 DEF QuickAction, Window
  <2>4. ASSUME NEW k \in Drawer, DrawerSaved(k)
        PROVE page' \in PageState /\ page'.list = page.list /\ saved' \subseteq Step
    <3>1. k \in Step /\ saved' = saved \cup {k}
          /\ page' = [page EXCEPT !.open = "none", !.done = @ \cup {k}]
      BY <2>4 DEF DrawerSaved, DrawersAreSteps
    <3>2. [page EXCEPT !.open = "none", !.done = @ \cup {k}] \in PageState
      BY <1>0, <3>1 DEF PageState, Window
    <3>3. [page EXCEPT !.open = "none", !.done = @ \cup {k}].list = page.list
      BY <1>0 DEF PageState
    <3> QED
      BY <1>0, <3>1, <3>2, <3>3
  <2>5. ASSUME NEW k \in Step, Configured(k)
        PROVE page' \in PageState /\ page'.list = page.list /\ saved' \subseteq Step
    BY <1>0, <2>5 DEF Configured
  <2> QED
    BY <2>2, <2>3, <2>4, <2>5
<1>3. TypeOK'
  BY <1>0, <1>1, <1>2
<1> QED
  BY <1>0, <1>1, <1>2, <1>3, QuietStep DEF Forward, Made

\* Every step keeps the invariant.
LEMMA StepIInv == ASSUME DrawersAreSteps PROVE IInv /\ [Next]_vars => IInv'
<1> SUFFICES ASSUME IInv, [Next]_vars PROVE IInv'
  OBVIOUS
<1>1. ASSUME NEW i \in 1..MaxLoads,
             \/ Load(i) \/ LoadAnswered(i) \/ LoadFails(i)
             \/ \E failed \in SUBSET saved : LoadReads(i, failed)
      PROVE IInv'
  BY <1>1, LoadSteps, AnswerSteps
<1>2. ASSUME NEW handled \in SUBSET Session, Reopen(handled) PROVE IInv'
  BY <1>2, ReopenSteps
<1>3. ASSUME NEW s \in Session,
             \/ Kick(s) \/ KickHandled(s) \/ KickAnswered(s) \/ KickFails(s)
             \/ SessionChanges(s, "none", "active")
             \/ SessionChanges(s, "active", "ended")
      PROVE IInv'
  BY <1>3, KickSteps, SessionSteps
<1>4. CASE \/ CompleteSetup \/ RouterPill \/ Reconnect \/ Close
           \/ \E k \in Drawer : QuickAction(k) \/ DrawerSaved(k)
           \/ \E k \in Step : Configured(k)
  BY <1>4, WindowSteps
<1>5. CASE UNCHANGED vars
  BY <1>5 DEF vars, IInv, TypeOK, Exist, KicksEnd, KickedIsGone, Made
<1> QED
  BY <1>1, <1>2, <1>3, <1>4, <1>5 DEF Next

-----------------------------------------------------------------------------
(* However loads and kicks overlap, no session comes back to life and a     *)
(* kick that was confirmed has ended its session.                           *)
THEOREM Invariance == ASSUME DrawersAreSteps PROVE Spec => []IInv
<1>1. IInv /\ [Next]_vars => IInv'
  BY StepIInv
<1> QED
  BY InitIInv, <1>1, PTL DEF Spec

(* The sessions, the page, its loads and its kicks keep their types. *)
THEOREM TypeCorrect == ASSUME DrawersAreSteps PROVE Spec => []TypeOK
<1>1. IInv => TypeOK
  BY DEF IInv
<1>2. Spec => []IInv
  BY Invariance
<1> QED
  BY <1>1, <1>2, PTL

(* load and handleKick of the page: a session whose kick was confirmed is   *)
(* not listed again, unless by an answer read before the session ended.     *)
THEOREM KickedStayGone == ASSUME DrawersAreSteps PROVE Spec => []KickedIsGone
<1>1. IInv => KickedIsGone
  BY DEF IInv
<1>2. Spec => []IInv
  BY Invariance
<1> QED
  BY <1>1, <1>2, PTL
=============================================================================
