-------------------------- MODULE DashboardProofs ---------------------------
(***************************************************************************)
(* Proofs about Dashboard, for any constants. Every part keeps in the      *)
(* whole what it keeps alone: a step of the dashboard is a step of the     *)
(* part that runs and a stutter of the others. Subscribers, PortalDesign   *)
(* and Overview have their proofs in modules of their own; those of the    *)
(* small parts are here.                                                   *)
(***************************************************************************)
EXTENDS Dashboard, Sequences, TLAPS

-----------------------------------------------------------------------------
(* ClientsPage.                                                            *)

CliInv == Cli!TypeOK /\ Cli!PanelIsOneClient

CliPanel == [sel : Client \cup {Nobody}, data : Client \cup {Nobody}, loading : BOOLEAN]

\* The page's invariant holds at first.
LEMMA CliInit == Cli!Init => CliInv
<1> SUFFICES ASSUME Cli!Init PROVE CliInv
  OBVIOUS
<1>1. panel \in CliPanel /\ panel.data = Nobody
  BY DEF Cli!Init, Cli!Closed, CliPanel
<1>2. table \in [chosen : Tab, shown : Tab]
  BY DEF Cli!Init
<1> QED
  BY <1>1, <1>2 DEF Cli!Init, CliInv, Cli!TypeOK, Cli!PanelIsOneClient, CliPanel, Cli!Call

\* What the actions do to the requests under way.
LEMMA CliCalls ==
    ASSUME CliInv, NEW c \in Client, NEW k \in {"open", "refresh", "row", "drawer", "reload"},
           Cli!Send(k, c) \/ Cli!Answered(k, c)
    PROVE  calls' \subseteq Cli!Call
BY DEF CliInv, Cli!TypeOK, Cli!Send, Cli!Answered, Cli!Call

\* An answer about a client, when it replaces the row alone.
LEMMA CliRow ==
    ASSUME CliInv, NEW c \in Client, Cli!ShowRow(c)
    PROVE  panel' \in CliPanel /\ crossed' \in BOOLEAN /\ Cli!PanelIsOneClient'
<1>1. panel' \in CliPanel /\ panel'.sel = c /\ panel'.data = panel.data
  BY DEF CliInv, Cli!TypeOK, Cli!ShowRow, CliPanel
<1>2. crossed' = (panel.data \notin {c, Nobody})
  BY DEF Cli!ShowRow
<1> QED
  BY <1>1, <1>2 DEF Cli!PanelIsOneClient

\* Every step keeps the invariant.
LEMMA CliStep == CliInv /\ [Cli!Next]_(Cli!vars) => CliInv'
<1> SUFFICES ASSUME CliInv, [Cli!Next]_(Cli!vars) PROVE CliInv'
  OBVIOUS
<1>0. /\ panel \in CliPanel /\ busy \in Client \cup {Nobody} /\ calls \subseteq Cli!Call
      /\ table \in [chosen : Tab, shown : Tab] /\ lists \subseteq Tab /\ crossed \in BOOLEAN
      /\ Cli!PanelIsOneClient
  BY DEF CliInv, Cli!TypeOK, CliPanel
<1>1. ASSUME NEW c \in Client, Cli!Select(c) PROVE CliInv'
  <2>1. panel' \in CliPanel /\ panel'.data = Nobody
    BY <1>1 DEF Cli!Select, CliPanel
  <2> QED
    BY <1>0, <1>1, <2>1, CliCalls
       DEF Cli!Select, CliInv, Cli!TypeOK, CliPanel, Cli!PanelIsOneClient
<1>2. ASSUME NEW c \in Client, Cli!Details(c) PROVE CliInv'
  <2>1. panel' \in CliPanel /\ panel'.data = panel'.sel
    BY <1>2 DEF Cli!Details, CliPanel
  <2> QED
    BY <1>0, <1>2, <2>1, CliCalls
       DEF Cli!Details, CliInv, Cli!TypeOK, CliPanel, Cli!PanelIsOneClient
<1>3. ASSUME Cli!CloseDrawer PROVE CliInv'
  <2>1. panel' \in CliPanel /\ panel'.data = Nobody
    BY <1>0, <1>3 DEF Cli!CloseDrawer, CliPanel
  <2> QED
    BY <1>0, <1>3, <2>1
       DEF Cli!CloseDrawer, CliInv, Cli!TypeOK, CliPanel, Cli!PanelIsOneClient
<1>4. ASSUME NEW c \in Client, Cli!Refresh(c) PROVE CliInv'
  BY <1>0, <1>4, CliCalls DEF Cli!Refresh, CliInv, Cli!TypeOK, CliPanel, Cli!PanelIsOneClient
<1>5. ASSUME NEW c \in Client, NEW ok \in BOOLEAN, Cli!Refreshed(c, ok) PROVE CliInv'
  <2>1. calls' \subseteq Cli!Call /\ UNCHANGED <<busy, table, lists>>
    BY <1>5, CliCalls DEF Cli!Refreshed
  <2>2. panel' \in CliPanel /\ crossed' \in BOOLEAN /\ Cli!PanelIsOneClient'
    BY <1>0, <1>5, CliRow DEF Cli!Refreshed, Cli!PanelIsOneClient
  <2> QED
    BY <1>0, <2>1, <2>2 DEF CliInv, Cli!TypeOK, CliPanel
<1>6. ASSUME NEW c \in Client, Cli!Act(c) PROVE CliInv'
  BY <1>0, <1>6, CliCalls DEF Cli!Act, CliInv, Cli!TypeOK, CliPanel, Cli!PanelIsOneClient
<1>7. ASSUME NEW c \in Client, NEW ok \in BOOLEAN, Cli!RowActed(c, ok) PROVE CliInv'
  <2>1. calls' \subseteq Cli!Call /\ lists' \subseteq Tab /\ busy' = Nobody
    BY <1>0, <1>7, CliCalls DEF Cli!RowActed, Cli!Fetching
  <2> QED
    BY <1>0, <1>7, <2>1 DEF Cli!RowActed, CliInv, Cli!TypeOK, CliPanel, Cli!PanelIsOneClient
<1>8. ASSUME NEW c \in Client, Cli!DrawerActed(c) PROVE CliInv'
  <2>1. calls' \subseteq Cli!Call
    BY <1>0, <1>8 DEF Cli!DrawerActed, Cli!Call
  <2> QED
    BY <1>0, <1>8, <2>1 DEF Cli!DrawerActed, CliInv, Cli!TypeOK, CliPanel, Cli!PanelIsOneClient
<1>9. ASSUME NEW c \in Client, Cli!DrawerFails(c) PROVE CliInv'
  BY <1>0, <1>9, CliCalls DEF Cli!DrawerFails, CliInv, Cli!TypeOK, CliPanel, Cli!PanelIsOneClient
<1>10. ASSUME NEW c \in Client, Cli!DrawerReloaded(c) PROVE CliInv'
  <2>1. calls' \subseteq Cli!Call /\ lists' \subseteq Tab /\ busy' = Nobody /\ table' = table
    BY <1>0, <1>10, CliCalls DEF Cli!DrawerReloaded, Cli!Fetching
  <2>2. panel' \in CliPanel /\ crossed' \in BOOLEAN /\ Cli!PanelIsOneClient'
    BY <1>10, CliRow DEF Cli!DrawerReloaded
  <2> QED
    BY <1>0, <2>1, <2>2 DEF CliInv, Cli!TypeOK, CliPanel
<1>11. ASSUME NEW t \in Tab, Cli!ChooseTab(t) PROVE CliInv'
  BY <1>0, <1>11 DEF Cli!ChooseTab, CliInv, Cli!TypeOK, CliPanel, Cli!PanelIsOneClient
<1>12. ASSUME NEW t \in Tab, NEW ok \in BOOLEAN, Cli!Listed(t, ok) PROVE CliInv'
  BY <1>0, <1>12 DEF Cli!Listed, CliInv, Cli!TypeOK, CliPanel, Cli!PanelIsOneClient
<1>13. ASSUME UNCHANGED Cli!vars PROVE CliInv'
  BY <1>0, <1>13 DEF Cli!vars, CliInv, Cli!TypeOK, CliPanel, Cli!PanelIsOneClient
<1> QED
  BY <1>1, <1>2, <1>3, <1>4, <1>5, <1>6, <1>7, <1>8, <1>9, <1>10, <1>11, <1>12, <1>13 DEF Cli!Next

-----------------------------------------------------------------------------
(* MpesaSetup: a test that waits for Daraja holds credentials, *)
(* and those that are saved unless a save was handled meanwhile.            *)
TestInv == test.at = "daraja" =>
             /\ test.cred \in Cred
             /\ ~mixed => test.cred = config.cred

MpesaInv == Mpesa!TypeOK /\ TestInv /\ Mpesa!VerifiedWasTested

MpesaPage == [config : Mpesa!Shown, form : BOOLEAN, entered : Cred \cup {NoCred},
              saving : BOOLEAN, testing : BOOLEAN, loading : BOOLEAN]

\* The invariant holds at first.
LEMMA MpesaInit == Mpesa!Init => MpesaInv
<1> SUFFICES ASSUME Mpesa!Init PROVE MpesaInv
  OBVIOUS
<1>1. page \in MpesaPage
  BY DEF Mpesa!Init, MpesaPage, Mpesa!Shown
<1>2. test \in [at : {"none", "sent", "daraja"}, cred : Cred \cup {NoCred}, was : BOOLEAN]
  BY DEF Mpesa!Init, Mpesa!NoTest
<1>3. Mpesa!TypeOK
  BY <1>1, <1>2 DEF Mpesa!Init, Mpesa!TypeOK, MpesaPage, Mpesa!Saved, Mpesa!Unsaved
<1>4. TestInv /\ Mpesa!VerifiedWasTested
  BY DEF Mpesa!Init, TestInv, Mpesa!VerifiedWasTested, Mpesa!NoTest, Mpesa!Unsaved
<1> QED
  BY <1>3, <1>4 DEF MpesaInv

-----------------------------------------------------------------------------
\* Every step keeps the types.
LEMMA MpesaTypeKept == MpesaInv /\ [Mpesa!Next]_(Mpesa!vars) => Mpesa!TypeOK'
<1> SUFFICES ASSUME MpesaInv, [Mpesa!Next]_(Mpesa!vars) PROVE Mpesa!TypeOK'
  OBVIOUS
<1> USE DEF MpesaInv, TestInv
<1>0. /\ config \in Mpesa!Saved /\ proven \subseteq Cred /\ page \in MpesaPage /\ drawer \in BOOLEAN
      /\ saves \subseteq [from : {"page", "drawer"}, cred : Cred]
      /\ test \in [at : {"none", "sent", "daraja"}, cred : Cred \cup {NoCred}, was : BOOLEAN]
      /\ mixed \in BOOLEAN
  BY DEF Mpesa!TypeOK, MpesaPage
<1> SUFFICES /\ config' \in Mpesa!Saved /\ proven' \subseteq Cred /\ page' \in MpesaPage /\ drawer' \in BOOLEAN
             /\ saves' \subseteq [from : {"page", "drawer"}, cred : Cred]
             /\ test' \in [at : {"none", "sent", "daraja"}, cred : Cred \cup {NoCred}, was : BOOLEAN]
             /\ mixed' \in BOOLEAN
  BY DEF Mpesa!TypeOK, MpesaPage
<1>1. ASSUME NEW ok \in BOOLEAN, Mpesa!Fetched(ok) PROVE page' \in MpesaPage
  <2>1. [page EXCEPT !.loading = FALSE, !.form = FALSE,
                     !.config = [known |-> TRUE, cred |-> config.cred, verified |-> config.verified]]
          \in MpesaPage
    BY <1>0 DEF MpesaPage, Mpesa!Shown, Mpesa!Saved
  <2>2. [page EXCEPT !.loading = FALSE] \in MpesaPage
    BY <1>0 DEF MpesaPage
  <2> QED
    BY <1>1, <2>1, <2>2 DEF Mpesa!Fetched
<1>2. ASSUME NEW on \in BOOLEAN, Mpesa!ShowForm(on) PROVE page' \in MpesaPage
  BY <1>0, <1>2 DEF Mpesa!ShowForm, MpesaPage
<1>3. ASSUME NEW c \in Cred, Mpesa!Enter(c) PROVE page' \in MpesaPage
  BY <1>0, <1>3 DEF Mpesa!Enter, MpesaPage
<1>4. ASSUME Mpesa!Save
      PROVE page' \in MpesaPage /\ saves' \subseteq [from : {"page", "drawer"}, cred : Cred]
  <2>1. page.entered \in Cred
    BY <1>0, <1>4 DEF Mpesa!Save, MpesaPage
  <2>2. page' \in MpesaPage
    BY <1>0, <1>4 DEF Mpesa!Save, MpesaPage
  <2> QED
    BY <1>0, <1>4, <2>1, <2>2 DEF Mpesa!Save
<1>5. ASSUME NEW s \in saves, NEW answered \in BOOLEAN, Mpesa!SaveFails(s) \/ Mpesa!SaveHandled(s, answered)
      PROVE page' \in MpesaPage /\ drawer' \in BOOLEAN /\ config' \in Mpesa!Saved
            /\ saves' \subseteq [from : {"page", "drawer"}, cred : Cred]
            /\ proven' = proven /\ test' = test /\ mixed' \in BOOLEAN
  <2>1. s.cred \in Cred
    BY <1>0
  <2>2. /\ [page EXCEPT !.saving = FALSE] \in MpesaPage
        /\ [page EXCEPT !.saving = FALSE, !.loading = TRUE] \in MpesaPage
    BY <1>0 DEF MpesaPage
  <2>3. page' \in MpesaPage /\ drawer' \in BOOLEAN
    BY <1>0, <1>5, <2>2 DEF Mpesa!SaveFails, Mpesa!SaveHandled, Mpesa!Ended
  <2>4. config' \in Mpesa!Saved
    <3>1. Mpesa!SavedAs(s.cred) \in Mpesa!Saved
      BY <2>1 DEF Mpesa!SavedAs, Mpesa!Saved
    <3> QED
      BY <1>0, <1>5, <3>1 DEF Mpesa!SaveFails, Mpesa!SaveHandled
  <2> QED
    BY <1>0, <1>5, <2>3, <2>4 DEF Mpesa!SaveFails, Mpesa!SaveHandled
<1>6. ASSUME Mpesa!Test \/ Mpesa!TestFails PROVE page' \in MpesaPage
  <2>1. \A b \in BOOLEAN : [page EXCEPT !.testing = b] \in MpesaPage
    BY <1>0 DEF MpesaPage
  <2> QED
    BY <1>6, <2>1 DEF Mpesa!Test, Mpesa!TestOffered, Mpesa!TestFails
<1>7. ASSUME NEW ok \in BOOLEAN, Mpesa!Daraja(ok)
      PROVE page' \in MpesaPage /\ config' \in Mpesa!Saved /\ proven' \subseteq Cred
  <2>1. page' \in MpesaPage
    BY <1>0, <1>7 DEF Mpesa!Daraja, MpesaPage
  <2>2. config' \in Mpesa!Saved
    BY <1>0, <1>7 DEF Mpesa!Daraja, Mpesa!Saved
  <2> QED
    BY <1>0, <1>7, <2>1, <2>2 DEF Mpesa!Daraja
<1>8. ASSUME NEW c \in Cred, Mpesa!DrawerTest(c)
      PROVE drawer' \in BOOLEAN /\ saves' \subseteq [from : {"page", "drawer"}, cred : Cred]
  BY <1>0, <1>8 DEF Mpesa!DrawerTest
<1>9. ASSUME Mpesa!Test \/ Mpesa!TestReads \/ Mpesa!TestFails \/ (\E ok \in BOOLEAN : Mpesa!Daraja(ok))
      PROVE test' \in [at : {"none", "sent", "daraja"}, cred : Cred \cup {NoCred}, was : BOOLEAN]
  <2>1. /\ [test EXCEPT !.at = "sent"]
              \in [at : {"none", "sent", "daraja"}, cred : Cred \cup {NoCred}, was : BOOLEAN]
        /\ Mpesa!NoTest \in [at : {"none", "sent", "daraja"}, cred : Cred \cup {NoCred}, was : BOOLEAN]
        /\ [at |-> "daraja", cred |-> config.cred, was |-> config.verified]
              \in [at : {"none", "sent", "daraja"}, cred : Cred \cup {NoCred}, was : BOOLEAN]
    BY <1>0 DEF Mpesa!NoTest, Mpesa!Saved
  <2> QED
    BY <1>9, <2>1 DEF Mpesa!Test, Mpesa!TestOffered, Mpesa!TestReads, Mpesa!TestFails, Mpesa!Daraja
<1>10. CASE Mpesa!Save
  BY <1>0, <1>4, <1>10 DEF Mpesa!Save
<1>11. CASE Mpesa!Test \/ Mpesa!TestReads \/ Mpesa!TestFails
  BY <1>0, <1>6, <1>9, <1>11 DEF Mpesa!Test, Mpesa!TestOffered, Mpesa!TestReads, Mpesa!TestFails
<1>12. ASSUME NEW ok \in BOOLEAN, Mpesa!Fetched(ok) \/ Mpesa!ShowForm(ok)
       PROVE page' \in MpesaPage /\ UNCHANGED <<config, proven, drawer, saves, test, mixed>>
  BY <1>1, <1>2, <1>12 DEF Mpesa!Fetched, Mpesa!ShowForm
<1>13. ASSUME NEW ok \in BOOLEAN, Mpesa!Daraja(ok)
       PROVE UNCHANGED <<drawer, saves, mixed>>
  BY <1>13 DEF Mpesa!Daraja
<1>14. ASSUME NEW c \in Cred, Mpesa!Enter(c)
       PROVE UNCHANGED <<config, proven, drawer, saves, test, mixed>>
  BY <1>14 DEF Mpesa!Enter
<1>15. ASSUME NEW c \in Cred, Mpesa!DrawerTest(c)
       PROVE UNCHANGED <<config, proven, page, test, mixed>>
  BY <1>15 DEF Mpesa!DrawerTest
<1>16. CASE UNCHANGED Mpesa!vars
  BY <1>0, <1>16 DEF Mpesa!vars
<1> QED
  BY <1>0, <1>3, <1>5, <1>7, <1>8, <1>9, <1>10, <1>11, <1>12, <1>13, <1>14, <1>15, <1>16 DEF Mpesa!Next

\* Every step keeps the two facts about tests.
LEMMA MpesaTestKept == MpesaInv /\ [Mpesa!Next]_(Mpesa!vars) => TestInv' /\ Mpesa!VerifiedWasTested'
<1> SUFFICES ASSUME MpesaInv, [Mpesa!Next]_(Mpesa!vars) PROVE TestInv' /\ Mpesa!VerifiedWasTested'
  OBVIOUS
<1> USE DEF MpesaInv, TestInv, Mpesa!VerifiedWasTested
<1>0. /\ config \in Mpesa!Saved
      /\ test \in [at : {"none", "sent", "daraja"}, cred : Cred \cup {NoCred}, was : BOOLEAN]
      /\ saves \subseteq [from : {"page", "drawer"}, cred : Cred]
  BY DEF Mpesa!TypeOK
<1>1. CASE Mpesa!Save
  BY <1>1 DEF Mpesa!Save
<1>2. CASE Mpesa!Test
  BY <1>0, <1>2 DEF Mpesa!Test, Mpesa!TestOffered
<1>3. CASE Mpesa!TestReads
  BY <1>0, <1>3 DEF Mpesa!TestReads, Mpesa!Saved
<1>4. CASE Mpesa!TestFails
  BY <1>4 DEF Mpesa!TestFails, Mpesa!NoTest
<1>5. ASSUME NEW ok \in BOOLEAN, Mpesa!Fetched(ok) \/ Mpesa!ShowForm(ok) PROVE TestInv' /\ Mpesa!VerifiedWasTested'
  BY <1>5 DEF Mpesa!Fetched, Mpesa!ShowForm
<1>6. ASSUME NEW ok \in BOOLEAN, Mpesa!Daraja(ok) PROVE TestInv' /\ Mpesa!VerifiedWasTested'
  <2>1. TestInv'
    BY <1>6 DEF Mpesa!Daraja, Mpesa!NoTest
  <2>2. config'.cred = config.cred /\ proven \subseteq proven' /\ mixed' = mixed
    BY <1>0, <1>6 DEF Mpesa!Daraja, Mpesa!Saved
  <2>3. CASE ok /\ ~test.was
    <3>1. test.at = "daraja" /\ test.cred \in proven'
      BY <1>6, <2>3 DEF Mpesa!Daraja
    <3>2. ~mixed' => test.cred = config.cred
      BY <2>1, <2>2, <3>1
    <3> QED
      BY <2>1, <2>2, <3>1, <3>2
  <2>4. CASE ~(ok /\ ~test.was)
    <3>1. config' = config
      BY <1>6, <2>4 DEF Mpesa!Daraja
    <3> QED
      BY <2>1, <2>2, <3>1
  <2> QED
    BY <2>1, <2>3, <2>4
<1>7. ASSUME NEW c \in Cred, Mpesa!Enter(c) \/ Mpesa!DrawerTest(c) PROVE TestInv' /\ Mpesa!VerifiedWasTested'
  BY <1>7 DEF Mpesa!Enter, Mpesa!DrawerTest
<1>8. ASSUME NEW s \in saves, Mpesa!SaveFails(s) PROVE TestInv' /\ Mpesa!VerifiedWasTested'
  BY <1>8 DEF Mpesa!SaveFails
<1>9. ASSUME NEW s \in saves, NEW answered \in BOOLEAN, Mpesa!SaveHandled(s, answered)
      PROVE TestInv' /\ Mpesa!VerifiedWasTested'
  BY <1>9 DEF Mpesa!SaveHandled, Mpesa!SavedAs
<1>10. CASE UNCHANGED Mpesa!vars
  BY <1>10 DEF Mpesa!vars
<1> QED
  BY <1>1, <1>2, <1>3, <1>4, <1>5, <1>6, <1>7, <1>8, <1>9, <1>10 DEF Mpesa!Next

-----------------------------------------------------------------------------
(* RouterSetup: a test that is under way tests the settings that the wizard *)
(* sent, unless the drawer saved others.                                    *)
TriedInv == req = "test" /\ ~foreign => cfg = sent

RtrInv == Rtr!TypeOK /\ TriedInv /\ Rtr!ConnectedIsSaved

RtrWizard == [step : Rtr!Step, form : Val \cup {NoVal}, known : BOOLEAN,
              result : {"none", "ok", "bad"}, gate : 0..2]
RtrDash == [flag : BOOLEAN, open : BOOLEAN, status : {"none", "ok", "bad"},
            testing : BOOLEAN, saving : BOOLEAN, polled : {"none", "no", "yes"}]

\* The wizard's two resting states.
LEMMA RtrFresh == /\ Rtr!Fresh \in RtrWizard /\ Rtr!Fresh.result = "none"
                  /\ Rtr!Shut \in RtrWizard /\ Rtr!Shut.result = "none"
<1>1. Rtr!Fresh \in RtrWizard /\ Rtr!Fresh.result = "none"
  BY DEF Rtr!Fresh, RtrWizard, Rtr!Step
<1>2. "shut" \in Rtr!Step
  BY DEF Rtr!Step
<1>3. Rtr!Shut \in RtrWizard
  BY <1>1, <1>2 DEF Rtr!Shut, RtrWizard
<1>4. Rtr!Shut.result = Rtr!Fresh.result
  BY <1>1 DEF Rtr!Shut, RtrWizard
<1> QED
  BY <1>1, <1>3, <1>4

\* The invariant holds at first.
LEMMA RtrInit == Rtr!Init => RtrInv
<1> SUFFICES ASSUME Rtr!Init PROVE RtrInv
  OBVIOUS
<1>1. wizard \in RtrWizard /\ wizard.result = "none"
  BY RtrFresh DEF Rtr!Init
<1>2. dash \in RtrDash
  BY DEF Rtr!Init, RtrDash
<1> QED
  BY <1>1, <1>2 DEF Rtr!Init, RtrInv, Rtr!TypeOK, RtrWizard, RtrDash, TriedInv, Rtr!ConnectedIsSaved

\* The wizard keeps its result, or is shut, fresh or started anew.
LEMMA RtrWizardSteps ==
    ASSUME RtrInv,
           \/ Rtr!OpenWizard \/ Rtr!Connect \/ Rtr!SaveRefused \/ Rtr!Continue \/ Rtr!Ask \/ Rtr!Tick
           \/ \E b \in BOOLEAN : \/ Rtr!Leave(b) \/ Rtr!Loaded(b) \/ Rtr!SaveStored(b)
                                 \/ Rtr!Tested(b) \/ Rtr!Asked(b)
           \/ \E v \in Val : Rtr!Enter(v)
    PROVE  RtrInv'
<1>0. /\ cfg \in Val \cup {NoVal} /\ sent \in Val \cup {NoVal} /\ wizard \in RtrWizard
      /\ req \in {"none", "save", "test", "step"} /\ load \in BOOLEAN /\ foreign \in BOOLEAN
      /\ dash \in RtrDash /\ TriedInv /\ Rtr!ConnectedIsSaved
  BY DEF RtrInv, Rtr!TypeOK, RtrWizard, RtrDash
<1> USE DEF TriedInv, Rtr!ConnectedIsSaved
<1> DEFINE Kept == /\ wizard' \in RtrWizard /\ dash' \in RtrDash
                   /\ cfg' \in Val \cup {NoVal} /\ sent' \in Val \cup {NoVal}
                   /\ req' \in {"none", "save", "test", "step"}
                   /\ load' \in BOOLEAN /\ foreign' \in BOOLEAN
                   /\ TriedInv' /\ Rtr!ConnectedIsSaved'
<1>a. Kept => RtrInv'
  BY DEF RtrInv, Rtr!TypeOK, RtrWizard, RtrDash
<1>1. ASSUME Rtr!OpenWizard PROVE Kept
  BY <1>0, <1>1, RtrFresh DEF Rtr!OpenWizard
<1>2. ASSUME NEW b \in BOOLEAN, Rtr!Leave(b) PROVE Kept
  BY <1>0, <1>2, RtrFresh DEF Rtr!Leave
<1>3. ASSUME NEW b \in BOOLEAN, Rtr!Loaded(b) PROVE Kept
  <2>1. wizard' \in RtrWizard /\ wizard'.result = wizard.result
    BY <1>0, <1>3 DEF Rtr!Loaded, RtrWizard
  <2> QED
    BY <1>0, <1>3, <2>1 DEF Rtr!Loaded
<1>4. ASSUME NEW v \in Val, Rtr!Enter(v) PROVE Kept
  <2>1. wizard' \in RtrWizard /\ wizard'.result = wizard.result
    BY <1>0, <1>4 DEF Rtr!Enter, RtrWizard
  <2> QED
    BY <1>0, <1>4, <2>1 DEF Rtr!Enter
<1>5. ASSUME Rtr!Connect PROVE Kept
  <2>1. wizard' \in RtrWizard /\ wizard'.result = "none" /\ wizard.form \in Val \cup {NoVal}
    BY <1>0, <1>5 DEF Rtr!Connect, RtrWizard
  <2> QED
    BY <1>0, <1>5, <2>1 DEF Rtr!Connect
<1>6. ASSUME NEW b \in BOOLEAN, Rtr!SaveStored(b) PROVE Kept
  <2>1. wizard' \in RtrWizard
    BY <1>0, <1>6 DEF Rtr!SaveStored, RtrWizard
  <2>2. cfg' = sent /\ sent' = sent /\ req' \in {"none", "test"} /\ UNCHANGED <<load, dash, foreign>>
    BY <1>6 DEF Rtr!SaveStored
  <2> QED
    BY <1>0, <2>1, <2>2
<1>7. ASSUME Rtr!SaveRefused PROVE Kept
  <2>1. wizard' \in RtrWizard /\ wizard'.result = "bad"
    BY <1>0, <1>7 DEF Rtr!SaveRefused, RtrWizard
  <2> QED
    BY <1>0, <1>7, <2>1 DEF Rtr!SaveRefused
<1>8. ASSUME NEW b \in BOOLEAN, Rtr!Tested(b) PROVE Kept
  <2>1. wizard' \in RtrWizard
    BY <1>0, <1>8 DEF Rtr!Tested, RtrWizard
  <2> QED
    BY <1>0, <1>8, <2>1 DEF Rtr!Tested
<1>9. ASSUME Rtr!Continue PROVE Kept
  <2>1. wizard.step \in {"connect", "bridge", "portal"}
    BY <1>9 DEF Rtr!Continue, Rtr!Passed
  <2>2. Rtr!AfterStep[wizard.step] \in Rtr!Step
    BY <2>1 DEF Rtr!AfterStep, Rtr!Step
  <2>3. PICK s \in Rtr!Step : wizard' = [wizard EXCEPT !.step = s, !.gate = 0]
    BY <1>9, <2>2 DEF Rtr!Continue
  <2>4. PICK w \in RtrWizard : w = [wizard EXCEPT !.step = s]
    BY <1>0 DEF RtrWizard
  <2>5. wizard' = [w EXCEPT !.gate = 0]
    BY <2>3, <2>4
  <2>6. wizard' \in RtrWizard
    BY <2>5 DEF RtrWizard
  <2>7. wizard'.result = wizard.result
    BY <1>0, <2>3 DEF RtrWizard
  <2> QED
    BY <1>0, <1>9, <2>6, <2>7 DEF Rtr!Continue
<1>10. ASSUME Rtr!Ask PROVE Kept
  BY <1>0, <1>10 DEF Rtr!Ask
<1>11. ASSUME NEW b \in BOOLEAN, Rtr!Asked(b) PROVE Kept
  <2>1. wizard' \in RtrWizard /\ wizard'.result = wizard.result
    BY <1>0, <1>11 DEF Rtr!Asked, RtrWizard, Rtr!Step
  <2> QED
    BY <1>0, <1>11, <2>1 DEF Rtr!Asked
<1>12. ASSUME Rtr!Tick PROVE Kept
  <2>1. PICK g \in {0, 1, 2} : wizard' = [wizard EXCEPT !.gate = g]
    BY <1>12 DEF Rtr!Tick
  <2>2. wizard' \in RtrWizard /\ wizard'.result = wizard.result
    BY <1>0, <2>1 DEF RtrWizard
  <2> QED
    BY <1>0, <1>12, <2>2 DEF Rtr!Tick
<1> QED
  BY <1>a, <1>1, <1>2, <1>3, <1>4, <1>5, <1>6, <1>7, <1>8, <1>9, <1>10, <1>11, <1>12

\* The dashboard's drawer touches the saved settings alone, and says so.
LEMMA RtrDrawerSteps ==
    ASSUME RtrInv,
           \/ Rtr!PollReads \/ Rtr!PollAnswers \/ Rtr!DrawerTest \/ Rtr!DrawerSave \/ Rtr!DrawerFails
           \/ \E b \in BOOLEAN : Rtr!Drawer(b) \/ Rtr!DrawerTested(b)
           \/ \E v \in Val, b \in BOOLEAN : Rtr!DrawerStored(v, b)
    PROVE  RtrInv'
<1>0. /\ cfg \in Val \cup {NoVal} /\ sent \in Val \cup {NoVal} /\ foreign \in BOOLEAN /\ dash \in RtrDash
      /\ TriedInv /\ Rtr!ConnectedIsSaved
  BY DEF RtrInv, Rtr!TypeOK, RtrDash
<1>1. dash' \in RtrDash
  <2>1. CASE Rtr!PollReads \/ Rtr!PollAnswers
    BY <1>0, <2>1 DEF Rtr!PollReads, Rtr!PollAnswers, RtrDash
  <2>2. CASE Rtr!DrawerTest \/ Rtr!DrawerSave \/ Rtr!DrawerFails
    BY <1>0, <2>2 DEF Rtr!DrawerTest, Rtr!DrawerSave, Rtr!DrawerFails, RtrDash
  <2>3. ASSUME NEW b \in BOOLEAN, Rtr!Drawer(b) \/ Rtr!DrawerTested(b) PROVE dash' \in RtrDash
    BY <1>0, <2>3 DEF Rtr!Drawer, Rtr!DrawerTested, RtrDash
  <2>4. ASSUME NEW v \in Val, NEW b \in BOOLEAN, Rtr!DrawerStored(v, b) PROVE dash' \in RtrDash
    BY <1>0, <2>4 DEF Rtr!DrawerStored, RtrDash
  <2> QED
    BY <2>1, <2>2, <2>3, <2>4
<1>2. /\ UNCHANGED <<wizard, req, sent, load>>
      /\ \/ UNCHANGED <<cfg, foreign>>
         \/ cfg' \in Val /\ foreign' = TRUE
  BY DEF Rtr!PollReads, Rtr!PollAnswers, Rtr!DrawerTest, Rtr!DrawerSave, Rtr!DrawerFails,
         Rtr!Drawer, Rtr!DrawerTested, Rtr!DrawerStored
<1> QED
  BY <1>0, <1>1, <1>2 DEF RtrInv, Rtr!TypeOK, RtrDash, TriedInv, Rtr!ConnectedIsSaved

\* Every step keeps the invariant.
LEMMA RtrStep == RtrInv /\ [Rtr!Next]_(Rtr!vars) => RtrInv'
<1>1. ASSUME RtrInv, UNCHANGED Rtr!vars PROVE RtrInv'
  BY <1>1 DEF Rtr!vars, RtrInv, Rtr!TypeOK, TriedInv, Rtr!ConnectedIsSaved
<1> QED
  BY <1>1, RtrWizardSteps, RtrDrawerSteps DEF Rtr!Next

-----------------------------------------------------------------------------
(* ClientWizard: past the first step, with one request at most, only the    *)
(* addresses of the type chosen are being fetched; when none are, those     *)
(* offered and the one assigned are from its pool.                          *)
Settled ==
    ~late /\ wz.step > 1 =>
        /\ loads \subseteq {wz.type}
        /\ loads = {} => /\ avail \subseteq Pool[wz.type]
                         /\ wz.auto /\ wz.ip # Wiz!NoIp => wz.ip \in Pool[wz.type]

WizInv == Wiz!TypeOK /\ Settled

\* The invariant holds at first.
LEMMA WizInit == Wiz!Init => WizInv
<1> SUFFICES ASSUME Wiz!Init PROVE WizInv
  OBVIOUS
<1>1. Wiz!FirstType \in Type
  BY DashboardAssumption DEF Wiz!FirstType
<1>2. wz \in Wiz!Window /\ wz.step = 1
  BY <1>1 DEF Wiz!Init, Wiz!Window
<1> QED
  BY <1>2 DEF Wiz!Init, WizInv, Wiz!TypeOK, Settled

\* The window's record keeps its type, and an answer's address is an address.
LEMMA WizPool == ASSUME NEW t \in Type PROVE Pool[t] \subseteq Wiz!Address
BY DEF Wiz!Address

\* Every step keeps the invariant.
LEMMA WizStep == WizInv /\ [Wiz!Next]_(Wiz!vars) => WizInv'
<1> SUFFICES ASSUME WizInv, [Wiz!Next]_(Wiz!vars) PROVE WizInv'
  OBVIOUS
<1>0. /\ wz \in Wiz!Window /\ avail \subseteq Wiz!Address /\ loads \subseteq Type /\ late \in BOOLEAN
      /\ Settled
  BY DEF WizInv, Wiz!TypeOK
<1>a. ASSUME wz' \in Wiz!Window, avail' \subseteq Wiz!Address, loads' \subseteq Type, late' \in BOOLEAN,
             Settled'
      PROVE  WizInv'
  BY <1>a DEF WizInv, Wiz!TypeOK
<1>b. Wiz!NoIp \in Wiz!Address \cup {Wiz!NoIp}
  OBVIOUS
<1>1. ASSUME Wiz!OpenCreate PROVE WizInv'
  <2>1. Wiz!FirstType \in Type
    BY DashboardAssumption DEF Wiz!FirstType
  <2>2. PICK w \in Wiz!Window :
          w = [wz EXCEPT !.open = TRUE, !.type = Wiz!FirstType, !.ip = Wiz!NoIp, !.auto = FALSE]
    BY <1>0, <2>1 DEF Wiz!Window
  <2>3. wz' = [w EXCEPT !.step = 1]
    BY <1>0, <1>1, <2>2 DEF Wiz!OpenCreate, Wiz!Window
  <2>4. wz' \in Wiz!Window /\ wz'.step = 1
    BY <2>3 DEF Wiz!Window
  <2> QED
    BY <1>0, <1>1, <1>a, <2>4 DEF Wiz!OpenCreate, Settled
<1>2. ASSUME NEW t \in Type, Wiz!ChooseType(t) PROVE WizInv'
  <2>1. wz' \in Wiz!Window /\ wz'.step = 1
    BY <1>0, <1>2 DEF Wiz!ChooseType, Wiz!Window
  <2> QED
    BY <1>0, <1>2, <1>a, <2>1 DEF Wiz!ChooseType, Settled
<1>3. ASSUME Wiz!NextToNetwork PROVE WizInv'
  <2>1. PICK w \in Wiz!Window : w = [wz EXCEPT !.loading = TRUE]
    BY <1>0 DEF Wiz!Window
  <2>2. wz' = [w EXCEPT !.step = 2]
    BY <1>0, <1>3, <2>1 DEF Wiz!NextToNetwork, Wiz!Window
  <2>3. wz' \in Wiz!Window /\ wz'.type = w.type
    BY <2>2 DEF Wiz!Window
  <2>4. w.type = wz.type /\ wz.type \in Type
    BY <1>0, <2>1 DEF Wiz!Window
  <2> QED
    BY <1>0, <1>3, <1>a, <2>3, <2>4 DEF Wiz!NextToNetwork, Settled
<1>4. ASSUME Wiz!NextToBilling PROVE WizInv'
  <2>1. /\ wz' \in Wiz!Window /\ wz.step = 2
        /\ wz'.type = wz.type /\ wz'.ip = wz.ip /\ wz'.auto = wz.auto
    BY <1>0, <1>4 DEF Wiz!NextToBilling, Wiz!Window
  <2> QED
    BY <1>0, <1>4, <1>a, <2>1 DEF Wiz!NextToBilling, Settled
<1>5. ASSUME Wiz!Back PROVE WizInv'
  <2>1. /\ wz' \in Wiz!Window /\ wz.step > 1
        /\ wz'.type = wz.type /\ wz'.ip = wz.ip /\ wz'.auto = wz.auto
    BY <1>0, <1>5 DEF Wiz!Back, Wiz!Window
  <2> QED
    BY <1>0, <1>5, <1>a, <2>1 DEF Wiz!Back, Settled
<1>6. ASSUME Wiz!Close PROVE WizInv'
  <2>1. PICK w \in Wiz!Window : w = [wz EXCEPT !.open = FALSE]
    BY <1>0 DEF Wiz!Window
  <2>2. wz' = [w EXCEPT !.step = 1]
    BY <1>0, <1>6, <2>1 DEF Wiz!Close, Wiz!Window
  <2>3. wz' \in Wiz!Window /\ wz'.step = 1
    BY <2>2 DEF Wiz!Window
  <2> QED
    BY <1>0, <1>6, <1>a, <2>3 DEF Wiz!Close, Settled
<1>7. ASSUME NEW t \in Type, Wiz!LoadFails(t) PROVE WizInv'
  <2>1. wz' \in Wiz!Window /\ ~wz'.auto /\ wz'.type = wz.type /\ wz'.step = wz.step
    BY <1>0, <1>7 DEF Wiz!LoadFails, Wiz!Window
  <2> QED
    BY <1>0, <1>7, <1>a, <2>1 DEF Wiz!LoadFails, Settled
<1>8. ASSUME NEW t \in Type, Wiz!LoadFindsNone(t) PROVE WizInv'
  <2>1. wz' \in Wiz!Window /\ ~wz'.auto /\ wz'.type = wz.type /\ wz'.step = wz.step
    BY <1>0, <1>8 DEF Wiz!LoadFindsNone, Wiz!Window
  <2> QED
    BY <1>0, <1>8, <1>a, <2>1 DEF Wiz!LoadFindsNone, Settled
<1>9. ASSUME NEW t \in Type, NEW free, NEW first, Wiz!LoadFinds(t, free, first) PROVE WizInv'
  <2>1. free \subseteq Wiz!Address /\ first \in Wiz!Address /\ free \subseteq Pool[t] /\ first \in Pool[t]
    BY <1>9, WizPool DEF Wiz!LoadFinds
  <2>2. wz' \in Wiz!Window /\ wz'.ip = first /\ wz'.type = wz.type /\ wz'.step = wz.step
    BY <1>0, <1>9, <2>1 DEF Wiz!LoadFinds, Wiz!Window
  <2>3. avail' = free /\ loads' = loads \ {t} /\ late' = late /\ t \in loads
    BY <1>9 DEF Wiz!LoadFinds
  <2> QED
    BY <1>0, <1>a, <2>1, <2>2, <2>3 DEF Settled
<1>10. ASSUME NEW a \in Wiz!Address \cup {Wiz!NoIp}, Wiz!TypeAddress(a) PROVE WizInv'
  <2>1. wz' \in Wiz!Window /\ ~wz'.auto /\ wz'.type = wz.type /\ wz'.step = wz.step
    BY <1>0, <1>10 DEF Wiz!TypeAddress, Wiz!Window
  <2> QED
    BY <1>0, <1>10, <1>a, <2>1 DEF Wiz!TypeAddress, Settled
<1>11. ASSUME NEW a \in avail, Wiz!PickAddress(a) PROVE WizInv'
  <2>1. a \in Wiz!Address
    BY <1>0
  <2>2. wz' \in Wiz!Window /\ wz'.ip = a /\ wz'.type = wz.type /\ wz'.step = wz.step
    BY <1>0, <1>11, <2>1 DEF Wiz!PickAddress, Wiz!Window
  <2> QED
    BY <1>0, <1>11, <1>a, <2>2 DEF Wiz!PickAddress, Settled
<1>12. ASSUME Wiz!Submit PROVE WizInv'
  <2>1. /\ wz' \in Wiz!Window /\ wz'.step = wz.step
        /\ wz'.type = wz.type /\ wz'.ip = wz.ip /\ wz'.auto = wz.auto
    BY <1>0, <1>12 DEF Wiz!Submit, Wiz!Window
  <2> QED
    BY <1>0, <1>12, <1>a, <2>1 DEF Wiz!Submit, Settled
<1>13. ASSUME NEW ok \in BOOLEAN, Wiz!Submitted(ok) PROVE WizInv'
  <2>1. PICK w \in Wiz!Window : w = [wz EXCEPT !.submitting = FALSE]
    BY <1>0 DEF Wiz!Window
  <2>2. PICK v \in Wiz!Window : v = [w EXCEPT !.open = FALSE]
    BY DEF Wiz!Window
  <2>3. wz' = w \/ wz' = [v EXCEPT !.step = 1]
    BY <1>0, <1>13, <2>1, <2>2 DEF Wiz!Submitted, Wiz!Window
  <2>4. CASE wz' = w
    BY <1>0, <1>13, <1>a, <2>1, <2>4 DEF Wiz!Submitted, Settled, Wiz!Window
  <2>5. CASE wz' = [v EXCEPT !.step = 1]
    <3>1. wz' \in Wiz!Window /\ wz'.step = 1
      BY <2>5 DEF Wiz!Window
    <3> QED
      BY <1>0, <1>13, <1>a, <3>1 DEF Wiz!Submitted, Settled
  <2> QED
    BY <2>3, <2>4, <2>5
<1>14. ASSUME UNCHANGED Wiz!vars PROVE WizInv'
  BY <1>0, <1>14, <1>a DEF Wiz!vars, Settled
<1> QED
  BY <1>1, <1>2, <1>3, <1>4, <1>5, <1>6, <1>7, <1>8, <1>9, <1>10, <1>11, <1>12, <1>13, <1>14
     DEF Wiz!Next

-----------------------------------------------------------------------------
(* BulkSms: as long as no answer was lost, the log is what was asked for,   *)
(* less the message on its way, which is the last one asked for.            *)
SmsBurst == [text |-> send.text, group |-> send.group]

Owing == ~lost => IF send.at = "sent" THEN owed = Append(log, SmsBurst) ELSE log = owed

SmsInv == /\ Sms!TypeOK
          /\ send.at # "none" => send.text \in Text
          /\ Owing

SmsForm == [text : Text \cup {NoText}, group : Group, phones : BOOLEAN,
            shown : Text \cup {NoText}, sent : BOOLEAN, error : BOOLEAN]
SmsSend == [at : {"none", "sent", "handled", "history"},
            text : Text \cup {NoText}, group : Group]

SmsNone == Sms!NoSend \in SmsSend /\ Sms!NoSend.at = "none" /\ Sms!Empty \in SmsForm

\* A log without its last burst.
LEMMA SmsFront ==
    ASSUME NEW s \in Seq(Sms!Burst), NEW b \in Sms!Burst
    PROVE  SubSeq(Append(s, b), 1, Len(Append(s, b)) - 1) = s
OBVIOUS

\* What is left of the owed bursts when one is refused is a sequence of bursts.
LEMMA SmsLess ==
    ASSUME NEW s \in Seq(Sms!Burst) PROVE SubSeq(s, 1, Len(s) - 1) \in Seq(Sms!Burst)
OBVIOUS

\* The two empty records.
LEMMA SmsEmpty == SmsNone
BY DashboardAssumption DEF SmsNone, Sms!NoSend, Sms!Empty, SmsSend, SmsForm

\* The invariant holds at first.
LEMMA SmsInit == Sms!Init => SmsInv
<1> SUFFICES ASSUME Sms!Init PROVE SmsInv
  OBVIOUS
<1>1. /\ form \in SmsForm /\ send \in SmsSend /\ send.at = "none" /\ preview = NoText
      /\ log = <<>> /\ owed = <<>> /\ lost = FALSE
  BY SmsEmpty DEF SmsNone, Sms!Init
<1>2. <<>> \in Seq(Sms!Burst)
  OBVIOUS
<1> QED
  BY <1>1, <1>2 DEF SmsInv, Sms!TypeOK, Owing, SmsForm, SmsSend

\* The form alone changes.
LEMMA SmsFormSteps ==
    ASSUME SmsInv,
           \/ \E t \in Text \cup {NoText} : Sms!TypeMessage(t)
           \/ \E t \in Text : Sms!SelectTemplate(t)
           \/ \E g \in Group : Sms!ChooseGroup(g)
           \/ Sms!TypeNumbers \/ Sms!Preview \/ Sms!PreviewAnswered
           \/ Sms!SendAnother \/ Sms!SendNeedsNumbers
    PROVE  SmsInv'
<1>0. form \in SmsForm /\ preview \in Text \cup {NoText} /\ SmsNone
  BY SmsEmpty DEF SmsInv, Sms!TypeOK, SmsForm
<1>1. UNCHANGED <<send, log, owed, lost>>
  BY DEF Sms!TypeMessage, Sms!SelectTemplate, Sms!ChooseGroup, Sms!TypeNumbers, Sms!Preview,
         Sms!PreviewAnswered, Sms!SendAnother, Sms!OutcomeShown, Sms!SendNeedsNumbers, Sms!Set
<1>2. form' \in SmsForm /\ preview' \in Text \cup {NoText}
  <2>1. ASSUME NEW t \in Text \cup {NoText}, Sms!TypeMessage(t) PROVE <1>2
    BY <1>0, <2>1 DEF Sms!TypeMessage, Sms!Set, SmsForm
  <2>2. ASSUME NEW t \in Text, Sms!SelectTemplate(t) PROVE <1>2
    BY <1>0, <2>2 DEF Sms!SelectTemplate, Sms!Set, SmsForm
  <2>3. ASSUME NEW g \in Group, Sms!ChooseGroup(g) PROVE <1>2
    BY <1>0, <2>3 DEF Sms!ChooseGroup, Sms!Set, SmsForm
  <2>4. CASE Sms!TypeNumbers \/ Sms!SendNeedsNumbers
    BY <1>0, <2>4 DEF Sms!TypeNumbers, Sms!SendNeedsNumbers, Sms!Set, SmsForm
  <2>5. CASE Sms!Preview \/ Sms!PreviewAnswered
    BY <1>0, <2>5 DEF Sms!Preview, Sms!PreviewAnswered, SmsForm
  <2>6. CASE Sms!SendAnother
    BY <1>0, <2>6 DEF Sms!SendAnother, Sms!OutcomeShown, Sms!Set, SmsNone
  <2> QED
    BY <2>1, <2>2, <2>3, <2>4, <2>5, <2>6
<1> QED
  BY <1>1, <1>2 DEF SmsInv, Sms!TypeOK, SmsForm, Owing, SmsBurst

\* The send alone goes on, the log and what is owed with it.
LEMMA SmsSendSteps ==
    ASSUME SmsInv,
           \/ \E ok \in BOOLEAN : Sms!HistoryLoaded(ok)
           \/ Sms!Send \/ Sms!SendHandled \/ Sms!SendRefused \/ Sms!AnswerLost
           \/ Sms!SendAnswered \/ Sms!Reopen
    PROVE  SmsInv'
<1>0. /\ form \in SmsForm /\ preview \in Text \cup {NoText} /\ send \in SmsSend
      /\ log \in Seq(Sms!Burst) /\ owed \in Seq(Sms!Burst) /\ lost \in BOOLEAN
      /\ send.at # "none" => send.text \in Text
      /\ Owing /\ SmsNone
  BY SmsEmpty DEF SmsInv, Sms!TypeOK, SmsForm, SmsSend
<1>a. ASSUME form' \in SmsForm, preview' \in Text \cup {NoText}, send' \in SmsSend,
             log' \in Seq(Sms!Burst), owed' \in Seq(Sms!Burst), lost' \in BOOLEAN,
             send'.at # "none" => send'.text \in Text, Owing'
      PROVE  SmsInv'
  BY <1>a DEF SmsInv, Sms!TypeOK, SmsForm, SmsSend
<1>b. send.at # "none" => SmsBurst \in Sms!Burst /\ Append(log, SmsBurst) \in Seq(Sms!Burst)
  BY <1>0 DEF SmsBurst, Sms!Burst, SmsSend
<1>c. send.at = "sent" /\ ~lost => Sms!NotOwed = log
  BY <1>0, <1>b, SmsFront DEF Owing, Sms!NotOwed
<1>d. Sms!NotOwed \in Seq(Sms!Burst)
  BY <1>0, SmsLess DEF Sms!NotOwed
<1>1. CASE Sms!Send
  <2>1. /\ form.text \in Text /\ form.group \in Group /\ send = Sms!NoSend
        /\ form' \in SmsForm
    BY <1>0, <1>1 DEF Sms!Send, Sms!SendEnabled, Sms!Pressable, SmsForm
  <2>2. send' \in SmsSend /\ send'.text = form.text /\ send'.group = form.group /\ send'.at = "sent"
    BY <1>1, <2>1 DEF Sms!Send, SmsSend
  <2>3. [text |-> form.text, group |-> form.group] \in Sms!Burst
    BY <2>1 DEF Sms!Burst
  <2>4. owed' = Append(owed, SmsBurst') /\ UNCHANGED <<preview, log, lost>> /\ owed' \in Seq(Sms!Burst)
    BY <1>0, <1>1, <2>2, <2>3 DEF Sms!Send, SmsBurst
  <2>5. Owing'
    BY <1>0, <2>1, <2>2, <2>4 DEF Owing, SmsNone
  <2> QED
    BY <1>0, <1>a, <2>1, <2>2, <2>4, <2>5
<1>2. CASE Sms!SendHandled
  <2>1. send' \in SmsSend /\ send'.text = send.text /\ send'.group = send.group /\ send'.at = "handled"
    BY <1>0, <1>2 DEF Sms!SendHandled, SmsSend
  <2>2. log' = Append(log, SmsBurst) /\ UNCHANGED <<form, preview, owed, lost>> /\ send.at = "sent"
    BY <1>2 DEF Sms!SendHandled, SmsBurst
  <2> QED
    BY <1>0, <1>a, <1>b, <2>1, <2>2 DEF Owing
<1>3. CASE Sms!SendRefused
  <2>1. form' \in SmsForm
    BY <1>0, <1>3 DEF Sms!SendRefused, SmsForm
  <2>2. /\ send.at = "sent" /\ owed' = (IF lost THEN owed ELSE Sms!NotOwed) /\ send' = Sms!NoSend
        /\ UNCHANGED <<preview, log, lost>>
    BY <1>3 DEF Sms!SendRefused
  <2> QED
    BY <1>0, <1>a, <1>c, <1>d, <2>1, <2>2 DEF Owing, SmsNone
<1>4. CASE Sms!AnswerLost
  <2>1. send' \in SmsSend /\ (send'.at # "none" => send'.text \in Text)
    BY <1>0, <1>4 DEF Sms!AnswerLost, SmsSend, SmsNone
  <2>2. form' \in SmsForm
    BY <1>0, <1>4 DEF Sms!AnswerLost, SmsForm
  <2> QED
    BY <1>0, <1>4, <1>a, <2>1, <2>2 DEF Sms!AnswerLost, Owing
<1>5. CASE Sms!SendAnswered
  <2>1. send' \in SmsSend /\ send'.text = send.text /\ send'.at = "history" /\ send.at = "handled"
    BY <1>0, <1>5 DEF Sms!SendAnswered, SmsSend
  <2>2. form' \in SmsForm
    BY <1>0, <1>5 DEF Sms!SendAnswered, SmsForm
  <2> QED
    BY <1>0, <1>5, <1>a, <2>1, <2>2 DEF Sms!SendAnswered, Owing
<1>6. ASSUME NEW ok \in BOOLEAN, Sms!HistoryLoaded(ok) PROVE SmsInv'
  <2>1. form' \in SmsForm
    BY <1>0, <1>6 DEF Sms!HistoryLoaded, SmsForm
  <2> QED
    BY <1>0, <1>6, <1>a, <2>1 DEF Sms!HistoryLoaded, Owing, SmsNone
<1>7. CASE Sms!Reopen
  <2>1. form' = Sms!Empty /\ preview' = NoText /\ send' = Sms!NoSend /\ lost' = lost
    BY <1>7 DEF Sms!Reopen
  <2>2. CASE send.at # "sent" /\ UNCHANGED <<log, owed>>
    BY <1>0, <1>a, <2>1, <2>2 DEF Owing, SmsNone
  <2>3. CASE send.at = "sent" /\ UNCHANGED log /\ owed' = IF lost THEN owed ELSE Sms!NotOwed
    BY <1>0, <1>a, <1>c, <1>d, <2>1, <2>3 DEF Owing, SmsNone
  <2>4. CASE send.at = "sent" /\ UNCHANGED owed /\ log' = Append(log, SmsBurst)
    BY <1>0, <1>a, <1>b, <2>1, <2>4 DEF Owing, SmsNone
  <2> QED
    BY <1>7, <2>2, <2>3, <2>4 DEF Sms!Reopen, SmsBurst
<1> QED
  BY <1>1, <1>2, <1>3, <1>4, <1>5, <1>6, <1>7

\* Every step keeps the invariant.
LEMMA SmsStep == SmsInv /\ [Sms!Next]_(Sms!vars) => SmsInv'
<1>1. ASSUME SmsInv, UNCHANGED Sms!vars PROVE SmsInv'
  BY <1>1 DEF Sms!vars, SmsInv, Sms!TypeOK, Owing, SmsBurst
<1> QED
  BY <1>1, SmsFormSteps, SmsSendSteps DEF Sms!Next

\* The invariant is what the run checks, and more.
LEMMA SmsBurstOnce == SmsInv => Sms!BurstOnce
<1> SUFFICES ASSUME SmsInv PROVE Sms!BurstOnce
  OBVIOUS
<1>1. send.at = "sent" => SmsBurst \in Sms!Burst
  BY DEF SmsInv, Sms!TypeOK, SmsBurst, Sms!Burst
<1>2. log \in Seq(Sms!Burst)
  BY DEF SmsInv, Sms!TypeOK
<1> QED
  BY <1>1, <1>2, SmsFront DEF SmsInv, Owing, Sms!BurstOnce, Sms!NotOwed

-----------------------------------------------------------------------------
(* Packages: unless requests raced or an answer was lost, a request that is *)
(* not a deletion is alone, it was clicked on the list that the page still  *)
(* shows, and what the page will make of that list is what the server has.  *)
Calm == ~raced /\ ~cut

Alone == \A r, s \in reqs : r = s \/ (r.kind = "delete" /\ s.kind = "delete")

Deleting ==
    (\A r \in reqs : r.kind = "delete") =>
        Pack!Fetched = [p \in Pkg |-> IF \E r \in reqs : r.done /\ p \in r.on THEN "none" ELSE list[p]]

Foreseen(r) ==
    /\ r.base = list
    /\ r.kind = "demo" => list = [p \in Pkg |-> "none"]
    /\ Pack!Fetched = IF r.kind \in {"create", "demo"} THEN Pack!Added(r)
                      ELSE IF r.done THEN Pack!Changed(r) ELSE list

Intended(r) == /\ r.kind = "fetch" => ~r.done
               /\ r.kind \in {"toggle", "update", "bulk"} => r.to # "none"

PackSound == /\ Alone /\ Deleting
             /\ \A r \in reqs : r.kind \notin {"fetch", "delete"} => Foreseen(r)

PackInv == /\ Pack!TypeOK
           /\ \A r \in reqs : Intended(r)
           /\ Calm => PackSound

\* A request whose progress is noted is otherwise the same.
LEMMA PackProgress ==
    ASSUME NEW r \in Pack!Request, NEW m \in SUBSET Pkg, NEW d \in BOOLEAN
    PROVE  LET s == [r EXCEPT !.made = m, !.done = d]
           IN  /\ s \in Pack!Request
               /\ s.kind = r.kind /\ s.on = r.on /\ s.to = r.to /\ s.base = r.base
               /\ s.made = m /\ s.done = d
BY DEF Pack!Request

LEMMA PackDone ==
    ASSUME NEW r \in Pack!Request
    PROVE  LET s == [r EXCEPT !.done = TRUE]
           IN  /\ s \in Pack!Request
               /\ s.kind = r.kind /\ s.on = r.on /\ s.to = r.to /\ s.base = r.base
               /\ s.made = r.made /\ s.done
BY DEF Pack!Request

\* The list is the server's when nothing is under way.
LEMMA PackListIsServer == PackInv => Pack!ListIsServer
<1> SUFFICES ASSUME PackInv, reqs = {}, Calm PROVE list = Pack!Fetched
  BY DEF Pack!ListIsServer, Calm
<1>1. Pack!Fetched = [p \in Pkg |-> list[p]]
  BY DEF PackInv, PackSound, Deleting
<1>2. list = [p \in Pkg |-> list[p]]
  BY DEF PackInv, Pack!TypeOK, Pack!Copy
<1> QED
  BY <1>1, <1>2

\* A new request.
LEMMA PackNew ==
    ASSUME Pack!TypeOK, NEW k \in Pack!Kind, NEW ps \in SUBSET Pkg, NEW target \in {"none", "on", "off"}
    PROVE  LET n == Pack!NewRequest(k, ps, target)
           IN  /\ n \in Pack!Request
               /\ n.kind = k /\ n.on = ps /\ n.to = target /\ n.base = list /\ n.made = {} /\ ~n.done
BY DEF Pack!TypeOK, Pack!NewRequest, Pack!Request

\* The invariant holds at first.
LEMMA PackInit == Pack!Init => PackInv
<1> SUFFICES ASSUME Pack!Init PROVE PackInv
  OBVIOUS
<1>1. list \in Pack!Copy
  BY DEF Pack!Init, Pack!Copy
<1>2. LET n == Pack!NewRequest("fetch", {}, "none")
      IN  n \in Pack!Request /\ n.kind = "fetch" /\ ~n.done
  BY <1>1 DEF Pack!NewRequest, Pack!Request, Pack!Kind
<1>3. \A r \in reqs : r \in Pack!Request /\ r.kind = "fetch" /\ ~r.done
  BY <1>2 DEF Pack!Init
<1>4. Pack!TypeOK
  BY <1>1, <1>3 DEF Pack!Init, Pack!TypeOK
<1>5. Alone
  BY DEF Pack!Init, Alone
<1>6. ~(\A r \in reqs : r.kind = "delete")
  BY <1>3 DEF Pack!Init
<1> QED
  BY <1>3, <1>4, <1>5, <1>6 DEF PackInv, PackSound, Deleting, Intended

\* A click.
LEMMA PackClick ==
    ASSUME PackInv, NEW k \in Pack!Kind \ {"fetch"}, NEW ps \in SUBSET Pkg,
           NEW target \in {"none", "on", "off"}, Pack!Click(k, ps, target)
    PROVE  PackInv'
<1>n. PICK n : n = Pack!NewRequest(k, ps, target)
  OBVIOUS
<1>0. /\ Pack!TypeOK /\ reqs' = reqs \cup {n} /\ UNCHANGED <<server, list, shown, cut>>
      /\ Pack!Target(k, ps, target) /\ Pack!Offered(k, ps)
      /\ raced' = (raced \/ \E r \in reqs : {k, r.kind} # {"delete"})
      /\ toggling' \subseteq Pkg
  BY <1>n DEF PackInv, Pack!TypeOK, Pack!Click
<1>1. /\ n \in Pack!Request
      /\ n.kind = k /\ n.on = ps /\ n.to = target /\ n.base = list /\ n.made = {} /\ ~n.done
  BY <1>n, <1>0, PackNew
<1>2. Pack!TypeOK'
  BY <1>0, <1>1 DEF Pack!TypeOK
<1>3. Intended(n)
  BY <1>0, <1>1 DEF Intended, Pack!Target
<1>4. \A r \in reqs' : Intended(r)
  BY <1>0, <1>3 DEF PackInv
<1>5. ASSUME Calm' PROVE PackSound'
  <2>1. Calm /\ PackSound
    BY <1>0, <1>5 DEF Calm, PackInv
  <2>2. \A r \in reqs : k = "delete" /\ r.kind = "delete"
    BY <1>0, <1>5 DEF Calm
  <2>3. Pack!Fetched' = Pack!Fetched
    BY <1>0 DEF Pack!Fetched, Pack!Stored
  <2>4. Alone'
    BY <1>0, <1>1, <2>2 DEF Alone
  <2>5. Deleting'
    <3>1. Pack!Fetched = [p \in Pkg |-> IF \E r \in reqs : r.done /\ p \in r.on THEN "none" ELSE list[p]]
      BY <2>1, <2>2 DEF PackSound, Deleting
    <3>2. \A p \in Pkg : (\E r \in reqs' : r.done /\ p \in r.on) <=> (\E r \in reqs : r.done /\ p \in r.on)
      BY <1>0, <1>1
    <3> QED
      BY <1>0, <2>3, <3>1, <3>2 DEF Deleting
  <2>6. CASE k = "delete"
    BY <1>0, <1>1, <2>2, <2>4, <2>5, <2>6 DEF PackSound
  <2>7. CASE k # "delete"
    <3>1. reqs = {} /\ reqs' = {n}
      BY <1>0, <2>2, <2>7
    <3>2. Pack!Fetched = list
      BY <2>1, <3>1, PackListIsServer DEF Pack!ListIsServer, Calm
    <3>3. k = "demo" => list = [p \in Pkg |-> "none"]
      BY <1>0 DEF Pack!Offered, Pack!Visible, Pack!TypeOK, Pack!Copy
    <3>4. k = "create" => Pack!Added(n) = list
      BY <1>0, <1>1 DEF Pack!Added, Pack!TypeOK, Pack!Copy
    <3>5. k = "demo" => Pack!Added(n) = list
      BY <1>1, <3>3 DEF Pack!Added
    <3>6. Foreseen(n)
      BY <1>1, <3>2, <3>3, <3>4, <3>5 DEF Foreseen
    <3>7. Foreseen(n)'
      BY <1>0, <1>1, <2>3, <3>6 DEF Foreseen, Pack!Added
    <3> QED
      BY <2>4, <2>5, <3>1, <3>7 DEF PackSound
  <2> QED
    BY <2>6, <2>7
<1> QED
  BY <1>2, <1>4, <1>5 DEF PackInv

\* A package is made for the form or for the demo load.
LEMMA PackMakes ==
    ASSUME PackInv, NEW r \in reqs, Pack!MakeOne(r)
    PROVE  PackInv'
<1>0. /\ Pack!TypeOK /\ r \in Pack!Request /\ r.kind \in {"create", "demo"} /\ ~r.done
      /\ UNCHANGED <<list, shown, toggling, raced, cut>>
  BY DEF PackInv, Pack!TypeOK, Pack!MakeOne
<1>1. PICK p \in Pkg, d \in BOOLEAN :
        /\ server[p] = "none" /\ server' = [server EXCEPT ![p] = "on"]
        /\ Pack!Replace(r, [r EXCEPT !.made = r.made \cup {p}, !.done = d])
  BY DEF Pack!MakeOne
<1>3. r.made \cup {p} \in SUBSET Pkg
  BY <1>0 DEF Pack!Request
<1>4. PICK s : s = [r EXCEPT !.made = r.made \cup {p}, !.done = d]
  OBVIOUS
<1>5. /\ s \in Pack!Request
      /\ s.kind = r.kind /\ s.on = r.on /\ s.to = r.to /\ s.base = r.base
      /\ s.made = r.made \cup {p}
  BY <1>0, <1>3, <1>4 DEF Pack!Request
<1>6. reqs' = (reqs \ {r}) \cup {s}
  BY <1>1, <1>4 DEF Pack!Replace
<1>7. Pack!TypeOK'
  BY <1>0, <1>1, <1>5, <1>6 DEF Pack!TypeOK
<1>8. \A q \in reqs' : Intended(q)
  BY <1>0, <1>5, <1>6 DEF PackInv, Intended
<1>9. ASSUME Calm' PROVE PackSound'
  <2>1. PackSound
    BY <1>0, <1>9 DEF Calm, PackInv
  <2>2. reqs' = {s}
    BY <1>0, <1>6, <2>1 DEF PackSound, Alone
  <2>3. Foreseen(r)
    BY <1>0, <2>1 DEF PackSound
  <2>4. Pack!Fetched' = [q \in Pkg |-> IF q = p THEN "on" ELSE Pack!Fetched[q]]
    BY <1>0, <1>1 DEF Pack!Fetched, Pack!Stored, Pack!TypeOK
  <2>5. Pack!Fetched = Pack!Added(r)
    BY <1>0, <2>3 DEF Foreseen
  <2>6. Pack!Fetched' = Pack!Added(s)
    BY <1>5, <2>4, <2>5 DEF Pack!Added
  <2>7. Foreseen(s)'
    BY <1>0, <1>5, <2>3, <2>6 DEF Foreseen, Pack!Added
  <2>8. Alone' /\ Deleting'
    BY <1>0, <1>5, <2>2 DEF Alone, Deleting
  <2> QED
    BY <2>2, <2>7, <2>8 DEF PackSound
<1> QED
  BY <1>7, <1>8, <1>9 DEF PackInv

\* A package is changed or deleted.
LEMMA PackChange ==
    ASSUME PackInv, NEW r \in reqs, Pack!Change(r)
    PROVE  PackInv'
<1>0. /\ Pack!TypeOK /\ r \in Pack!Request /\ r.kind \in {"toggle", "update", "bulk", "delete"} /\ ~r.done
      /\ r.kind = "bulk" \/ r.on \subseteq Pack!Stored
      /\ server' = [p \in Pkg |-> IF p \notin r.on \cap Pack!Stored THEN server[p]
                                  ELSE IF r.kind = "delete" THEN "gone" ELSE r.to]
      /\ UNCHANGED <<list, shown, toggling, raced, cut>>
      /\ Intended(r)
  BY DEF PackInv, Pack!TypeOK, Pack!Change
<1>1. PICK s : s = [r EXCEPT !.done = TRUE]
  OBVIOUS
<1>2. /\ s \in Pack!Request
      /\ s.kind = r.kind /\ s.on = r.on /\ s.to = r.to /\ s.base = r.base /\ s.made = r.made /\ s.done
  BY <1>0, <1>1, PackDone
<1>3. reqs' = (reqs \ {r}) \cup {s}
  BY <1>1 DEF Pack!Change, Pack!Replace
<1>4. Pack!TypeOK'
  <2>1. server' \in [Pkg -> {"none", "on", "off", "gone"}]
    BY <1>0 DEF Pack!TypeOK, Pack!Request
  <2> QED
    BY <1>0, <1>2, <1>3, <2>1 DEF Pack!TypeOK
<1>5. \A q \in reqs' : Intended(q)
  BY <1>0, <1>2, <1>3 DEF PackInv, Intended
<1>6. ASSUME Calm' PROVE PackSound'
  <2>1. PackSound
    BY <1>0, <1>6 DEF Calm, PackInv
  <2>2. CASE r.kind = "delete"
    <3>1. /\ \A q \in reqs : q.kind = "delete"
          /\ \A q \in reqs' : q.kind = "delete"
      BY <1>2, <1>3, <2>1, <2>2 DEF PackSound, Alone
    <3>2. Pack!Fetched = [p \in Pkg |-> IF \E q \in reqs : q.done /\ p \in q.on THEN "none" ELSE list[p]]
      BY <2>1, <3>1 DEF PackSound, Deleting
    <3>3. Pack!Fetched' = [p \in Pkg |-> IF p \in r.on THEN "none" ELSE Pack!Fetched[p]]
      BY <1>0, <2>2 DEF Pack!Fetched, Pack!Stored
    <3>4. \A p \in Pkg : (\E q \in reqs' : q.done /\ p \in q.on)
                           <=> (p \in r.on \/ \E q \in reqs : q.done /\ p \in q.on)
      BY <1>0, <1>2, <1>3
    <3>5. Deleting'
      BY <1>0, <3>2, <3>3, <3>4 DEF Deleting
    <3> QED
      BY <3>1, <3>5 DEF PackSound, Alone
  <2>3. CASE r.kind # "delete"
    <3>1. reqs' = {s}
      BY <1>3, <2>1, <2>3 DEF PackSound, Alone
    <3>2. Foreseen(r)
      BY <1>0, <2>1, <2>3 DEF PackSound
    <3>3. /\ Pack!Fetched = list /\ r.base = list
          /\ r.to \in {"on", "off"} /\ list \in Pack!Copy /\ r.on \subseteq Pkg
      BY <1>0, <2>3, <3>2 DEF Foreseen, Intended, Pack!Request, Pack!TypeOK
    <3>4. \A p \in Pkg : p \in Pack!Stored <=> list[p] # "none"
      BY <3>3 DEF Pack!Fetched, Pack!Stored
    <3>5. Pack!Fetched' = [p \in Pkg |-> IF p \in r.on \cap Pack!Stored THEN r.to ELSE list[p]]
      <4>1. Pack!Fetched = [p \in Pkg |-> IF p \in Pack!Stored THEN server[p] ELSE "none"]
        BY DEF Pack!Fetched
      <4>2. \A p \in Pkg : IF p \in r.on \cap Pack!Stored
                           THEN server'[p] = r.to ELSE server'[p] = server[p]
        BY <1>0, <2>3
      <4> QED
        BY <3>3, <4>1, <4>2 DEF Pack!Fetched, Pack!Stored
    <3>6. Pack!Changed(s) = [p \in Pkg |-> IF p \in r.on \cap Pack!Stored THEN r.to ELSE list[p]]
      BY <1>0, <1>2, <3>3, <3>4 DEF Pack!Changed, Pack!Toggled
    <3>7. Foreseen(s)'
      BY <1>0, <1>2, <2>3, <3>2, <3>5, <3>6 DEF Foreseen, Pack!Changed, Pack!Toggled
    <3>8. Alone' /\ Deleting'
      BY <1>2, <2>3, <3>1 DEF Alone, Deleting
    <3> QED
      BY <3>1, <3>7, <3>8 DEF PackSound
  <2> QED
    BY <2>2, <2>3
<1> QED
  BY <1>4, <1>5, <1>6 DEF PackInv

\* An answer, which the page applies, or a failure, of which it is told.
LEMMA PackEnds ==
    ASSUME PackInv, NEW r \in reqs, Pack!Answer(r) \/ Pack!Fail(r)
    PROVE  PackInv'
<1>0. /\ Pack!TypeOK /\ r \in Pack!Request /\ reqs' = reqs \ {r} /\ toggling' \in {toggling, {}}
      /\ UNCHANGED <<server, shown, raced>> /\ Intended(r)
      /\ cut' \in BOOLEAN /\ (cut => cut')
  BY DEF PackInv, Pack!TypeOK, Pack!Answer, Pack!Fail, Pack!Ended
<1>1. list' \in Pack!Copy
  BY <1>0 DEF Pack!Answer, Pack!Fail, Pack!TypeOK, Pack!Request, Pack!Copy, Pack!Added, Pack!Changed,
              Pack!Toggled
<1>2. Pack!TypeOK'
  BY <1>0, <1>1 DEF Pack!TypeOK
<1>3. \A q \in reqs' : Intended(q)
  BY <1>0 DEF PackInv
<1>4. ASSUME Calm' PROVE PackSound'
  <2>1. PackSound
    BY <1>0, <1>4 DEF Calm, PackInv
  <2>2. Pack!Fetched' = Pack!Fetched
    BY <1>0 DEF Pack!Fetched, Pack!Stored
  <2>3. CASE r.kind = "delete"
    <3>1. \A q \in reqs : q.kind = "delete"
      BY <2>1, <2>3 DEF PackSound, Alone
    <3>2. Pack!Fetched = [p \in Pkg |-> IF \E q \in reqs : q.done /\ p \in q.on THEN "none" ELSE list[p]]
      BY <2>1, <3>1 DEF PackSound, Deleting
    <3>3. CASE r.done
      <4>1. list' = [p \in Pkg |-> IF p \in r.on THEN "none" ELSE list[p]]
        BY <2>3, <3>3 DEF Pack!Answer, Pack!Fail
      <4>2. \A p \in Pkg : (\E q \in reqs : q.done /\ p \in q.on)
                             <=> (p \in r.on \/ \E q \in reqs' : q.done /\ p \in q.on)
        BY <1>0, <3>3
      <4> QED
        BY <1>0, <2>2, <3>1, <3>2, <4>1, <4>2 DEF PackSound, Alone, Deleting
    <3>4. CASE ~r.done
      <4>1. list' = list
        BY <3>4 DEF Pack!Answer, Pack!Fail
      <4>2. \A p \in Pkg : (\E q \in reqs : q.done /\ p \in q.on)
                             <=> \E q \in reqs' : q.done /\ p \in q.on
        BY <1>0, <3>4
      <4> QED
        BY <1>0, <2>2, <3>1, <3>2, <4>1, <4>2 DEF PackSound, Alone, Deleting
    <3> QED
      BY <3>3, <3>4
  <2>4. CASE r.kind # "delete"
    <3>1. reqs' = {} /\ r.kind # "fetch"
      BY <1>0, <2>1, <2>4 DEF PackSound, Alone, Pack!Answer, Pack!Fail, Intended
    <3>2. Foreseen(r)
      BY <2>1, <2>4, <3>1 DEF PackSound
    <3>3. list' = Pack!Fetched
      <4>1. CASE Pack!Answer(r)
        BY <1>0, <2>4, <3>1, <3>2, <4>1 DEF Pack!Answer, Foreseen, Pack!Request, Pack!Kind
      <4>2. CASE Pack!Fail(r) /\ r.kind \in {"create", "demo"}
        <5>1. r.made = {} /\ list' = list
          BY <1>0, <1>4, <4>2 DEF Pack!Fail, Calm
        <5> QED
          BY <1>0, <3>2, <4>2, <5>1 DEF Foreseen, Pack!Added, Pack!TypeOK, Pack!Copy
      <4>3. CASE Pack!Fail(r) /\ r.kind \notin {"create", "demo"}
        BY <3>2, <4>3 DEF Foreseen, Pack!Fail
      <4> QED
        BY <4>1, <4>2, <4>3
    <3>4. list' = [p \in Pkg |-> list'[p]]
      BY <1>1 DEF Pack!Copy
    <3> QED
      BY <2>2, <3>1, <3>3, <3>4 DEF PackSound, Alone, Deleting
  <2> QED
    BY <2>3, <2>4
<1> QED
  BY <1>2, <1>3, <1>4 DEF PackInv

\* The first fetch, and the repetition of a request whose answer was lost.
LEMMA PackFetch ==
    ASSUME PackInv, NEW r \in reqs, NEW ok \in BOOLEAN, Pack!FetchAnswer(r, ok)
    PROVE  PackInv'
<1>0. /\ Pack!TypeOK /\ r.kind = "fetch" /\ reqs' = reqs \ {r} /\ shown' = TRUE
      /\ list' = (IF ok THEN Pack!Fetched ELSE list) /\ cut' = (cut \/ ~ok)
      /\ UNCHANGED <<server, toggling, raced>>
  BY DEF PackInv, Pack!FetchAnswer
<1>1. Pack!Fetched \in Pack!Copy
  BY <1>0 DEF Pack!Fetched, Pack!Stored, Pack!Copy
<1>2. Pack!TypeOK'
  BY <1>0, <1>1 DEF Pack!TypeOK
<1>3. \A q \in reqs' : Intended(q)
  BY <1>0 DEF PackInv
<1>4. ASSUME Calm' PROVE PackSound'
  <2>1. PackSound /\ ok
    BY <1>0, <1>4 DEF Calm, PackInv
  <2>2. Pack!Fetched' = Pack!Fetched
    BY <1>0 DEF Pack!Fetched, Pack!Stored
  <2>3. reqs' = {}
    BY <1>0, <2>1 DEF PackSound, Alone
  <2>4. list' = Pack!Fetched /\ list' = [p \in Pkg |-> list'[p]]
    BY <1>0, <1>1, <2>1 DEF Pack!Copy
  <2> QED
    BY <2>2, <2>3, <2>4 DEF PackSound, Alone, Deleting
<1> QED
  BY <1>2, <1>3, <1>4 DEF PackInv

LEMMA PackAgain ==
    ASSUME PackInv, NEW r \in reqs, Pack!Again(r)
    PROVE  PackInv'
<1>0. /\ Pack!TypeOK /\ r \in Pack!Request /\ r.done /\ Intended(r)
      /\ cut' = TRUE /\ UNCHANGED <<server, list, shown, toggling, raced>>
  BY DEF PackInv, Pack!TypeOK, Pack!Again
<1>1. PICK s : s = [r EXCEPT !.made = {}, !.done = FALSE]
  OBVIOUS
<1>2. s \in Pack!Request /\ s.kind = r.kind /\ s.to = r.to /\ ~s.done
  BY <1>0, <1>1, PackProgress, ZenonT(40)
<1>3. reqs' = (reqs \ {r}) \cup {s}
  BY <1>1 DEF Pack!Again, Pack!Replace
<1>4. Pack!TypeOK'
  BY <1>0, <1>2, <1>3 DEF Pack!TypeOK
<1>5. \A q \in reqs' : Intended(q)
  BY <1>0, <1>2, <1>3 DEF PackInv, Intended
<1> QED
  BY <1>0, <1>4, <1>5 DEF PackInv, Calm

\* Every step keeps the invariant.
LEMMA PackStep == PackInv /\ [Pack!Next]_(Pack!vars) => PackInv'
<1>1. ASSUME PackInv, UNCHANGED Pack!vars PROVE PackInv'
  BY <1>1 DEF Pack!vars, PackInv, Pack!TypeOK, Calm, PackSound, Alone, Deleting, Foreseen,
              Pack!Fetched, Pack!Stored, Pack!Added, Pack!Changed, Pack!Toggled
<1> QED
  BY <1>1, PackClick, PackMakes, PackChange, PackEnds, PackFetch, PackAgain DEF Pack!Next

-----------------------------------------------------------------------------
(* Notices. What a load has read and what a mark has covered stays true,    *)
(* since no message is unsent or unread again.                              *)

NtcInbox == [list : Ntc!Copy, tab : {"all", "unread", "broadcast", "payment"}, loading : BOOLEAN]
NtcDesk == [tab : {"broadcast", "direct"}, isp : {"none"} \cup Ntc!Isp]

\* A list that shows no message the server has not, and none as read that is not.
NtcTrue(copy) ==
    \A n \in Ntc!Notice : /\ copy[n] = "read" => n \in read
                          /\ copy[n] # "none" /\ n \in Message => n \in Ntc!Inbox

NtcAsked ==
    \A a \in asks : /\ a.kind = "load" /\ a.at = "done" => NtcTrue(a.copy)
                    /\ a.kind = "all" => a.on \subseteq Ntc!Inbox
                    /\ a.kind = "one" => a.on \cap Message \subseteq Ntc!Inbox
                    /\ a.kind # "load" /\ a.at = "done" => a.on \subseteq read

NtcListed == \A n \in Message : inbox.list[n] # "none" => n \in Ntc!Inbox

NtcInv == /\ Ntc!TypeOK /\ Ntc!ReadIsRead /\ NtcAsked /\ NtcListed
          /\ read \subseteq Ntc!Inbox

\* A request that is new, and what becomes of it.
LEMMA NtcAsk ==
    /\ \A kind \in {"load", "one", "all"}, on \in SUBSET Ntc!Notice :
          /\ Ntc!NewAsk(kind, on) \in Ntc!Ask
          /\ Ntc!NewAsk(kind, on).kind = kind /\ Ntc!NewAsk(kind, on).on = on
          /\ Ntc!NewAsk(kind, on).at = "sent"
    /\ Ntc!Opened \in NtcInbox /\ \A n \in Ntc!Notice : Ntc!Opened.list[n] = "none"
BY DEF Ntc!NewAsk, Ntc!Ask, Ntc!Nothing, Ntc!Copy, Ntc!Opened, NtcInbox

\* What the server makes of a request.
LEMMA NtcTurns ==
    \A a \in Ntc!Ask :
        /\ \A at \in {"done", "refused"} :
              LET b == [a EXCEPT !.at = at]
              IN b \in Ntc!Ask /\ b.kind = a.kind /\ b.on = a.on /\ b.at = at
        /\ \A copy \in Ntc!Copy :
              LET b == [a EXCEPT !.at = "done", !.copy = copy]
              IN b \in Ntc!Ask /\ b.kind = a.kind /\ b.on = a.on /\ b.at = "done" /\ b.copy = copy
BY DEF Ntc!Ask

\* Both pages are opened with nothing sent.
LEMMA NtcInit == Ntc!Init => NtcInv
<1> SUFFICES ASSUME Ntc!Init PROVE NtcInv
  OBVIOUS
<1>1. /\ asks \subseteq Ntc!Ask /\ inbox \in NtcInbox
      /\ \A n \in Ntc!Notice : inbox.list[n] = "none"
      /\ \A a \in asks : a.kind = "load" /\ a.at = "sent"
  BY NtcAsk DEF Ntc!Init
<1>2. Ntc!TypeOK
  BY <1>1 DEF Ntc!Init, Ntc!TypeOK, NtcInbox, Ntc!NoPost, Ntc!Isp
<1>3. read = {}
  BY DEF Ntc!Init
<1> QED
  BY <1>1, <1>2, <1>3 DEF NtcInv, Ntc!ReadIsRead, NtcAsked, NtcListed, Ntc!Notice

\* The Comms page and the invoices: the inbox only receives.
LEMMA NtcArrives ==
    ASSUME NtcInv,
           \/ \E t \in {"broadcast", "direct"} : Ntc!ChooseDesk(t)
           \/ \E i \in Ntc!Isp : Ntc!ChooseIsp(i)
           \/ Ntc!Send \/ Ntc!Stored \/ Ntc!SendEnds
           \/ \E i \in Invoice : Ntc!Settle(i)
    PROVE  NtcInv'
<1>0. Ntc!TypeOK
  BY DEF NtcInv
<1>1. /\ UNCHANGED <<read, inbox, asks, doubted>>
      /\ Ntc!Inbox \subseteq Ntc!Inbox'
  <2>1. CASE Ntc!Stored
    BY <1>0, <2>1 DEF Ntc!Stored, Ntc!Inbox, Ntc!TypeOK
  <2> QED
    BY <2>1 DEF Ntc!ChooseDesk, Ntc!ChooseIsp, Ntc!Fill, Ntc!Send, Ntc!SendEnds, Ntc!Settle,
                Ntc!Inbox, Ntc!server, Ntc!comms
<1>2. Ntc!TypeOK'
  <2>1. /\ to' \in [Message -> {"none", "all"} \cup Ntc!Isp] /\ paid' \subseteq Invoice
        /\ post' \in [at : {"none", "sent", "stored"}, to : {"all"} \cup Ntc!Isp]
    BY <1>0 DEF Ntc!TypeOK, Ntc!ChooseDesk, Ntc!ChooseIsp, Ntc!Fill, Ntc!Send, Ntc!Stored,
                Ntc!SendEnds, Ntc!Settle, Ntc!Isp, Ntc!NoPost, Ntc!server, Ntc!comms
  <2>2. desk' \in NtcDesk
    BY <1>0 DEF Ntc!TypeOK, NtcDesk, Ntc!ChooseDesk, Ntc!ChooseIsp, Ntc!Fill, Ntc!Send,
                Ntc!Stored, Ntc!SendEnds, Ntc!Settle, Ntc!server, Ntc!comms
  <2> QED
    BY <1>0, <1>1, <2>1, <2>2 DEF Ntc!TypeOK, NtcDesk
<1> QED
  BY <1>1, <1>2 DEF NtcInv, Ntc!ReadIsRead, NtcAsked, NtcListed, NtcTrue

\* The tabs and the buttons of the inbox.
LEMMA NtcClicks ==
    ASSUME NtcInv,
           \/ \E t \in {"all", "unread", "broadcast", "payment"} : Ntc!ChooseTab(t)
           \/ Ntc!Refresh \/ Ntc!MarkAllRead
           \/ \E n \in Ntc!Notice : Ntc!MarkRead(n)
    PROVE  NtcInv'
<1>0. /\ Ntc!TypeOK /\ NtcListed /\ NtcAsked /\ Ntc!ReadIsRead
      /\ asks \subseteq Ntc!Ask /\ read \subseteq Ntc!Inbox
  BY DEF NtcInv, Ntc!TypeOK
<1>1. UNCHANGED <<to, paid, read, desk, post, doubted>> /\ UNCHANGED Ntc!Inbox
  BY DEF Ntc!ChooseTab, Ntc!Refresh, Ntc!MarkAllRead, Ntc!MarkRead, Ntc!Issue, Ntc!server,
         Ntc!comms, Ntc!Inbox
<1>2. CASE \E t \in {"all", "unread", "broadcast", "payment"} : Ntc!ChooseTab(t)
  <2>1. asks' = asks /\ inbox'.list = inbox.list /\ inbox' \in NtcInbox
    BY <1>0, <1>2 DEF Ntc!ChooseTab, Ntc!TypeOK, NtcInbox
  <2> QED
    BY <1>1, <2>1 DEF NtcInv, Ntc!TypeOK, NtcInbox, Ntc!ReadIsRead, NtcAsked, NtcListed, NtcTrue
<1>3. CASE Ntc!Refresh \/ Ntc!MarkAllRead \/ \E n \in Ntc!Notice : Ntc!MarkRead(n)
  <2>1. PICK b \in Ntc!Ask : /\ asks' = asks \cup {b} /\ inbox' = inbox /\ b.at = "sent"
                             /\ b.kind = "all" => b.on \subseteq Ntc!Inbox
                             /\ b.kind = "one" => b.on \cap Message \subseteq Ntc!Inbox
    <3>1. CASE Ntc!Refresh
      BY <3>1, NtcAsk DEF Ntc!Refresh, Ntc!Issue
    <3>2. CASE Ntc!MarkAllRead
      <4>1. Ntc!Listed \cap Message \subseteq Ntc!Inbox /\ Ntc!Listed \cap Message \subseteq Ntc!Notice
        BY <1>0 DEF NtcListed, Ntc!Listed, Ntc!Notice
      <4> QED
        BY <3>2, <4>1, NtcAsk DEF Ntc!MarkAllRead, Ntc!Issue
    <3>3. CASE \E n \in Ntc!Notice : Ntc!MarkRead(n)
      <4>1. PICK n \in Ntc!Notice : /\ asks' = asks \cup {Ntc!NewAsk("one", {n})}
                                    /\ inbox' = inbox /\ inbox.list[n] = "unread"
        BY <3>3 DEF Ntc!MarkRead, Ntc!Issue, Ntc!Unread
      <4>2. n \in Message => n \in Ntc!Inbox
        BY <1>0, <4>1 DEF NtcListed
      <4> QED
        BY <4>1, <4>2, NtcAsk
    <3> QED
      BY <1>3, <3>1, <3>2, <3>3
  <2>2. Ntc!TypeOK'
    <3>1. asks' \subseteq Ntc!Ask
      BY <1>0, <2>1
    <3> QED
      BY <1>0, <1>1, <2>1, <3>1 DEF Ntc!TypeOK
  <2>3. NtcAsked'
    <3> SUFFICES ASSUME NEW c \in asks'
                 PROVE  /\ c.kind = "load" /\ c.at = "done" => NtcTrue(c.copy)'
                        /\ c.kind = "all" => c.on \subseteq Ntc!Inbox'
                        /\ c.kind = "one" => c.on \cap Message \subseteq Ntc!Inbox'
                        /\ c.kind # "load" /\ c.at = "done" => c.on \subseteq read'
      BY DEF NtcAsked
    <3>1. CASE c \in asks
      BY <1>0, <1>1, <3>1 DEF NtcAsked, NtcTrue
    <3>2. CASE c = b
      BY <1>1, <2>1, <3>2 DEF NtcTrue
    <3>3. c \in asks \/ c = b
      BY <2>1
    <3> QED
      BY <3>1, <3>2, <3>3
  <2>4. Ntc!ReadIsRead' /\ NtcListed' /\ (read \subseteq Ntc!Inbox)'
    BY <1>0, <1>1, <2>1 DEF Ntc!ReadIsRead, NtcListed
  <2> QED
    BY <2>2, <2>3, <2>4 DEF NtcInv
<1> QED
  BY <1>2, <1>3

\* The server reads the notices, marks some of them, or refuses to.
LEMMA NtcServes ==
    ASSUME NtcInv, NEW a \in asks,
           Ntc!LoadHandled(a) \/ Ntc!MarkHandled(a) \/ Ntc!MarkRefused(a)
    PROVE  NtcInv'
<1>0. /\ Ntc!TypeOK /\ NtcAsked /\ a \in Ntc!Ask /\ read \subseteq Ntc!Inbox
      /\ asks \subseteq Ntc!Ask
  BY DEF NtcInv, Ntc!TypeOK
<1>1. PICK b \in Ntc!Ask : /\ asks' = (asks \ {a}) \cup {b}
                           /\ b.kind = a.kind /\ b.on = a.on /\ b.at # "sent"
                           /\ b.kind = "load" => b.copy = Ntc!Notifications
                           /\ b.kind # "load" /\ b.at = "done" => a.on \subseteq read'
  <2>1. CASE Ntc!LoadHandled(a)
    <3>1. Ntc!Notifications \in Ntc!Copy
      BY DEF Ntc!Notifications, Ntc!Copy
    <3>2. PICK b : b = [a EXCEPT !.at = "done", !.copy = Ntc!Notifications]
      OBVIOUS
    <3>3. asks' = (asks \ {a}) \cup {b} /\ a.kind = "load"
      BY <2>1, <3>2 DEF Ntc!LoadHandled, Ntc!Becomes
    <3>4. /\ b \in Ntc!Ask /\ b.kind = a.kind /\ b.on = a.on /\ b.at = "done"
          /\ b.copy = Ntc!Notifications
      BY <1>0, <3>1, <3>2, NtcTurns
    <3> QED
      BY <3>3, <3>4
  <2>2. CASE Ntc!MarkHandled(a)
    <3>1. a.on \subseteq Ntc!Covered(a)
      BY <1>0, <2>2 DEF Ntc!MarkHandled, Ntc!Covered, NtcAsked
    <3> QED
      BY <1>0, <2>2, <3>1, NtcTurns DEF Ntc!MarkHandled, Ntc!Becomes
  <2>3. CASE Ntc!MarkRefused(a)
    BY <1>0, <2>3, NtcTurns DEF Ntc!MarkRefused, Ntc!Becomes
  <2> QED
    BY <2>1, <2>2, <2>3
<1>2. /\ UNCHANGED <<to, paid, inbox, desk, post, doubted>> /\ UNCHANGED Ntc!Inbox
      /\ read \subseteq read' /\ read' \subseteq Message /\ read' \subseteq Ntc!Inbox
  <2>1. CASE Ntc!MarkHandled(a)
    <3>1. /\ read' = read \cup Ntc!Covered(a) /\ Ntc!Covered(a) \subseteq Message
          /\ a.kind \in {"one", "all"} /\ UNCHANGED <<to, paid, inbox, desk, post, doubted>>
      BY <2>1 DEF Ntc!MarkHandled, Ntc!comms
    <3>2. Ntc!Covered(a) \subseteq Ntc!Inbox
      BY <1>0, <3>1 DEF NtcAsked, Ntc!Covered
    <3>3. UNCHANGED Ntc!Inbox
      BY <3>1 DEF Ntc!Inbox
    <3> QED
      BY <1>0, <3>1, <3>2, <3>3 DEF Ntc!TypeOK
  <2>2. CASE Ntc!LoadHandled(a) \/ Ntc!MarkRefused(a)
    BY <1>0, <2>2 DEF Ntc!LoadHandled, Ntc!MarkRefused, Ntc!server, Ntc!comms, Ntc!TypeOK, Ntc!Inbox
  <2> QED
    BY <2>1, <2>2
<1>3. Ntc!TypeOK'
  <2>1. asks' \subseteq Ntc!Ask
    BY <1>0, <1>1
  <2> QED
    BY <1>0, <1>2, <2>1 DEF Ntc!TypeOK
<1>4. NtcTrue(Ntc!Notifications)
  <2> SUFFICES ASSUME NEW n \in Ntc!Notice
               PROVE  /\ Ntc!Notifications[n] = "read" => n \in read
                      /\ Ntc!Notifications[n] # "none" /\ n \in Message => n \in Ntc!Inbox
    BY DEF NtcTrue
  <2>1. n \in Message => n \notin paid
    BY <1>0, DashboardAssumption DEF DashboardAssumption, Ntc!KindsDiffer, Ntc!TypeOK
  <2>2. Ntc!Notifications[n] = IF n \in read THEN "read"
                               ELSE IF n \in Ntc!Inbox \cup paid THEN "unread" ELSE "none"
    BY DEF Ntc!Notifications
  <2> QED
    BY <1>0, <2>1, <2>2
<1>5. NtcAsked'
  <2> SUFFICES ASSUME NEW c \in asks'
               PROVE  /\ c.kind = "load" /\ c.at = "done" => NtcTrue(c.copy)'
                      /\ c.kind = "all" => c.on \subseteq Ntc!Inbox'
                      /\ c.kind = "one" => c.on \cap Message \subseteq Ntc!Inbox'
                      /\ c.kind # "load" /\ c.at = "done" => c.on \subseteq read'
    BY DEF NtcAsked
  <2>1. CASE c \in asks
    BY <1>0, <1>2, <2>1 DEF NtcAsked, NtcTrue
  <2>2. CASE c = b
    <3>1. /\ a.kind = "all" => a.on \subseteq Ntc!Inbox
          /\ a.kind = "one" => a.on \cap Message \subseteq Ntc!Inbox
      BY <1>0 DEF NtcAsked
    <3>2. c.kind = "load" => NtcTrue(c.copy)'
      <4>1. ASSUME c.kind = "load" PROVE c.copy = Ntc!Notifications
        BY <1>1, <2>2, <4>1
      <4>2. NtcTrue(Ntc!Notifications) => \A n \in Ntc!Notice :
               /\ Ntc!Notifications[n] = "read" => n \in read'
               /\ Ntc!Notifications[n] # "none" /\ n \in Message => n \in Ntc!Inbox'
        BY <1>2 DEF NtcTrue
      <4> QED
        BY <1>4, <4>1, <4>2 DEF NtcTrue
    <3>3. c.kind = a.kind /\ c.on = a.on /\ (c.kind # "load" /\ c.at = "done" => c.on \subseteq read')
      BY <1>1, <2>2
    <3> QED
      BY <1>2, <3>1, <3>2, <3>3
  <2>3. c \in asks \/ c = b
    BY <1>1
  <2> QED
    BY <2>1, <2>2, <2>3
<1> QED
  BY <1>2, <1>3, <1>5 DEF NtcInv, Ntc!ReadIsRead, NtcListed

\* An answer, or none, reaches the page; or the page is opened anew.
LEMMA NtcEnds ==
    ASSUME NtcInv,
           \/ \E a \in asks : Ntc!LoadAnswered(a) \/ Ntc!MarkAnswered(a) \/ Ntc!Fails(a)
           \/ \E arrived \in SUBSET asks : Ntc!Reopen(arrived)
    PROVE  NtcInv'
<1>0. /\ Ntc!TypeOK /\ NtcAsked /\ NtcListed /\ Ntc!ReadIsRead
      /\ asks \subseteq Ntc!Ask /\ inbox \in NtcInbox
      /\ read \subseteq Ntc!Inbox
  BY DEF NtcInv, Ntc!TypeOK, NtcInbox
<1>1. /\ UNCHANGED <<to, paid, desk, post>> /\ UNCHANGED Ntc!Inbox
  BY DEF Ntc!LoadAnswered, Ntc!MarkAnswered, Ntc!Fails, Ntc!Reopen, Ntc!server, Ntc!comms, Ntc!Inbox
<1>2. ASSUME NEW a \in asks, Ntc!LoadAnswered(a) PROVE NtcInv'
  <2>1. /\ inbox' \in NtcInbox /\ inbox'.list = a.copy /\ doubted' = {} /\ read' = read
        /\ asks' \subseteq asks
    BY <1>0, <1>2 DEF Ntc!LoadAnswered, Ntc!Ended, NtcInbox, Ntc!Ask, Ntc!server
  <2>2. NtcTrue(a.copy)
    BY <1>0, <1>2 DEF NtcAsked, Ntc!LoadAnswered
  <2> QED
    BY <1>0, <1>1, <2>1, <2>2
    DEF NtcInv, Ntc!TypeOK, NtcInbox, Ntc!ReadIsRead, NtcAsked, NtcListed, NtcTrue, Ntc!Notice
<1>3. ASSUME NEW a \in asks, Ntc!MarkAnswered(a) PROVE NtcInv'
  <2> DEFINE marked == [n \in Ntc!Notice |-> IF n \in Ntc!Marks(a) THEN "read" ELSE inbox.list[n]]
  <2>1. /\ inbox' = [inbox EXCEPT !.list = marked] /\ marked \in Ntc!Copy
        /\ read' = read /\ asks' \subseteq asks
        /\ Ntc!Marks(a) \subseteq Ntc!Listed
    BY <1>0, <1>3 DEF Ntc!MarkAnswered, Ntc!Ended, NtcInbox, Ntc!Copy, Ntc!Marks, Ntc!server
  <2>2. inbox' \in NtcInbox /\ inbox'.list = marked
    BY <1>0, <2>1 DEF NtcInbox
  <2>3. doubted \subseteq doubted' /\ doubted' \subseteq Ntc!Notice
    BY <1>0, <1>3 DEF Ntc!MarkAnswered, Ntc!TypeOK, Ntc!Unread
  <2>4. ASSUME NEW n \in Ntc!Notice, marked[n] = "read" PROVE n \in read \cup doubted'
    <3>1. CASE inbox.list[n] = "read"
      BY <1>0, <2>3, <3>1 DEF Ntc!ReadIsRead
    <3>2. CASE inbox.list[n] # "read"
      <4>1. n \in Ntc!Marks(a) \cap Ntc!Unread
        BY <1>0, <2>1, <2>4, <3>2 DEF Ntc!Listed, Ntc!Unread, NtcInbox, Ntc!Copy
      <4>2. a.at = "done" => a.on \subseteq read
        BY <1>0, <1>3 DEF NtcAsked, Ntc!MarkAnswered
      <4> QED
        BY <1>3, <4>1, <4>2 DEF Ntc!MarkAnswered
    <3> QED
      BY <3>1, <3>2
  <2>5. NtcListed'
    BY <1>0, <1>1, <2>1, <2>2 DEF NtcListed, Ntc!Listed, Ntc!Notice
  <2>6. Ntc!TypeOK' /\ NtcAsked' /\ Ntc!ReadIsRead'
    BY <1>0, <1>1, <2>1, <2>2, <2>3, <2>4
    DEF Ntc!TypeOK, NtcInbox, NtcAsked, NtcTrue, Ntc!ReadIsRead
  <2> QED
    BY <1>0, <1>1, <2>1, <2>5, <2>6 DEF NtcInv
<1>4. ASSUME NEW a \in asks, Ntc!Fails(a) PROVE NtcInv'
  <2>1. /\ inbox' \in NtcInbox /\ inbox'.list = inbox.list /\ UNCHANGED <<read, doubted>>
        /\ asks' \subseteq asks
    BY <1>0, <1>4 DEF Ntc!Fails, Ntc!Ended, NtcInbox, Ntc!server
  <2> QED
    BY <1>0, <1>1, <2>1
    DEF NtcInv, Ntc!TypeOK, NtcInbox, Ntc!ReadIsRead, NtcAsked, NtcListed, NtcTrue
<1>5. ASSUME NEW arrived \in SUBSET asks, Ntc!Reopen(arrived) PROVE NtcInv'
  <2>1. /\ inbox' \in NtcInbox /\ \A n \in Ntc!Notice : inbox'.list[n] = "none"
        /\ asks' \subseteq Ntc!Ask /\ \A a \in asks' : a.kind = "load" /\ a.at = "sent"
        /\ doubted' = {}
    BY <1>5, NtcAsk DEF Ntc!Reopen
  <2>2. read' \subseteq Message /\ read' \subseteq Ntc!Inbox
    <3>1. \A a \in arrived : Ntc!Covered(a) \subseteq Message /\ a.kind # "load" /\ a \in Ntc!Ask
      BY <1>0, <1>5 DEF Ntc!Reopen
    <3>2. \A a \in arrived : Ntc!Covered(a) \subseteq Ntc!Inbox
      BY <1>0, <1>5, <3>1 DEF NtcAsked, Ntc!Covered, Ntc!Ask
    <3> QED
      BY <1>0, <1>5, <3>1, <3>2 DEF Ntc!Reopen, Ntc!TypeOK
  <2> QED
    BY <1>0, <1>1, <2>1, <2>2
    DEF NtcInv, Ntc!TypeOK, NtcInbox, Ntc!ReadIsRead, NtcAsked, NtcListed, Ntc!Notice
<1> QED
  BY <1>2, <1>3, <1>4, <1>5

LEMMA NtcStep == NtcInv /\ [Ntc!Next]_(Ntc!vars) => NtcInv'
<1>1. ASSUME NtcInv, UNCHANGED Ntc!vars PROVE NtcInv'
  BY <1>1 DEF Ntc!vars, NtcInv, Ntc!TypeOK, Ntc!ReadIsRead, NtcAsked, NtcListed, NtcTrue, Ntc!Inbox
<1> QED
  BY <1>1, NtcArrives, NtcClicks, NtcServes, NtcEnds DEF Ntc!Next

-----------------------------------------------------------------------------
(* The whole. A behaviour of the dashboard is one of each of its parts.     *)

LEMMA SubsRuns == Spec => Subs!Spec
<1>1. Init => Subs!Init
  BY DEF Init
<1>2. [Next]_vars => [Subs!Next]_(Subs!vars)
  BY DEF Next, vars, subs, wiz, cli, mpesa, rtr, portal, pack, sms, over, ntc, Subs!vars
<1> QED
  BY <1>1, <1>2, PTL DEF Spec, Subs!Spec

LEMMA WizRuns == Spec => Wiz!Spec
<1>1. Init => Wiz!Init
  BY DEF Init
<1>2. [Next]_vars => [Wiz!Next]_(Wiz!vars)
  BY DEF Next, vars, subs, wiz, cli, mpesa, rtr, portal, pack, sms, over, ntc, Wiz!vars
<1> QED
  BY <1>1, <1>2, PTL DEF Spec, Wiz!Spec

LEMMA CliRuns == Spec => Cli!Spec
<1>1. Init => Cli!Init
  BY DEF Init
<1>2. [Next]_vars => [Cli!Next]_(Cli!vars)
  BY DEF Next, vars, subs, wiz, cli, mpesa, rtr, portal, pack, sms, over, ntc, Cli!vars
<1> QED
  BY <1>1, <1>2, PTL DEF Spec, Cli!Spec

LEMMA MpesaRuns == Spec => Mpesa!Spec
<1>1. Init => Mpesa!Init
  BY DEF Init
<1>2. [Next]_vars => [Mpesa!Next]_(Mpesa!vars)
  BY DEF Next, vars, subs, wiz, cli, mpesa, rtr, portal, pack, sms, over, ntc, Mpesa!vars
<1> QED
  BY <1>1, <1>2, PTL DEF Spec, Mpesa!Spec

LEMMA RtrRuns == Spec => Rtr!Spec
<1>1. Init => Rtr!Init
  BY DEF Init
<1>2. [Next]_vars => [Rtr!Next]_(Rtr!vars)
  BY DEF Next, vars, subs, wiz, cli, mpesa, rtr, portal, pack, sms, over, ntc, Rtr!vars
<1> QED
  BY <1>1, <1>2, PTL DEF Spec, Rtr!Spec

LEMMA PortalRuns == Spec => Portal!Spec
<1>1. Init => Portal!Init
  BY DEF Init
<1>2. [Next]_vars => [Portal!Next]_(Portal!vars)
  BY DEF Next, vars, subs, wiz, cli, mpesa, rtr, portal, pack, sms, over, ntc, Portal!vars
<1> QED
  BY <1>1, <1>2, PTL DEF Spec, Portal!Spec

LEMMA PackRuns == Spec => Pack!Spec
<1>1. Init => Pack!Init
  BY DEF Init
<1>2. [Next]_vars => [Pack!Next]_(Pack!vars)
  BY DEF Next, vars, subs, wiz, cli, mpesa, rtr, portal, pack, sms, over, ntc, Pack!vars
<1> QED
  BY <1>1, <1>2, PTL DEF Spec, Pack!Spec

LEMMA SmsRuns == Spec => Sms!Spec
<1>1. Init => Sms!Init
  BY DEF Init
<1>2. [Next]_vars => [Sms!Next]_(Sms!vars)
  BY DEF Next, vars, subs, wiz, cli, mpesa, rtr, portal, pack, sms, over, ntc, Sms!vars
<1> QED
  BY <1>1, <1>2, PTL DEF Spec, Sms!Spec

LEMMA OverRuns == Spec => Over!Spec
<1>1. Init => Over!Init
  BY DEF Init
<1>2. [Next]_vars => [Over!Next]_(Over!vars)
  BY DEF Next, vars, subs, wiz, cli, mpesa, rtr, portal, pack, sms, over, ntc, Over!vars
<1> QED
  BY <1>1, <1>2, PTL DEF Spec, Over!Spec

LEMMA NtcRuns == Spec => Ntc!Spec
<1>1. Init => Ntc!Init
  BY DEF Init
<1>2. [Next]_vars => [Ntc!Next]_(Ntc!vars)
  BY DEF Next, vars, subs, wiz, cli, mpesa, rtr, portal, pack, sms, over, ntc, Ntc!vars
<1> QED
  BY <1>1, <1>2, PTL DEF Spec, Ntc!Spec

\* The two halves of a step of MpesaSetup.
LEMMA MpesaStep == MpesaInv /\ [Mpesa!Next]_(Mpesa!vars) => MpesaInv'
BY MpesaTypeKept, MpesaTestKept DEF MpesaInv

LEMMA WizKeeps == Spec => []WizInv
BY WizRuns, WizInit, WizStep, PTL DEF Wiz!Spec

LEMMA CliKeeps == Spec => []CliInv
BY CliRuns, CliInit, CliStep, PTL DEF Cli!Spec

LEMMA MpesaKeeps == Spec => []MpesaInv
BY MpesaRuns, MpesaInit, MpesaStep, PTL DEF Mpesa!Spec

LEMMA RtrKeeps == Spec => []RtrInv
BY RtrRuns, RtrInit, RtrStep, PTL DEF Rtr!Spec

LEMMA PackKeeps == Spec => []PackInv
BY PackRuns, PackInit, PackStep, PTL DEF Pack!Spec

LEMMA SmsKeeps == Spec => []SmsInv
BY SmsRuns, SmsInit, SmsStep, PTL DEF Sms!Spec

LEMMA NtcKeeps == Spec => []NtcInv
BY NtcRuns, NtcInit, NtcStep, PTL DEF Ntc!Spec

(* The creation and the editing of subscribers: no address is given to two, *)
(* unless two creations overlapped.                                         *)
THEOREM AddressesAreDistinct == Spec => []AddressesDistinct
<1>1. AddressesDistinct <=> Subs!AddressesDistinct
  BY DEF AddressesDistinct
<1>2. Subs!Spec => []Subs!AddressesDistinct
  BY Subs!AddressesAreDistinct
<1> QED
  BY <1>1, <1>2, SubsRuns, PTL

(* Pausing, suspending and the expiry job: of who is stopped the bridge was *)
(* last told so, unless a call to it failed or the two were parted.         *)
THEOREM StoppedAreTold == Spec => []StoppedIsTold
<1>1. StoppedIsTold <=> Subs!StoppedIsTold
  BY DEF StoppedIsTold
<1>2. Subs!Spec => []Subs!StoppedIsTold
  BY Subs!StoppedAreTold
<1> QED
  BY <1>1, <1>2, SubsRuns, PTL

(* The "Add Client" window: however the operator goes back and forth while  *)
(* addresses load, one shown as assigned is from the pool of the type.      *)
THEOREM AssignedIsFromPool == Spec => []AssignedFromPool
<1>1. WizInv => AssignedFromPool
  BY DEF WizInv, Settled, AssignedFromPool, Wiz!AssignedFromPool
<1> QED
  BY <1>1, WizKeeps, PTL

(* The drawer of the clients page: however its requests overlap, the row    *)
(* and the statistics shown are of one client, unless an answer crossed.    *)
THEOREM DrawerIsOneClient == Spec => []PanelIsOneClient
<1>1. CliInv => PanelIsOneClient
  BY DEF CliInv, PanelIsOneClient
<1> QED
  BY <1>1, CliKeeps, PTL

(* Saving and testing the M-Pesa credentials: those marked as verified were *)
(* accepted by Daraja, unless a save was handled while a test waited.       *)
THEOREM VerifiedAreTested == Spec => []VerifiedWasTested
<1>1. MpesaInv => VerifiedWasTested
  BY DEF MpesaInv, VerifiedWasTested
<1> QED
  BY <1>1, MpesaKeeps, PTL

(* The router wizard: what it says is connected is what is saved, unless    *)
(* the drawer of the overview saved something else meanwhile.               *)
THEOREM ConnectedAreSaved == Spec => []ConnectedIsSaved
<1>1. RtrInv => ConnectedIsSaved
  BY DEF RtrInv, ConnectedIsSaved
<1> QED
  BY <1>1, RtrKeeps, PTL

(* The portal's snapshots: the one marked as active is the design           *)
(* published, unless requests overlapped or an answer was lost.             *)
THEOREM BadgeIsRight == Spec => []ActiveIsPublished
<1>1. ActiveIsPublished <=> Portal!ActiveIsPublished
  BY DEF ActiveIsPublished
<1>2. Portal!Spec => []Portal!ActiveIsPublished
  BY Portal!BadgeIsRight, DashboardAssumption
<1> QED
  BY <1>1, <1>2, PortalRuns, PTL

(* The portal's editor: saving the look that was loaded or restored changes *)
(* no look of the portal.                                                   *)
THEOREM UntouchedIsKept == Spec => UntouchedSaveKeepsDesign
<1>1. UntouchedSaveKeepsDesign <=> Portal!UntouchedSaveKeepsDesign
  BY DEF UntouchedSaveKeepsDesign
<1>2. Portal!Spec => Portal!UntouchedSaveKeepsDesign
  BY Portal!UntouchedIsKept, DashboardAssumption
<1> QED
  BY <1>1, <1>2, PortalRuns, PTL

(* The packages page never fetches its list again: with every request       *)
(* answered it shows the server's packages, unless requests raced or an     *)
(* answer was lost.                                                         *)
THEOREM ListIsTheServers == Spec => []ListIsServer
<1>1. PackInv => ListIsServer
  BY PackListIsServer DEF ListIsServer
<1> QED
  BY <1>1, PackKeeps, PTL

(* Bulk messages: unless an answer was lost, every burst asked for is in    *)
(* the log once, in order and as it was when Send was pressed.              *)
THEOREM BurstsAreLoggedOnce == Spec => []BurstOnce
<1>1. SmsInv => BurstOnce
  BY SmsBurstOnce DEF BurstOnce
<1> QED
  BY <1>1, SmsKeeps, PTL

(* Loads and kicks of the overview: a session whose kick was confirmed is   *)
(* not listed again, unless by an answer read before it ended.              *)
THEOREM KickedStayGone == Spec => []KickedIsGone
<1>1. KickedIsGone <=> Over!KickedIsGone
  BY DEF KickedIsGone
<1>2. Over!Spec => []Over!KickedIsGone
  BY Over!KickedStayGone, DashboardAssumption
<1> QED
  BY <1>1, <1>2, OverRuns, PTL

(* Loads and marks of the inbox, with messages arriving: what it shows as   *)
(* read was read on the server, but for a mark that was refused and what a  *)
(* load brought while all were being marked.                                *)
THEOREM ShownReadIsRead == Spec => []ReadIsRead
<1>1. NtcInv => ReadIsRead
  BY DEF NtcInv, ReadIsRead
<1> QED
  BY <1>1, NtcKeeps, PTL

(* Every variable of the ten parts keeps its range. *)
THEOREM TypeCorrect == Spec => []TypeOK
<1>1. Spec => []Subs!TypeOK
  BY Subs!TypeCorrect, SubsRuns
<1>2. Spec => []Portal!TypeOK
  BY Portal!TypeCorrect, PortalRuns, DashboardAssumption
<1>3. Spec => []Over!TypeOK
  BY Over!TypeCorrect, OverRuns, DashboardAssumption
<1>4. /\ WizInv => Wiz!TypeOK
      /\ CliInv => Cli!TypeOK
      /\ MpesaInv => Mpesa!TypeOK
      /\ RtrInv => Rtr!TypeOK
      /\ PackInv => Pack!TypeOK
      /\ SmsInv => Sms!TypeOK
      /\ NtcInv => Ntc!TypeOK
  BY DEF WizInv, CliInv, MpesaInv, RtrInv, PackInv, SmsInv, NtcInv
<1>5. TypeOK <=> /\ Subs!TypeOK /\ Wiz!TypeOK /\ Cli!TypeOK /\ Mpesa!TypeOK /\ Rtr!TypeOK
                 /\ Portal!TypeOK /\ Pack!TypeOK /\ Sms!TypeOK /\ Over!TypeOK /\ Ntc!TypeOK
  BY DEF TypeOK
<1> QED
  BY <1>1, <1>2, <1>3, <1>4, <1>5, WizKeeps, CliKeeps, MpesaKeeps, RtrKeeps, PackKeeps, SmsKeeps, NtcKeeps, PTL
=============================================================================
