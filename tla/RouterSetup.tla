---------------------------- MODULE RouterSetup -----------------------------
(***************************************************************************)
(* Connecting the ISP's router: the four-step wizard of                    *)
(* app/dashboard/mikrotik/page.tsx, and the router drawer of               *)
(* app/dashboard/page.tsx in another tab. Both save the router's settings  *)
(* and test the connection in separate requests; a test uses what is saved.*)
(* The status column and the diagnostics of the router are left out.       *)
(***************************************************************************)
EXTENDS Naturals

CONSTANTS
    Val,        \* router settings
    NoVal

VARIABLES
    cfg,        \* the saved settings (MikrotikConfig)
    wz,         \* the wizard: step, form, configExists, connectionResult, gate of the step
    req,        \* the wizard's request: nothing, saving, testing, or the step's own
    sent,       \* the settings of the connection tried last
    load,       \* the wizard's getMikrotikConfig is under way
    dash,       \* the dashboard: configs.mikrotik, the drawer, mkStatus, mkTesting, mkSaving, a load's answer
    foreign     \* ghost: the drawer saved since the wizard last tried to connect

vars == <<cfg, wz, req, sent, load, dash, foreign>>

Step == {"shut", "connect", "bridge", "portal", "launch", "live"}
Fresh == [step |-> "connect", form |-> NoVal, known |-> FALSE, result |-> "none", gate |-> 0]
Shut == [Fresh EXCEPT !.step = "shut"]

Init == /\ cfg \in Val \cup {NoVal}
        /\ wz = Shut /\ req = "none" /\ sent = NoVal /\ load = FALSE /\ foreign = FALSE
        /\ dash = [flag |-> FALSE, open |-> FALSE, status |-> "none", testing |-> FALSE,
                   saving |-> FALSE, polled |-> "none"]

----------------------------------------------------------------------------
(* "Start Setup Wizard" and "Reconfigure" *)
OpenWizard ==
    /\ wz.step = "shut"
    /\ wz' = Fresh /\ load' = TRUE
    /\ UNCHANGED <<cfg, req, sent, dash, foreign>>

(* The wizard has no way back: the operator leaves the page. A save that is *)
(* under way is handled or not, and its answer goes nowhere.                *)
Leave(handled) ==
    /\ wz.step # "shut" /\ (handled => req = "save")
    /\ wz' = Shut /\ load' = FALSE /\ req' = "none"
    /\ cfg' = IF handled THEN sent ELSE cfg
    /\ UNCHANGED <<sent, dash, foreign>>

(* The settings already saved replace what was typed. *)
Loaded(ok) ==
    /\ load
    /\ load' = FALSE
    /\ wz' = IF ok /\ cfg # NoVal THEN [wz EXCEPT !.form = cfg, !.known = TRUE] ELSE wz
    /\ UNCHANGED <<cfg, req, sent, dash, foreign>>

Enter(v) ==
    /\ wz.step = "connect"
    /\ wz' = [wz EXCEPT !.form = v]
    /\ UNCHANGED <<cfg, req, sent, load, dash, foreign>>

(* handleConnect *)
Connect ==
    /\ wz.step = "connect" /\ req = "none" /\ wz.form # NoVal
    /\ req' = "save" /\ sent' = wz.form /\ foreign' = FALSE
    /\ wz' = [wz EXCEPT !.result = "none"]
    /\ UNCHANGED <<cfg, load, dash>>

(* PATCH when the wizard knows of a configuration, POST otherwise; POST is  *)
(* refused when there is one. The wizard does not learn of one it makes.    *)
Stores == wz.known \/ cfg = NoVal

SaveStored(answered) ==
    /\ req = "save" /\ Stores
    /\ cfg' = sent
    /\ IF answered THEN req' = "test" /\ UNCHANGED wz
                   ELSE req' = "none" /\ wz' = [wz EXCEPT !.result = "bad"]
    /\ UNCHANGED <<sent, load, dash, foreign>>

RefusedYetTested ==
    /\ req = "save"
    /\ req' = "test"
    /\ UNCHANGED <<cfg, wz, sent, load, dash, foreign>>

(* The POST is refused, the settings are (PATCH), or the request is lost. *)
SaveRefused ==
    /\ req = "save"
    /\ req' = "none"
    /\ wz' = [wz EXCEPT !.result = "bad"]
    /\ UNCHANGED <<cfg, sent, load, dash, foreign>>

Tested(ok) ==
    /\ req = "test"
    /\ req' = "none"
    /\ wz' = [wz EXCEPT !.result = IF ok THEN "ok" ELSE "bad"]
    /\ UNCHANGED <<cfg, sent, load, dash, foreign>>

----------------------------------------------------------------------------
(* The gates of the steps: a connection; the installer shown, then ticked   *)
(* as installed; the portal page pushed; nothing before "Go Live".          *)
AfterStep == [connect |-> "bridge", bridge |-> "portal", portal |-> "launch"]
Passed == CASE wz.step = "connect" -> wz.result = "ok"
            [] wz.step = "bridge" -> wz.gate = 2
            [] wz.step = "portal" -> wz.gate = 1
            [] OTHER -> FALSE

Continue ==
    /\ Passed
    /\ wz' = [wz EXCEPT !.step = AfterStep[wz.step], !.gate = 0]
    /\ UNCHANGED <<cfg, req, sent, load, dash, foreign>>

(* handleGenerateBridge, handlePushPortal, handleGoLive *)
Ask ==
    /\ wz.step \in {"bridge", "portal", "launch"} /\ wz.gate = 0 /\ req = "none"
    /\ req' = "step"
    /\ UNCHANGED <<cfg, wz, sent, load, dash, foreign>>

Asked(ok) ==
    /\ req = "step"
    /\ req' = "none"
    /\ wz' = IF ~ok THEN wz
             ELSE IF wz.step = "launch" THEN [wz EXCEPT !.step = "live"] ELSE [wz EXCEPT !.gate = 1]
    /\ UNCHANGED <<cfg, sent, load, dash, foreign>>

(* The tick box; "start over" forgets the installer and the tick. *)
Tick ==
    /\ wz.step = "bridge" /\ wz.gate \in {1, 2}
    /\ \E g \in {0, 1, 2} \ {wz.gate} : wz' = [wz EXCEPT !.gate = g]
    /\ UNCHANGED <<cfg, req, sent, load, dash, foreign>>

----------------------------------------------------------------------------
(* load, every 30 seconds: what it reads and when it is applied. *)
PollReads ==
    /\ dash.polled = "none"
    /\ dash' = [dash EXCEPT !.polled = IF cfg = NoVal THEN "no" ELSE "yes"]
    /\ UNCHANGED <<cfg, wz, req, sent, load, foreign>>

PollAnswers ==
    /\ dash.polled # "none"
    /\ dash' = [dash EXCEPT !.polled = "none", !.flag = (dash.polled = "yes")]
    /\ UNCHANGED <<cfg, wz, req, sent, load, foreign>>

(* "Connect MikroTik" while the flag is down, or "Reconnect Router" from    *)
(* the status drawer; the drawer is closed by its cross or by Escape.       *)
Drawer(open) ==
    /\ dash.open # open
    /\ dash' = [dash EXCEPT !.open = open]
    /\ UNCHANGED <<cfg, wz, req, sent, load, foreign>>

(* handleTestMikrotik tests what is saved, not what the drawer shows, also  *)
(* while a save is under way.                                               *)
DrawerTest ==
    /\ dash.open /\ ~dash.testing
    /\ dash' = [dash EXCEPT !.testing = TRUE, !.status = "none"]
    /\ UNCHANGED <<cfg, wz, req, sent, load, foreign>>

DrawerTested(ok) ==
    /\ dash.testing /\ (ok => cfg # NoVal)
    /\ dash' = [dash EXCEPT !.testing = FALSE, !.status = IF ok THEN "ok" ELSE "bad"]
    /\ UNCHANGED <<cfg, wz, req, sent, load, foreign>>

(* handleSaveMikrotik: the POST is refused, since a good test needs a       *)
(* configuration, and PATCH follows.                                        *)
DrawerSave ==
    /\ dash.open /\ ~dash.saving /\ dash.status = "ok"
    /\ dash' = [dash EXCEPT !.saving = TRUE]
    /\ UNCHANGED <<cfg, wz, req, sent, load, foreign>>

DrawerStored(v, answered) ==
    /\ dash.saving
    /\ cfg' = v /\ foreign' = TRUE
    /\ dash' = IF answered THEN [dash EXCEPT !.saving = FALSE, !.open = FALSE, !.flag = TRUE]
                           ELSE [dash EXCEPT !.saving = FALSE]
    /\ UNCHANGED <<wz, req, sent, load>>

DrawerFails ==
    /\ dash.saving
    /\ dash' = [dash EXCEPT !.saving = FALSE]
    /\ UNCHANGED <<cfg, wz, req, sent, load, foreign>>

----------------------------------------------------------------------------
Next ==
    \/ OpenWizard \/ Connect \/ SaveRefused \/ Continue \/ Ask \/ Tick
    \/ PollReads \/ PollAnswers \/ DrawerTest \/ DrawerSave \/ DrawerFails
    \/ \E b \in BOOLEAN : \/ Leave(b) \/ Loaded(b) \/ SaveStored(b) \/ Tested(b) \/ Asked(b)
                          \/ Drawer(b) \/ DrawerTested(b)
    \/ \E v \in Val : Enter(v)
    \/ \E v \in Val, b \in BOOLEAN : DrawerStored(v, b)

Spec == Init /\ [][Next]_vars

----------------------------------------------------------------------------
TypeOK == /\ cfg \in Val \cup {NoVal} /\ sent \in Val \cup {NoVal}
          /\ wz \in [step : Step, form : Val \cup {NoVal}, known : BOOLEAN,
                     result : {"none", "ok", "bad"}, gate : 0..2]
          /\ req \in {"none", "save", "test", "step"}
          /\ load \in BOOLEAN /\ foreign \in BOOLEAN
          /\ dash \in [flag : BOOLEAN, open : BOOLEAN, status : {"none", "ok", "bad"},
                       testing : BOOLEAN, saving : BOOLEAN, polled : {"none", "no", "yes"}]

(* When the wizard says the router is connected, the settings it tried are  *)
(* the ones saved, unless the drawer saved others meanwhile: the test uses  *)
(* the saved settings, so a save that failed must not be followed by one.   *)
ConnectedIsSaved == wz.result = "ok" /\ ~foreign => cfg = sent
=============================================================================
