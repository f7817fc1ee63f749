----------------------------- MODULE MpesaSetup -----------------------------
(***************************************************************************)
(* The ISP's Daraja credentials: app/dashboard/mpesa/page.tsx, the M-Pesa  *)
(* drawer of app/dashboard/page.tsx (in another tab, at any time) and the  *)
(* backend's save_mpesa_config and test_mpesa_config. A test reads the     *)
(* saved credentials, waits for Daraja and writes the verdict afterwards,  *)
(* whatever was saved meanwhile (crossed).                                 *)
(***************************************************************************)
CONSTANTS
    Cred,       \* credentials
    NoCred

VARIABLES
    server,     \* the saved configuration: cred, is_verified
    proven,     \* credentials Daraja has accepted
    page,       \* config, showForm, form, saving, testing, loading of the M-Pesa page
    drawer,     \* the drawer's test is under way: mpTesting
    saves,      \* saves sent and not handled: [from, cred]
    test,       \* the test being handled: the credentials it read, is_verified as read
    crossed     \* ghost: a save was handled while a test waited for Daraja

vars == <<server, proven, page, drawer, saves, test, crossed>>

Saved == [cred : Cred \cup {NoCred}, verified : BOOLEAN]
Unsaved == [cred |-> NoCred, verified |-> FALSE]
NoTest == [at |-> "none", cred |-> NoCred, was |-> FALSE]
Shown == [known : BOOLEAN, cred : Cred \cup {NoCred}, verified : BOOLEAN]

Init == /\ server = Unsaved /\ proven = {} /\ saves = {} /\ test = NoTest
        /\ page = [config |-> [known |-> FALSE, cred |-> NoCred, verified |-> FALSE], form |-> FALSE,
                   entered |-> NoCred, saving |-> FALSE, testing |-> FALSE, loading |-> TRUE]
        /\ drawer = FALSE
        /\ crossed = FALSE

----------------------------------------------------------------------------
(* fetchConfig: an answer closes the form; a failure leaves the page as is. *)
(* A fetch that starts during another is taken as one with it.              *)
Fetched(ok) ==
    /\ page.loading
    /\ page' = IF ok THEN [page EXCEPT !.loading = FALSE, !.form = FALSE,
                             !.config = [known |-> TRUE, cred |-> server.cred, verified |-> server.verified]]
                     ELSE [page EXCEPT !.loading = FALSE]
    /\ UNCHANGED <<server, proven, drawer, saves, test, crossed>>

(* "Edit Config" (in the header, also while the page loads) and "Cancel" *)
ShowForm(on) ==
    /\ page.config.known /\ page.form # on /\ (~on => ~page.loading)
    /\ page' = [page EXCEPT !.form = on]
    /\ UNCHANGED <<server, proven, drawer, saves, test, crossed>>

Enter(c) ==
    /\ page.form /\ ~page.loading
    /\ page' = [page EXCEPT !.entered = c]
    /\ UNCHANGED <<server, proven, drawer, saves, test, crossed>>

(* handleSave *)
Save ==
    /\ page.form /\ ~page.loading /\ ~page.saving /\ page.entered # NoCred
    /\ page' = [page EXCEPT !.saving = TRUE]
    /\ saves' = saves \cup {[from |-> "page", cred |-> page.entered]}
    /\ UNCHANGED <<server, proven, drawer, test, crossed>>

(* handleTestMpesa of the drawer: it saves, and then asks for the test with *)
(* GET, which the backend offers as POST only: the verdict is never good,   *)
(* and "Save & Enable" never enabled.                                       *)
DrawerTest(c) ==
    /\ ~drawer
    /\ drawer' = TRUE
    /\ saves' = saves \cup {[from |-> "drawer", cred |-> c]}
    /\ UNCHANGED <<server, proven, page, test, crossed>>

Ended(from) == IF from = "page" THEN page' = [page EXCEPT !.saving = FALSE] /\ UNCHANGED drawer
                                ELSE drawer' = FALSE /\ UNCHANGED page

SaveFails(s) ==
    /\ s \in saves
    /\ saves' = saves \ {s}
    /\ Ended(s.from)
    /\ UNCHANGED <<server, proven, test, crossed>>

(* save_mpesa_config *)
SavedStill(c) == [cred |-> c, verified |-> server.verified]
SavedAs(c) == [cred |-> c, verified |-> FALSE]

SaveHandled(s, answered) ==
    /\ s \in saves
    /\ saves' = saves \ {s}
    /\ server' = SavedAs(s.cred)
    /\ crossed' = (crossed \/ test.at = "daraja")
    /\ IF s.from = "page" /\ answered
       THEN page' = [page EXCEPT !.saving = FALSE, !.loading = TRUE] /\ UNCHANGED drawer
       ELSE Ended(s.from)
    /\ UNCHANGED <<proven, test>>

----------------------------------------------------------------------------
(* handleTest, offered beside the saved configuration *)
TestOffered == page.config.known /\ ~page.form /\ ~page.loading /\ ~page.testing

Test ==
    /\ TestOffered
    /\ page' = [page EXCEPT !.testing = TRUE]
    /\ test' = [test EXCEPT !.at = "sent"]
    /\ UNCHANGED <<server, proven, drawer, saves, crossed>>

(* test_mpesa_config reads the row and asks Daraja for a token. *)
TestReads ==
    /\ test.at = "sent" /\ server.cred # NoCred
    /\ test' = [at |-> "daraja", cred |-> server.cred, was |-> server.verified]
    /\ UNCHANGED <<server, proven, page, drawer, saves, crossed>>

(* Nothing is saved, or the request is lost. *)
TestFails ==
    /\ test.at = "sent"
    /\ test' = NoTest
    /\ page' = [page EXCEPT !.testing = FALSE]
    /\ UNCHANGED <<server, proven, drawer, saves, crossed>>

(* Only a field that differs from the value read is written, and a refused  *)
(* test does not touch is_verified.                                         *)
Daraja(accepts) ==
    /\ test.at = "daraja"
    /\ test' = NoTest
    /\ proven' = IF accepts THEN proven \cup {test.cred} ELSE proven
    /\ server' = IF accepts /\ ~test.was THEN [server EXCEPT !.verified = TRUE] ELSE server
    /\ page' = [page EXCEPT !.testing = FALSE, !.loading = @ \/ accepts]
    /\ UNCHANGED <<drawer, saves, crossed>>

----------------------------------------------------------------------------
Next ==
    \/ Save \/ Test \/ TestReads \/ TestFails
    \/ \E ok \in BOOLEAN : Fetched(ok) \/ ShowForm(ok) \/ Daraja(ok)
    \/ \E c \in Cred : Enter(c) \/ DrawerTest(c)
    \/ \E s \in saves : SaveFails(s) \/ \E answered \in BOOLEAN : SaveHandled(s, answered)

Spec == Init /\ [][Next]_vars

----------------------------------------------------------------------------
TypeOK == /\ server \in Saved /\ proven \subseteq Cred
          /\ page \in [config : Shown, form : BOOLEAN, entered : Cred \cup {NoCred},
                       saving : BOOLEAN, testing : BOOLEAN, loading : BOOLEAN]
          /\ drawer \in BOOLEAN
          /\ saves \subseteq [from : {"page", "drawer"}, cred : Cred]
          /\ test \in [at : {"none", "sent", "daraja"}, cred : Cred \cup {NoCred}, was : BOOLEAN]
          /\ crossed \in BOOLEAN

(* Credentials marked as verified have been accepted by Daraja, unless a    *)
(* save was handled while a test was waiting.                               *)
VerifiedWasTested == server.verified /\ ~crossed => server.cred \in proven
=============================================================================
