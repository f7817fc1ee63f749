--------------------------- MODULE BrowserSession ---------------------------
(***************************************************************************)
(* Who is signed in where.  The tabs of one browser share localStorage     *)
(* (wb_token, wb_role, wb_user) and each holds the token it has read.  Some *)
(* are followed page by page; what the others do to localStorage, and the  *)
(* registrations sent from elsewhere, are the environment's.  The          *)
(* layouts of the dashboard and of the administration guard their pages    *)
(* with a request to /auth/me whose answer may come after a sign-out, or   *)
(* after another account has signed in.  ISPs register with an invitation  *)
(* or without one, and the administrator's page approves, rejects and      *)
(* suspends them.                                                          *)
(***************************************************************************)
EXTENDS Naturals, FiniteSets

CONSTANTS
    Tab,     \* the tabs of the browser that are followed
    Isp,     \* ISP accounts, one administrator each
    Admin,   \* the platform administrator's account
    None,
    MaxAsks  \* bound: requests to /auth/me under way at once

Account == Isp \cup {Admin}

ASSUME SessionAssumption ==
    /\ Admin \notin Isp /\ None \notin Isp \cup {Admin}
    /\ MaxAsks \in Nat

VARIABLES
    \* Database, as committed
    made,      \* the ISPs that have registered
    active,    \* tenants.is_active
    locked,    \* tenants.is_locked, set by a rejection
    users,     \* admin_users.is_active
    invite,    \* isp_invites.status of one invitation
    invited,   \* the ISPs that registered with it
    reg,       \* the registration of each ISP while it is served
    \* The browser
    store,     \* localStorage
    hear,      \* tabs with a storage event to handle
    tab,       \* page, token and phase of each tab
    wait,      \* the request a form of the tab waits for
    asks,      \* requests to /auth/me under way
    onboarded, \* tabs with onboarding_done in sessionStorage
    \* History
    admitted,  \* the ISPs that were invited or approved
    raced,     \* two registrations with the invitation overlapped
    overtaken  \* an answer of /auth/me came for an account no longer signed in

database == <<made, active, locked, users, invite, invited, admitted, raced>>
browser  == <<store, hear, tab, wait, asks, onboarded, overtaken>>
vars     == <<database, reg, browser>>

-----------------------------------------------------------------------------
(* Types                                                                   *)

Page  == {"home", "signup", "pending", "login", "join", "onboarding",
          "dashboard", "adminLogin", "admin"}
Phase == {"form", "stuck", "welcome", "sent", "arriving", "checking",
          "ready", "suspended", "launched"}
Role  == {"platform", "isp"}

RoleOf(a) == IF a = None THEN None ELSE IF a = Admin THEN "platform" ELSE "isp"

StoreState == [token : Account \cup {None}, role : Role \cup {None}, user : Account \cup {None}]
TabState   == [page : Page, phase : Phase, token : Account \cup {None}]
WaitState  == [for : {"nothing", "login", "adminLogin", "register", "autoLogin"},
               who : Account \cup {None}]
AskState   == [tab : Tab, who : Account, layout : {"dashboard", "admin"}, live : BOOLEAN]
RegState   == [pc : {"idle", "checked", "done", "refused"}, link : BOOLEAN]

NoWait  == [for |-> "nothing", who |-> None]
RegIdle == [pc |-> "idle", link |-> FALSE]

TypeOK ==
    /\ made \subseteq Isp /\ active \subseteq made /\ locked \subseteq made
    /\ users \subseteq made /\ admitted \subseteq made /\ invited \subseteq made
    /\ invite \in {"none", "pending", "used"} /\ (invite = "used" <=> invited # {})
    /\ reg \in [Isp -> RegState]
    /\ store \in StoreState
    /\ hear \subseteq Tab /\ onboarded \subseteq Tab
    /\ tab \in [Tab -> TabState]
    /\ wait \in [Tab -> WaitState]
    /\ asks \subseteq AskState
    /\ raced \in BOOLEAN /\ overtaken \in BOOLEAN

\* localStorage after clear()
Cleared == [token |-> None, role |-> None, user |-> None]

\* Mutant: the user of the last session stays.
SignedKeepsUser(a) == [token |-> a, role |-> RoleOf(a), user |-> store.user]

\* localStorage after a sign-in: the three keys are written together.
Signed(a) == [token |-> a, role |-> RoleOf(a), user |-> a]

Init ==
    /\ made = {} /\ active = {} /\ locked = {} /\ users = {}
    /\ invite = "none" /\ invited = {} /\ admitted = {} /\ raced = FALSE
    /\ reg = [a \in Isp |-> RegIdle]
    /\ store = [token |-> None, role |-> None, user |-> None]
    /\ hear = {} /\ onboarded = {} /\ asks = {} /\ overtaken = FALSE
    /\ tab = [t \in Tab |-> [page |-> "home", phase |-> "form", token |-> None]]
    /\ wait = [t \in Tab |-> NoWait]

-----------------------------------------------------------------------------
(* Moving between pages.                                                   *)

Guarded == {"onboarding", "dashboard", "admin"}

At(p, token) ==
    [page |-> p, phase |-> IF p \in Guarded THEN "arriving" ELSE "form", token |-> token]

\* The layout of a page that is left keeps its requests, but not its state.
Unmounted(t) == {[k EXCEPT !.live = @ /\ k.tab # t] : k \in asks}

\* Links that do not load the page anew; those to pages modelled elsewhere and
\* to the sections of one page are left out.
Links(p) ==
    CASE p = "home"       -> {"login", "signup"}
      [] p = "signup"     -> {"home", "login"}
      [] p = "pending"    -> {"login"}
      [] p = "adminLogin" -> {"login"}
      [] OTHER            -> {}

Follow(t, p) ==
    /\ wait[t] = NoWait /\ p \in Links(tab[t].page)
    /\ tab' = [tab EXCEPT ![t] = At(p, @.token)]
    /\ UNCHANGED <<database, reg, store, hear, wait, asks, onboarded, overtaken>>

\* The tab's form waits for the registration of a.
Expects(t, a) == wait[t] = [for |-> "register", who |-> a]

\* An address is typed, a link opened in the tab, or the page reloaded: what
\* was under way in the tab is lost, and AuthProvider reads localStorage.
Visit(t, p) ==
    /\ p = "join" => invite # "none"
    /\ tab' = [tab EXCEPT ![t] = At(p, store.token)]
    /\ wait' = [wait EXCEPT ![t] = NoWait]
    /\ asks' = {k \in asks : k.tab # t}
    /\ reg' = [a \in Isp |-> IF Expects(t, a) /\ reg[a].pc # "checked" THEN RegIdle ELSE reg[a]]
    /\ hear' = hear \ {t}
    /\ UNCHANGED <<database, store, onboarded, overtaken>>

\* The dashboard's guard runs again when the tab's token has changed.
Recheck(t, token) ==
    IF tab[t].page = "dashboard" /\ tab[t].phase # "arriving" /\ token # tab[t].token
    THEN {[tab |-> t, who |-> token, layout |-> "dashboard", live |-> TRUE]}
    ELSE {}

\* hydrate(): a token that is gone is not taken over.
Hydrated(t) == IF store.token = None THEN tab[t].token ELSE store.token

StorageEvent(t) ==
    /\ t \in hear
    /\ tab' = [tab EXCEPT ![t].token = Hydrated(t)]
    /\ asks' = asks \cup Recheck(t, Hydrated(t))
    /\ Cardinality(asks') <= MaxAsks
    /\ hear' = hear \ {t}
    /\ UNCHANGED <<database, reg, store, wait, onboarded, overtaken>>

Others(t) == Tab \ {t}

\* logout(), whichever page it is called for.
SignOut(t) ==
    /\ store' = Cleared
    /\ hear' = hear \cup Others(t)
    /\ tab' = [tab EXCEPT ![t] = At("login", None)]
    /\ overtaken' = FALSE

Logout(t) ==
    /\ tab[t].page \in {"dashboard", "admin"} /\ tab[t].phase = "ready"
    /\ SignOut(t)
    /\ asks' = Unmounted(t)
    /\ UNCHANGED <<database, reg, wait, onboarded>>

-----------------------------------------------------------------------------
(* Signing in: the login page, the administrator's login page.             *)

\* login() of the server: the user, then its tenant, must be active.
Accepts(a) == a = Admin \/ (a \in users /\ a \in active)

SignIn(t, a) ==
    /\ store' = Signed(a)
    /\ hear' = hear \cup Others(t)
    /\ overtaken' = FALSE

LoginSubmit(t, a) ==
    /\ tab[t].page \in {"login", "adminLogin"} /\ wait[t] = NoWait
    /\ a = Admin \/ a \in made
    /\ wait' = [wait EXCEPT ![t] = [for |-> tab[t].page, who |-> a]]
    /\ UNCHANGED <<database, reg, store, hear, tab, asks, onboarded, overtaken>>

\* The login page signs in and goes to the dashboard, whoever it is.
LoginAnswer(t, got) ==
    LET a == wait[t].who IN
    /\ wait[t].for = "login"
    /\ IF got /\ Accepts(a)
       THEN SignIn(t, a) /\ tab' = [tab EXCEPT ![t] = At("dashboard", a)]
       ELSE UNCHANGED <<store, hear, tab, overtaken>>
    /\ wait' = [wait EXCEPT ![t] = NoWait]
    /\ UNCHANGED <<database, reg, asks, onboarded>>

\* The administrator's login refuses other roles.  It writes localStorage only:
\* the tab keeps the token it had.
AdminLoginAnswer(t, got) ==
    LET a == wait[t].who IN
    /\ wait[t].for = "adminLogin"
    /\ IF got /\ Accepts(a) /\ RoleOf(a) = "platform"
       THEN SignIn(t, a) /\ tab' = [tab EXCEPT ![t] = At("admin", @.token)]
       ELSE UNCHANGED <<store, hear, tab, overtaken>>
    /\ wait' = [wait EXCEPT ![t] = NoWait]
    /\ UNCHANGED <<database, reg, asks, onboarded>>

-----------------------------------------------------------------------------
(* Registration.                                                           *)

\* The prospects' form only leaves a lead with the platform.
SignupSubmit(t) ==
    /\ tab[t].page = "signup" /\ tab[t].phase = "form"
    /\ tab' = [tab EXCEPT ![t].phase = "sent"]
    /\ UNCHANGED <<database, reg, store, hear, wait, asks, onboarded, overtaken>>

\* The forms that register: the sign-up tab of the login page, with or without
\* the invitation, and the page of the invitation's link.
RegisterShown(t, link) ==
    /\ tab[t].phase = "form"
    /\ \/ tab[t].page = "login" /\ (link => invite # "none")
       \/ tab[t].page = "join" /\ link

\* Mutant: the status of the invitation is not looked at.
RegRefusesName(a, link) == a \in made

\* register(): the name and the invitation are read,
RegRefuses(a, link) == a \in made \/ (link /\ invite # "pending")

\* at once: nobody can tell a request that is on its way from one not yet sent.
RegCheck(a, link) ==
    /\ reg[a].pc = "idle"
    /\ reg' = [reg EXCEPT ![a].pc = IF RegRefuses(a, link) THEN "refused" ELSE "checked",
                          ![a].link = link]
    /\ raced' = (raced \/ (/\ link /\ ~RegRefuses(a, link)
                           /\ \E b \in Isp : reg[b].pc = "checked" /\ reg[b].link))

Register(t, a, link) ==
    /\ RegisterShown(t, link) /\ wait[t] = NoWait
    /\ wait' = [wait EXCEPT ![t] = [for |-> "register", who |-> a]]
    /\ RegCheck(a, link)
    /\ UNCHANGED <<made, active, locked, users, invite, invited, admitted>>
    /\ UNCHANGED <<store, hear, tab, asks, onboarded, overtaken>>

\* The same from another browser; one that is refused there leaves nothing.
RegisterElsewhere(a, link) ==
    /\ link => invite # "none"
    /\ ~RegRefuses(a, link) /\ RegCheck(a, link)
    /\ UNCHANGED <<made, active, locked, users, invite, invited, admitted, browser>>

\* Mutant: a registration without an invitation is active at once.
CommitActive(a, link) ==
    /\ made' = made \cup {a}
    /\ active' = active \cup {a}
    /\ users' = users \cup {a}
    /\ invite' = IF link THEN "used" ELSE invite
    /\ invited' = IF link THEN invited \cup {a} ELSE invited
    /\ admitted' = IF link THEN admitted \cup {a} ELSE admitted

\* Mutant: the invitation is left as it was.
CommitKeepsInvite(a, link) ==
    /\ made' = made \cup {a}
    /\ active' = IF link THEN active \cup {a} ELSE active
    /\ users' = IF link THEN users \cup {a} ELSE users
    /\ invite' = invite
    /\ invited' = IF link THEN invited \cup {a} ELSE invited
    /\ admitted' = IF link THEN admitted \cup {a} ELSE admitted

\* and the ISP, its user and the used invitation are committed together.
Commit(a, link) ==
    /\ made' = made \cup {a}
    /\ active' = IF link THEN active \cup {a} ELSE active
    /\ users' = IF link THEN users \cup {a} ELSE users
    /\ invite' = IF link THEN "used" ELSE invite
    /\ invited' = IF link THEN invited \cup {a} ELSE invited
    /\ admitted' = IF link THEN admitted \cup {a} ELSE admitted

\* An answer nobody expects any more is lost.
RegCommit(a) ==
    /\ reg[a].pc = "checked"
    /\ Commit(a, reg[a].link)
    /\ reg' = [reg EXCEPT ![a] = IF \E t \in Tab : Expects(t, a)
                                 THEN [pc |-> "done", link |-> FALSE] ELSE RegIdle]
    /\ UNCHANGED <<locked, raced, browser>>

\* The answer reaches the page.  The login page goes on to sign in, or shows
\* the error.  The invitation's page signs in by itself; a refusal is caught
\* nowhere, and its form has left the screen.
RegAnswer(t, got) ==
    LET a  == wait[t].who
        ok == got /\ reg[a].pc = "done"
    IN
    /\ wait[t].for = "register" /\ reg[a].pc \in {"done", "refused"}
    /\ wait' = [wait EXCEPT ![t] =
                 CASE ~ok -> NoWait
                   [] tab[t].page = "login" -> [for |-> "login", who |-> @.who]
                   [] OTHER -> [for |-> "autoLogin", who |-> @.who]]
    /\ tab' = [tab EXCEPT ![t].phase = IF ~ok /\ tab[t].page = "join" THEN "stuck" ELSE @]
    /\ reg' = [reg EXCEPT ![a] = RegIdle]
    /\ UNCHANGED <<database, store, hear, asks, onboarded, overtaken>>

\* The invitation's page writes localStorage only; a failure shows the form.
AutoLogin(t, got) ==
    LET a == wait[t].who IN
    /\ wait[t].for = "autoLogin"
    /\ IF got /\ Accepts(a)
       THEN SignIn(t, a) /\ tab' = [tab EXCEPT ![t].phase = "welcome"]
       ELSE UNCHANGED <<store, hear, tab, overtaken>>
    /\ wait' = [wait EXCEPT ![t] = NoWait]
    /\ UNCHANGED <<database, reg, asks, onboarded>>

\* After the animation.
Welcomed(t) ==
    /\ tab[t].page = "join" /\ tab[t].phase = "welcome"
    /\ tab' = [tab EXCEPT ![t] = At("onboarding", @.token)]
    /\ UNCHANGED <<database, reg, store, hear, wait, asks, onboarded, overtaken>>

-----------------------------------------------------------------------------
(* The guards.                                                             *)

Go(t, p) == tab' = [tab EXCEPT ![t] = At(p, @.token)] /\ UNCHANGED asks
Ask(t, a, layout) ==
    /\ tab' = [tab EXCEPT ![t].phase = IF @ = "arriving" THEN "checking" ELSE @]
    /\ asks' = asks \cup {[tab |-> t, who |-> a, layout |-> layout, live |-> TRUE]}

\* The dashboard asks with the token of the tab.
DashboardGuard(t) ==
    /\ tab[t].page = "dashboard" /\ tab[t].phase = "arriving"
    /\ IF tab[t].token = None THEN Go(t, "login") ELSE Ask(t, tab[t].token, "dashboard")

\* The administration asks with the token of localStorage, and again whenever
\* another of its pages is opened.
AdminGuard(t) ==
    /\ tab[t].page = "admin" /\ tab[t].phase \in {"arriving", "ready"}
    /\ IF store.token = None THEN Go(t, "adminLogin") ELSE Ask(t, store.token, "admin")

\* The wizard asks nobody.  A tab that has finished it goes to the portal's
\* page, except when it was opened with force.
OnboardingGuard(t) ==
    /\ tab[t].page = "onboarding" /\ tab[t].phase = "arriving"
    /\ \/ store.token = None /\ Go(t, "login")
       \/ store.token # None /\ store.role = "platform" /\ Go(t, "admin")
       \/ store.token # None /\ store.role # "platform" /\ t \in onboarded /\ Go(t, "dashboard")
       \/ /\ store.token # None /\ store.role # "platform"
          /\ tab' = [tab EXCEPT ![t].phase = "ready"] /\ UNCHANGED asks

Guard(t) ==
    /\ DashboardGuard(t) \/ AdminGuard(t) \/ OnboardingGuard(t)
    /\ Cardinality(asks') <= MaxAsks
    /\ UNCHANGED <<database, reg, store, hear, wait, onboarded, overtaken>>

\* saveAndLaunch, from the last of the wizard's five steps.
Launch(t, got) ==
    /\ tab[t].page = "onboarding" /\ tab[t].phase = "ready"
    /\ got /\ store.token # None /\ Accepts(store.token)
    /\ onboarded' = onboarded \cup {t}
    /\ tab' = [tab EXCEPT ![t].phase = "launched"]
    /\ UNCHANGED <<database, reg, store, hear, wait, asks, overtaken>>

\* A platform administrator is sent to the administration, also when the
\* dashboard has been left; a suspended tab stays suspended.
AfterCheck(t, live, suspended, token) ==
    IF store.role = "platform" THEN At("admin", token)
    ELSE [tab[t] EXCEPT !.token = token,
                        !.phase = IF ~live \/ @ = "suspended" THEN @
                                  ELSE IF suspended THEN "suspended" ELSE "ready"]

\* checkSuspension: an account that is active is written to wb_user, whoever is
\* signed in by now, and every tab is told; no answer, or another error, is
\* taken for a yes.
DashboardAnswer(k, got) ==
    LET t == k.tab
        ok == got /\ Accepts(k.who)
        suspended == got /\ k.who \in users \ active
        token == IF ok THEN Hydrated(t) ELSE tab[t].token
        left == store.role = "platform"
    IN
    /\ k.layout = "dashboard"
    /\ store' = IF ok THEN [store EXCEPT !.user = k.who] ELSE store
    /\ overtaken' = IF ok THEN k.who # store.token ELSE overtaken
    /\ hear' = IF ok THEN hear \cup Others(t) ELSE hear
    /\ tab' = [tab EXCEPT ![t] = AfterCheck(t, k.live, suspended, token)]
    /\ asks' = IF left THEN Unmounted(t) \ {k, [k EXCEPT !.live = FALSE]}
               ELSE (asks \ {k}) \cup Recheck(t, token)
    /\ UNCHANGED <<database, reg, wait, onboarded>>

\* The administration signs out whoever is not a platform administrator, and
\* everybody when the answer takes more than five seconds or is an error.
AdminAnswer(k, got) ==
    LET t == k.tab IN
    /\ k.layout = "admin"
    /\ IF got /\ k.who = Admin
       THEN /\ tab' = [tab EXCEPT ![t].phase = IF k.live THEN "ready" ELSE @]
            /\ asks' = asks \ {k}
            /\ UNCHANGED <<store, hear, overtaken>>
       ELSE SignOut(t) /\ asks' = Unmounted(t) \ {k, [k EXCEPT !.live = FALSE]}
    /\ UNCHANGED <<database, reg, wait, onboarded>>

-----------------------------------------------------------------------------
(* The browser's other tabs: they sign in and out, and their dashboards     *)
(* write the account they asked about.                                     *)

OtherSignsIn(a) ==
    /\ Accepts(a)
    /\ store' = Signed(a) /\ hear' = Tab /\ overtaken' = FALSE
    /\ UNCHANGED <<database, reg, tab, wait, asks, onboarded>>

OtherSignsOut ==
    /\ store # Cleared
    /\ store' = Cleared /\ hear' = Tab /\ overtaken' = FALSE
    /\ UNCHANGED <<database, reg, tab, wait, asks, onboarded>>

OtherAnswer(a) ==
    /\ Accepts(a)
    /\ store' = [store EXCEPT !.user = a] /\ hear' = Tab /\ overtaken' = (a # store.token)
    /\ UNCHANGED <<database, reg, tab, wait, asks, onboarded>>

-----------------------------------------------------------------------------
(* The administrator's page of ISPs, in another browser.                   *)

\* The list an ISP is shown in, when the page has loaded since the last change.
\* One that is suspended is shown with those that wait for approval; one that is
\* rejected is shown nowhere.
Listing(a) ==
    IF a \notin made THEN "none"
    ELSE IF a \in active THEN "active" ELSE IF a \in locked THEN "hidden" ELSE "pending"

\* The panels with the buttons Approve and Reject, and Suspend.
PendingApproval(a) == Listing(a) = "pending"
ActivePartner(a) == Listing(a) = "active"

GenerateInvite ==
    /\ invite = "none"
    /\ invite' = "pending"
    /\ UNCHANGED <<made, active, locked, users, invited, admitted, raced, reg, browser>>

ApproveISP(a) ==
    /\ PendingApproval(a)
    /\ active' = active \cup {a}
    /\ admitted' = admitted \cup {a}
    /\ UNCHANGED <<made, locked, users, invite, invited, raced, reg, browser>>

RejectISP(a) ==
    /\ PendingApproval(a)
    /\ active' = active \ {a} /\ locked' = locked \cup {a} /\ users' = users \ {a}
    /\ UNCHANGED <<made, invite, invited, admitted, raced, reg, browser>>

SuspendISP(a) ==
    /\ ActivePartner(a)
    /\ active' = active \ {a}
    /\ UNCHANGED <<made, locked, users, invite, invited, admitted, raced, reg, browser>>

-----------------------------------------------------------------------------

Move(t) ==
    \/ \E p \in Page : Follow(t, p) \/ Visit(t, p)
    \/ Logout(t) \/ StorageEvent(t) \/ SignupSubmit(t) \/ Welcomed(t)

Enter(t) ==
    \/ \E a \in Account : LoginSubmit(t, a)
    \/ \E a \in Isp, link \in BOOLEAN : Register(t, a, link)
    \/ \E got \in BOOLEAN : \/ LoginAnswer(t, got) \/ AdminLoginAnswer(t, got)
                            \/ RegAnswer(t, got) \/ AutoLogin(t, got) \/ Launch(t, got)

Answered(t) == \E k \in asks, got \in BOOLEAN :
    k.tab = t /\ (DashboardAnswer(k, got) \/ AdminAnswer(k, got))

Administer ==
    \/ GenerateInvite
    \/ \E a \in Isp : \/ ApproveISP(a) \/ RejectISP(a) \/ SuspendISP(a)
                      \/ RegCommit(a)
                      \/ \E link \in BOOLEAN : RegisterElsewhere(a, link)

Elsewhere == OtherSignsOut \/ \E a \in Account : OtherSignsIn(a) \/ OtherAnswer(a)

Next == Administer \/ Elsewhere \/ \E t \in Tab : Move(t) \/ Enter(t) \/ Guard(t) \/ Answered(t)

Spec == Init /\ [][Next]_vars

-----------------------------------------------------------------------------
(* Properties                                                              *)

\* The role that decides between dashboard and administration is always that
\* of the token beside it, whatever the tabs do (auth.tsx, the login pages),
\* and wb_user is the account of wb_token but for one case: an answer of
\* /auth/me that was overtaken by a sign-out or another sign-in.
StorageIsTokens ==
    /\ store.role = RoleOf(store.token)
    /\ ~overtaken => store.user = store.token

\* Whoever holds a token, in localStorage or in a tab, was invited or approved:
\* a registration without an invitation opens nothing by itself.
TokenIsAdmitted ==
    \A a \in Isp \ admitted : store.token # a /\ \A t \in Tab : tab[t].token # a

\* One invitation makes one ISP, unless two registrations with it overlapped:
\* nothing locks it between the check and the commit.
InviteOnce == ~raced => Cardinality(invited) <= 1

\* An ISP whose registration was approved, and that is shown as active, can log in
\* (approve_tenant; the flow that register documents).
ApprovedCanLogin == \A a \in active : Accepts(a)

=============================================================================
