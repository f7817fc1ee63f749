------------------------ MODULE BrowserSessionProofs ------------------------
(***************************************************************************)
(* Proofs about BrowserSession, for any number of tabs, ISPs and requests. *)
(***************************************************************************)
EXTENDS BrowserSession, FiniteSetTheorems, TLAPS

-----------------------------------------------------------------------------
(* The inductive invariant.                                                *)

\* Whoever the server lets in was invited or approved.
ActiveInv == active \subseteq admitted

\* A registration with the invitation that was let pass.
Passed(a) == reg[a].pc = "checked" /\ reg[a].link

\* Without an overlap it is the only one, and the invitation is still unused.
InviteInv ==
    ~raced =>
        /\ \A a, b \in Isp : Passed(a) /\ Passed(b) => a = b
        /\ (\E a \in Isp : Passed(a)) => invited = {}
        /\ \A a, b \in invited : a = b

IInv == TypeOK /\ ActiveInv /\ StorageIsTokens /\ TokenIsAdmitted /\ InviteInv

\* The parts of the invariant hold at first.
LEMMA InitIInv == Init => IInv
<1> SUFFICES ASSUME Init PROVE IInv
  OBVIOUS
<1> USE DEF Init
<1>1. TypeOK
  <2>1. store \in StoreState
    BY DEF StoreState
  <2>2. tab \in [Tab -> TabState]
    BY DEF TabState, Page, Phase
  <2>3. wait \in [Tab -> WaitState] /\ reg \in [Isp -> RegState]
    BY DEF WaitState, NoWait, RegState, RegIdle
  <2> QED
    BY <2>1, <2>2, <2>3 DEF TypeOK
<1>2. ActiveInv /\ StorageIsTokens /\ InviteInv
  BY DEF ActiveInv, StorageIsTokens, RoleOf, InviteInv, Passed, RegIdle
<1>3. TokenIsAdmitted
  BY SessionAssumption DEF TokenIsAdmitted
<1> QED
  BY <1>1, <1>2, <1>3 DEF IInv

-----------------------------------------------------------------------------
(* Types.                                                                  *)

\* The records the steps build.
LEMMA Records ==
    /\ \A a \in Account : Signed(a) \in StoreState
    /\ Cleared \in StoreState
    /\ \A p \in Page, a \in Account \cup {None} : At(p, a) \in TabState
    /\ NoWait \in WaitState /\ RegIdle \in RegState
<1>1. \A a \in Account : Signed(a) \in StoreState
  BY SessionAssumption DEF Signed, StoreState, RoleOf, Role, Account
<1>2. \A p \in Page, a \in Account \cup {None} : At(p, a) \in TabState
  BY DEF At, TabState, Phase
<1> QED
  BY <1>1, <1>2 DEF Cleared, StoreState, NoWait, WaitState, RegIdle, RegState

\* A store whose user changes.
LEMMA UserMoves ==
    ASSUME NEW q \in StoreState, NEW a \in Account
    PROVE  [q EXCEPT !.user = a] \in StoreState
BY DEF StoreState

\* A tab whose phase or token changes.
LEMMA TabMoves ==
    ASSUME NEW q \in TabState, NEW f \in Phase, NEW a \in Account \cup {None}
    PROVE  /\ [q EXCEPT !.phase = f] \in TabState /\ [q EXCEPT !.token = a] \in TabState
           /\ [q EXCEPT !.token = a, !.phase = f] \in TabState
           /\ q.token \in Account \cup {None} /\ q.phase \in Phase
BY DEF TabState

\* A request of a page that was left.
LEMMA AskMoves ==
    ASSUME NEW k \in AskState, NEW b \in BOOLEAN
    PROVE  [k EXCEPT !.live = b] \in AskState
BY DEF AskState

\* A registration that moves on.
LEMMA RegMoves ==
    ASSUME NEW q \in RegState, NEW b \in BOOLEAN
    PROVE  /\ [q EXCEPT !.pc = "checked", !.link = b] \in RegState
           /\ [q EXCEPT !.pc = "refused", !.link = b] \in RegState
           /\ [pc |-> "done", link |-> FALSE] \in RegState
BY DEF RegState

\* The requests that leaving a page keeps.
LEMMA UnmountedType ==
    ASSUME TypeOK, NEW t \in Tab
    PROVE  Unmounted(t) \subseteq AskState
<1>1. \A k \in asks : (k.live /\ k.tab # t) \in BOOLEAN /\ k.live \in BOOLEAN
  BY DEF TypeOK, AskState
<1>2. \A k \in asks : [k EXCEPT !.live = @ /\ k.tab # t] \in AskState
  BY <1>1, AskMoves DEF TypeOK
<1> QED
  BY <1>2 DEF Unmounted

\* A new request of the dashboard's guard: a token that is taken over is one.
LEMMA RecheckType ==
    ASSUME TypeOK, NEW t \in Tab
    PROVE  /\ Hydrated(t) \in Account \cup {None}
           /\ Recheck(t, Hydrated(t)) \subseteq AskState
           /\ Recheck(t, tab[t].token) = {}
<1>1. store.token \in Account \cup {None} /\ tab[t].token \in Account \cup {None}
  BY DEF TypeOK, StoreState, TabState
<1>2. Recheck(t, tab[t].token) = {}
  BY DEF Recheck
<1>3. CASE store.token = None
  BY <1>1, <1>2, <1>3 DEF Hydrated
<1>4. CASE store.token # None
  <2>1. Hydrated(t) \in Account
    BY <1>1, <1>4 DEF Hydrated
  <2>2. [tab |-> t, who |-> Hydrated(t), layout |-> "dashboard", live |-> TRUE] \in AskState
    BY <2>1 DEF AskState
  <2> QED
    BY <1>2, <2>1, <2>2 DEF Recheck
<1> QED
  BY <1>3, <1>4

\* The steps of a tab that moves from page to page.
LEMMA TypeOKMove ==
    ASSUME TypeOK, NEW t \in Tab, Move(t)
    PROVE  TypeOK'
<1> USE DEF TypeOK, database, browser
<1>0. /\ tab[t] \in TabState /\ tab[t].token \in Account \cup {None}
      /\ store.token \in Account \cup {None} /\ asks \subseteq AskState
      /\ Cleared \in StoreState /\ tab \in [Tab -> TabState]
  BY Records DEF TabState, StoreState
<1>1. ASSUME NEW p \in Page, Follow(t, p) PROVE TypeOK'
  <2>1. At(p, tab[t].token) \in TabState
    BY <1>0, Records
  <2> QED
    BY <1>1, <2>1 DEF Follow
<1>2. ASSUME NEW p \in Page, Visit(t, p) PROVE TypeOK'
  <2>1. At(p, store.token) \in TabState
    BY <1>0, Records
  <2>2. reg' \in [Isp -> RegState] /\ wait' \in [Tab -> WaitState]
    BY <1>2, Records DEF Visit
  <2>3. tab' \in [Tab -> TabState] /\ asks' \subseteq AskState
    BY <1>0, <1>2, <2>1 DEF Visit
  <2> QED
    BY <1>2, <2>2, <2>3 DEF Visit
<1>3. ASSUME Logout(t) PROVE TypeOK'
  <2>1. At("login", None) \in TabState
    BY Records DEF Page
  <2>2. tab' \in [Tab -> TabState] /\ store' \in StoreState /\ asks' \subseteq AskState
        /\ overtaken' \in BOOLEAN
    BY <1>0, <1>3, <2>1, UnmountedType DEF Logout, SignOut
  <2> QED
    BY <1>3, <2>2 DEF Logout, SignOut, Others
<1>4. ASSUME StorageEvent(t) PROVE TypeOK'
  <2>1. [tab[t] EXCEPT !.token = Hydrated(t)] \in TabState
    BY <1>0, RecheckType DEF TabState
  <2>2. tab' \in [Tab -> TabState] /\ asks' \subseteq AskState
    BY <1>0, <1>4, <2>1, RecheckType DEF StorageEvent
  <2> QED
    BY <1>4, <2>2 DEF StorageEvent
<1>5. ASSUME SignupSubmit(t) PROVE TypeOK'
  <2>1. tab' \in [Tab -> TabState]
    BY <1>0, <1>5, TabMoves DEF SignupSubmit, Phase
  <2> QED
    BY <1>5, <2>1 DEF SignupSubmit
<1>6. ASSUME Welcomed(t) PROVE TypeOK'
  <2>1. At("onboarding", tab[t].token) \in TabState
    BY <1>0, Records DEF Page
  <2> QED
    BY <1>6, <2>1 DEF Welcomed
<1> QED
  BY <1>1, <1>2, <1>3, <1>4, <1>5, <1>6 DEF Move

\* What a form waits for.
LEMMA WaitMoves ==
    ASSUME TypeOK, NEW t \in Tab
    PROVE  wait[t].who \in Account \cup {None} /\ wait[t] \in WaitState
BY DEF TypeOK, WaitState

\* What a registration's check and its commit do to the database.
LEMMA RegCheckType ==
    ASSUME TypeOK, NEW a \in Isp, NEW link \in BOOLEAN, RegCheck(a, link)
    PROVE  reg' \in [Isp -> RegState] /\ raced' \in BOOLEAN
BY RegMoves DEF RegCheck, TypeOK

\* An ISP that is made.
LEMMA CommitType ==
    ASSUME TypeOK, NEW a \in Isp, NEW link \in BOOLEAN, Commit(a, link)
    PROVE  /\ made' \subseteq Isp /\ active' \subseteq made' /\ locked \subseteq made'
           /\ users' \subseteq made' /\ admitted' \subseteq made' /\ invited' \subseteq made'
           /\ invite' \in {"none", "pending", "used"} /\ (invite' = "used" <=> invited' # {})
BY DEF Commit, TypeOK

\* The steps of a form.
LEMMA TypeOKEnter ==
    ASSUME TypeOK, NEW t \in Tab, Enter(t)
    PROVE  TypeOK'
<1> USE DEF TypeOK, database, browser
<1>0. /\ tab[t] \in TabState /\ tab[t].token \in Account \cup {None}
      /\ tab \in [Tab -> TabState] /\ wait \in [Tab -> WaitState] /\ wait[t] \in WaitState
      /\ wait[t].who \in Account \cup {None} /\ NoWait \in WaitState
      /\ Isp \subseteq Account
  BY Records, WaitMoves DEF TabState, Account
<1>N. \A a \in Account \cup {None} : Accepts(a) => a \in Account
  BY SessionAssumption DEF Accepts, Account
<1>1. ASSUME NEW a \in Account, LoginSubmit(t, a) PROVE TypeOK'
  <2>1. wait' \in [Tab -> WaitState]
    BY <1>0, <1>1 DEF LoginSubmit, WaitState
  <2> QED
    BY <1>1, <2>1 DEF LoginSubmit
<1>2. ASSUME NEW a \in Isp, NEW link \in BOOLEAN, Register(t, a, link) PROVE TypeOK'
  <2>1. wait' \in [Tab -> WaitState]
    BY <1>0, <1>2 DEF Register, WaitState
  <2>2. reg' \in [Isp -> RegState] /\ raced' \in BOOLEAN
    BY <1>2, RegCheckType DEF Register
  <2> QED
    BY <1>2, <2>1, <2>2 DEF Register
<1>3. ASSUME NEW got \in BOOLEAN, LoginAnswer(t, got) \/ AdminLoginAnswer(t, got) PROVE TypeOK'
  <2>1. wait' \in [Tab -> WaitState]
    BY <1>0, <1>3 DEF LoginAnswer, AdminLoginAnswer
  <2>2. ASSUME NEW a \in Account, SignIn(t, a)
        PROVE  store' \in StoreState /\ hear' \subseteq Tab /\ overtaken' \in BOOLEAN
    BY <2>2, Records DEF SignIn, Others
  <2>3. /\ store' \in StoreState /\ hear' \subseteq Tab /\ overtaken' \in BOOLEAN
    BY <1>0, <1>N, <1>3, <2>2 DEF LoginAnswer, AdminLoginAnswer
  <2>4. tab' \in [Tab -> TabState]
    <3>1. \A a \in Account : At("dashboard", a) \in TabState
      BY Records DEF Page
    <3>2. At("admin", tab[t].token) \in TabState
      BY <1>0, Records DEF Page
    <3> QED
      BY <1>0, <1>N, <1>3, <3>1, <3>2 DEF LoginAnswer, AdminLoginAnswer
  <2> QED
    BY <1>3, <2>1, <2>3, <2>4 DEF LoginAnswer, AdminLoginAnswer
<1>4. ASSUME NEW got \in BOOLEAN, RegAnswer(t, got) PROVE TypeOK'
  <2>1. [for |-> "login", who |-> wait[t].who] \in WaitState
        /\ [for |-> "autoLogin", who |-> wait[t].who] \in WaitState
    BY <1>0 DEF WaitState
  <2>2. wait' \in [Tab -> WaitState]
    BY <1>0, <1>4, <2>1 DEF RegAnswer
  <2>3. [tab[t] EXCEPT !.phase = "stuck"] \in TabState /\ [tab[t] EXCEPT !.phase = @] \in TabState
    BY <1>0 DEF TabState, Phase
  <2>4. tab' \in [Tab -> TabState]
    BY <1>0, <1>4, <2>3 DEF RegAnswer, TabState
  <2>5. reg' \in [Isp -> RegState]
    BY <1>4, Records DEF RegAnswer
  <2> QED
    BY <1>4, <2>2, <2>4, <2>5 DEF RegAnswer
<1>5. ASSUME NEW got \in BOOLEAN, AutoLogin(t, got) PROVE TypeOK'
  <2>1. wait' \in [Tab -> WaitState]
    BY <1>0, <1>5 DEF AutoLogin
  <2>2. ASSUME NEW a \in Account, SignIn(t, a)
        PROVE  store' \in StoreState /\ hear' \subseteq Tab /\ overtaken' \in BOOLEAN
    BY <2>2, Records DEF SignIn, Others
  <2>3. store' \in StoreState /\ hear' \subseteq Tab /\ overtaken' \in BOOLEAN
    BY <1>0, <1>N, <1>5, <2>2 DEF AutoLogin
  <2>4. tab' \in [Tab -> TabState]
    BY <1>0, <1>5, TabMoves DEF AutoLogin, Phase
  <2> QED
    BY <1>5, <2>1, <2>3, <2>4 DEF AutoLogin
<1>6. ASSUME NEW got \in BOOLEAN, Launch(t, got) PROVE TypeOK'
  <2>1. tab' \in [Tab -> TabState]
    BY <1>0, <1>6, TabMoves DEF Launch, Phase
  <2> QED
    BY <1>6, <2>1 DEF Launch
<1> QED
  BY <1>1, <1>2, <1>3, <1>4, <1>5, <1>6 DEF Enter

\* The guards, and their answers.
LEMMA TypeOKGuard ==
    ASSUME TypeOK, NEW t \in Tab, Guard(t)
    PROVE  TypeOK'
<1> USE DEF TypeOK, database, browser
<1>0. /\ tab[t] \in TabState /\ tab[t].token \in Account \cup {None}
      /\ store.token \in Account \cup {None} /\ tab \in [Tab -> TabState] /\ asks \subseteq AskState
  BY DEF TabState, StoreState
<1>1. ASSUME NEW p \in Page, Go(t, p) PROVE tab' \in [Tab -> TabState] /\ asks' \subseteq AskState
  <2>1. At(p, tab[t].token) \in TabState
    BY <1>0, Records
  <2> QED
    BY <1>0, <1>1, <2>1 DEF Go
<1>2. ASSUME NEW a \in Account, NEW layout \in {"dashboard", "admin"}, Ask(t, a, layout)
      PROVE  tab' \in [Tab -> TabState] /\ asks' \subseteq AskState
  <2>1. [tab |-> t, who |-> a, layout |-> layout, live |-> TRUE] \in AskState
    BY DEF AskState
  <2>2. [tab[t] EXCEPT !.phase = IF @ = "arriving" THEN "checking" ELSE @] \in TabState
    BY <1>0 DEF TabState, Phase
  <2> QED
    BY <1>0, <1>2, <2>1, <2>2 DEF Ask
<1>3. tab' \in [Tab -> TabState] /\ asks' \subseteq AskState
  <2>1. CASE DashboardGuard(t)
    BY <1>0, <1>1, <1>2, <2>1 DEF DashboardGuard, Page
  <2>2. CASE AdminGuard(t)
    BY <1>0, <1>1, <1>2, <2>2 DEF AdminGuard, Page
  <2>3. CASE OnboardingGuard(t)
    BY <1>0, <1>1, <2>3, TabMoves, ZenonT(40) DEF OnboardingGuard, Page, Phase
  <2> QED
    BY <2>1, <2>2, <2>3 DEF Guard
<1> QED
  BY <1>3 DEF Guard

\* An answer of /auth/me.
LEMMA TypeOKAnswered ==
    ASSUME TypeOK, NEW t \in Tab, Answered(t)
    PROVE  TypeOK'
<1> USE DEF TypeOK, database, browser
<1>1. PICK k \in asks, got \in BOOLEAN :
        k.tab = t /\ (DashboardAnswer(k, got) \/ AdminAnswer(k, got))
  BY DEF Answered
<1>0. /\ tab[t] \in TabState /\ tab[t].token \in Account \cup {None}
      /\ tab \in [Tab -> TabState] /\ asks \subseteq AskState
      /\ k \in AskState /\ k.tab = t /\ k.who \in Account /\ k.live \in BOOLEAN
  BY <1>1 DEF TabState, AskState
<1>2. CASE DashboardAnswer(k, got)
  <2>1. store' \in StoreState /\ hear' \subseteq Tab /\ overtaken' \in BOOLEAN
    BY <1>0, <1>2, UserMoves DEF DashboardAnswer, Others
  <2>2. \A live, s \in BOOLEAN, token \in Account \cup {None} : AfterCheck(t, live, s, token) \in TabState
    <3>1. \A token \in Account \cup {None} : At("admin", token) \in TabState
      BY Records DEF Page
    <3>2. \A live, s \in BOOLEAN, token \in Account \cup {None} :
            [tab[t] EXCEPT !.token = token,
                           !.phase = IF ~live \/ @ = "suspended" THEN @
                                     ELSE IF s THEN "suspended" ELSE "ready"] \in TabState
      BY <1>0 DEF TabState, Phase
    <3> QED
      BY <3>1, <3>2 DEF AfterCheck
  <2>3. tab' \in [Tab -> TabState]
    BY <1>0, <1>1, <1>2, <2>2, RecheckType DEF DashboardAnswer
  <2>4. asks' \subseteq AskState
    BY <1>0, <1>1, <1>2, RecheckType, UnmountedType DEF DashboardAnswer
  <2> QED
    BY <1>2, <2>1, <2>3, <2>4 DEF DashboardAnswer
<1>3. CASE AdminAnswer(k, got)
  <2>1. At("login", None) \in TabState /\ Cleared \in StoreState
    BY Records DEF Page
  <2>2. \A f \in Phase : [tab[t] EXCEPT !.phase = f] \in TabState
    BY <1>0, TabMoves
  <2>3. /\ tab' \in [Tab -> TabState] /\ store' \in StoreState
        /\ hear' \subseteq Tab /\ overtaken' \in BOOLEAN /\ asks' \subseteq AskState
    <3>1. CASE got /\ k.who = Admin
      <4>1. tab[t].phase \in Phase
        BY <1>0 DEF TabState
      <4>2. [tab[t] EXCEPT !.phase = IF k.live THEN "ready" ELSE @] \in TabState
        BY <4>1, <2>2, <1>0 DEF TabState, Phase
      <4> QED
        BY <1>0, <1>3, <3>1, <4>2 DEF AdminAnswer
    <3>2. CASE ~(got /\ k.who = Admin)
      BY <1>0, <1>3, <3>2, <2>1, UnmountedType DEF AdminAnswer, SignOut, Others
    <3> QED
      BY <3>1, <3>2
  <2> QED
    BY <1>3, <2>3 DEF AdminAnswer
<1> QED
  BY <1>1, <1>2, <1>3

\* The other tabs, the administrator and the registrations.
LEMMA TypeOKEnvironment ==
    ASSUME TypeOK, Administer \/ Elsewhere
    PROVE  TypeOK'
<1> USE DEF TypeOK, database, browser
<1>1. CASE Elsewhere
  <2>1. store' \in StoreState
    BY <1>1, Records, UserMoves DEF Elsewhere, OtherSignsIn, OtherSignsOut, OtherAnswer
  <2> QED
    BY <1>1, <2>1 DEF Elsewhere, OtherSignsIn, OtherSignsOut, OtherAnswer
<1>2. ASSUME NEW a \in Isp, RegCommit(a) PROVE TypeOK'
  <2>1. reg[a].link \in BOOLEAN
    BY DEF RegState
  <2>2. reg' \in [Isp -> RegState]
    BY <1>2, RegMoves, Records DEF RegCommit, RegState
  <2> QED
    BY <1>2, <2>1, <2>2, CommitType DEF RegCommit
<1>3. ASSUME NEW a \in Isp, NEW link \in BOOLEAN, RegisterElsewhere(a, link) PROVE TypeOK'
  BY <1>3, RegCheckType DEF RegisterElsewhere
<1>4. CASE GenerateInvite
  BY <1>4 DEF GenerateInvite
<1>5. ASSUME NEW a \in Isp, ApproveISP(a) \/ RejectISP(a) \/ SuspendISP(a) PROVE TypeOK'
  <2>1. a \in made
    BY <1>5 DEF ApproveISP, RejectISP, SuspendISP, PendingApproval, ActivePartner, Listing
  <2> QED
    BY <1>5, <2>1 DEF ApproveISP, RejectISP, SuspendISP
<1> QED
  BY <1>1, <1>2, <1>3, <1>4, <1>5 DEF Administer

\* Every step keeps every variable within its type.
LEMMA TypeOKStep == TypeOK /\ [Next]_vars => TypeOK'
<1>1. TypeOK /\ UNCHANGED vars => TypeOK'
  BY DEF TypeOK, vars, database, browser
<1> QED
  BY <1>1, TypeOKMove, TypeOKEnter, TypeOKGuard, TypeOKAnswered, TypeOKEnvironment DEF Next

-----------------------------------------------------------------------------
(* localStorage and the tokens.                                            *)

\* How localStorage changes: it is cleared, signed by an account the server
\* lets in, or told the account of an answer.
StoreSteps ==
    \/ store' = store /\ overtaken' = overtaken
    \/ store' = Cleared /\ overtaken' = FALSE
    \/ \E a \in Account : Accepts(a) /\ store' = Signed(a) /\ overtaken' = FALSE
    \/ \E a \in Account : Accepts(a) /\ store' = [store EXCEPT !.user = a]
                         /\ overtaken' = (a # store.token)

\* A tab keeps its token, drops it, takes that of localStorage, or signs in.
TokenSteps ==
    \A t \in Tab : tab'[t].token \in {tab[t].token, store.token, None} \/ Accepts(tab'[t].token)

\* Every step is of these kinds.
LEMMA StoreMoves ==
    ASSUME TypeOK, [Next]_vars
    PROVE  StoreSteps
<1> USE DEF StoreSteps, browser
<1>N. \A a \in Account \cup {None} : Accepts(a) => a \in Account
  BY SessionAssumption DEF Accepts, Account, TypeOK
<1>1. ASSUME NEW t \in Tab, Move(t) PROVE StoreSteps
  BY <1>1 DEF Move, Follow, Visit, Logout, SignOut, StorageEvent, SignupSubmit, Welcomed
<1>2. ASSUME NEW t \in Tab, Enter(t) PROVE StoreSteps
  <2>1. wait[t].who \in Account \cup {None}
    BY <1>2, WaitMoves
  <2>2. ASSUME Accepts(wait[t].who), SignIn(t, wait[t].who) PROVE StoreSteps
    BY <1>N, <2>1, <2>2 DEF SignIn
  <2>3. ASSUME NEW got \in BOOLEAN, LoginAnswer(t, got) \/ AdminLoginAnswer(t, got) \/ AutoLogin(t, got)
        PROVE  StoreSteps
    <3>1. \/ Accepts(wait[t].who) /\ SignIn(t, wait[t].who)
          \/ UNCHANGED <<store, overtaken>>
      BY <2>3 DEF LoginAnswer, AdminLoginAnswer, AutoLogin
    <3> QED
      BY <2>2, <3>1
  <2> QED
    BY <1>2, <2>3 DEF Enter, LoginSubmit, Register, RegAnswer, Launch
<1>3. ASSUME NEW t \in Tab, Guard(t) PROVE StoreSteps
  BY <1>3 DEF Guard
<1>4. ASSUME NEW t \in Tab, Answered(t) PROVE StoreSteps
  <2>1. PICK k \in asks, got \in BOOLEAN : DashboardAnswer(k, got) \/ AdminAnswer(k, got)
    BY <1>4 DEF Answered
  <2>2. k.who \in Account
    BY <2>1 DEF TypeOK, AskState
  <2>3. CASE DashboardAnswer(k, got)
    BY <2>2, <2>3 DEF DashboardAnswer
  <2>4. CASE AdminAnswer(k, got)
    BY <2>4 DEF AdminAnswer, SignOut
  <2> QED
    BY <2>1, <2>3, <2>4
<1>5. CASE Elsewhere
  BY <1>5 DEF Elsewhere, OtherSignsIn, OtherSignsOut, OtherAnswer
<1>6. CASE Administer
  BY <1>6 DEF Administer, GenerateInvite, ApproveISP, RejectISP, SuspendISP, RegCommit, RegisterElsewhere
<1>7. CASE UNCHANGED vars
  BY <1>7 DEF vars
<1> QED
  BY <1>1, <1>2, <1>3, <1>4, <1>5, <1>6, <1>7 DEF Next

\* The token of a tab that moved.
LEMMA AtToken == \A p, a : At(p, a).token = a
BY DEF At

\* The same of the tabs.
LEMMA TokenMoves ==
    ASSUME TypeOK, [Next]_vars
    PROVE  TokenSteps
<1>0. tab \in [Tab -> TabState]
  BY DEF TypeOK
<1> USE DEF TokenSteps, browser, TabState
<1>1. ASSUME NEW t \in Tab, Move(t) PROVE TokenSteps
  <2>1. CASE \E p \in Page : Follow(t, p) \/ Visit(t, p)
    BY <1>0, <2>1, AtToken DEF Follow, Visit
  <2>2. CASE Logout(t) \/ Welcomed(t)
    BY <1>0, <2>2, AtToken DEF Logout, SignOut, Welcomed
  <2>3. CASE StorageEvent(t) \/ SignupSubmit(t)
    BY <1>0, <2>3 DEF StorageEvent, Hydrated, SignupSubmit
  <2> QED
    BY <1>1, <2>1, <2>2, <2>3 DEF Move
<1>2. ASSUME NEW t \in Tab, Enter(t) PROVE TokenSteps
  <2>1. ASSUME NEW got \in BOOLEAN, LoginAnswer(t, got) PROVE TokenSteps
    BY <1>0, <2>1, AtToken DEF LoginAnswer
  <2>2. ASSUME NEW got \in BOOLEAN, AdminLoginAnswer(t, got) PROVE TokenSteps
    BY <1>0, <2>2, AtToken DEF AdminLoginAnswer
  <2>3. ASSUME NEW got \in BOOLEAN, RegAnswer(t, got) \/ AutoLogin(t, got) \/ Launch(t, got)
        PROVE  TokenSteps
    BY <1>0, <2>3 DEF RegAnswer, AutoLogin, Launch
  <2> QED
    BY <1>0, <1>2, <2>1, <2>2, <2>3 DEF Enter, LoginSubmit, Register
<1>3. ASSUME NEW t \in Tab, Guard(t) PROVE TokenSteps
  <2>1. \A p : Go(t, p) => TokenSteps
    BY <1>0, AtToken DEF Go
  <2>2. \A a, layout : Ask(t, a, layout) => TokenSteps
    BY <1>0 DEF Ask
  <2>3. tab' = [tab EXCEPT ![t].phase = "ready"] => TokenSteps
    BY <1>0
  <2> QED
    BY <1>3, <2>1, <2>2, <2>3 DEF Guard, DashboardGuard, AdminGuard, OnboardingGuard
<1>4. ASSUME NEW t \in Tab, Answered(t) PROVE TokenSteps
  <2>1. PICK k \in asks, got \in BOOLEAN :
          k.tab = t /\ (DashboardAnswer(k, got) \/ AdminAnswer(k, got))
    BY <1>4 DEF Answered
  <2>2. CASE DashboardAnswer(k, got)
    <3>1. \A live, s, token : AfterCheck(t, live, s, token).token = token
      BY <1>0, AtToken DEF AfterCheck
    <3>2. PICK live, s, token : /\ tab' = [tab EXCEPT ![t] = AfterCheck(t, live, s, token)]
                                /\ token \in {tab[t].token, store.token}
      BY <2>1, <2>2 DEF DashboardAnswer, Hydrated
    <3> QED
      BY <1>0, <3>1, <3>2
  <2>3. CASE AdminAnswer(k, got)
    BY <1>0, <2>1, <2>3, AtToken DEF AdminAnswer, SignOut
  <2> QED
    BY <2>1, <2>2, <2>3
<1>5. CASE tab' = tab
  BY <1>5
<1> QED
  BY <1>1, <1>2, <1>3, <1>4, <1>5
     DEF Next, Elsewhere, OtherSignsIn, OtherSignsOut, OtherAnswer, Administer, GenerateInvite,
         ApproveISP, RejectISP, SuspendISP, RegCommit, RegisterElsewhere, vars

\* How the admitted and the active ISPs change.
LEMMA DatabaseMoves ==
    ASSUME [Next]_vars
    PROVE  \/ UNCHANGED <<admitted, active>>
           \/ \E a \in Isp : active' \subseteq active \cup {a} /\ admitted' = admitted \cup {a}
           \/ active' \subseteq active /\ admitted' = admitted
<1>1. CASE Administer
  BY <1>1 DEF Administer, GenerateInvite, ApproveISP, RejectISP, SuspendISP, RegCommit, Commit,
              RegisterElsewhere
<1>2. CASE Elsewhere
  BY <1>2 DEF Elsewhere, OtherSignsIn, OtherSignsOut, OtherAnswer, database
<1>3. ASSUME NEW t \in Tab, Move(t) \/ Guard(t) \/ Answered(t) PROVE UNCHANGED <<admitted, active>>
  BY <1>3 DEF Move, Follow, Visit, Logout, StorageEvent, SignupSubmit, Welcomed, Guard,
              Answered, DashboardAnswer, AdminAnswer, database
<1>4. ASSUME NEW t \in Tab, Enter(t) PROVE UNCHANGED <<admitted, active>>
  BY <1>4 DEF Enter, LoginSubmit, Register, LoginAnswer, AdminLoginAnswer, RegAnswer, AutoLogin,
              Launch, database
<1> QED
  BY <1>1, <1>2, <1>3, <1>4 DEF Next, vars, database

\* The tokens belong to the admitted, and localStorage to its token.
LEMMA TokenStep == IInv /\ [Next]_vars => ActiveInv' /\ StorageIsTokens' /\ TokenIsAdmitted'
<1> SUFFICES ASSUME IInv, [Next]_vars PROVE ActiveInv' /\ StorageIsTokens' /\ TokenIsAdmitted'
  OBVIOUS
<1>0. /\ TypeOK /\ ActiveInv /\ StorageIsTokens /\ TokenIsAdmitted
      /\ store \in StoreState /\ admitted \subseteq admitted'
  BY DatabaseMoves DEF IInv, TypeOK
<1>1. ActiveInv'
  BY <1>0, DatabaseMoves DEF ActiveInv
<1>2. StorageIsTokens'
  <2>1. StoreSteps
    BY <1>0, StoreMoves
  <2>2. CASE \E a \in Account : store' = Signed(a) /\ overtaken' = FALSE
    BY <2>2 DEF StorageIsTokens, Signed
  <2>3. CASE store' = Cleared
    BY <2>3 DEF StorageIsTokens, Cleared, RoleOf
  <2>4. CASE store' = store /\ overtaken' = overtaken
    BY <1>0, <2>4 DEF StorageIsTokens
  <2>5. ASSUME NEW a \in Account, store' = [store EXCEPT !.user = a], overtaken' = (a # store.token)
        PROVE  StorageIsTokens'
    <3>1. store'.role = store.role /\ store'.token = store.token /\ store'.user = a
      BY <1>0, <2>5 DEF StoreState
    <3> QED
      BY <1>0, <2>5, <3>1 DEF StorageIsTokens
  <2> QED
    BY <2>1, <2>2, <2>3, <2>4, <2>5 DEF StoreSteps
<1>3. \A a : Accepts(a) => a \notin Isp \ admitted'
  BY <1>0, SessionAssumption DEF Accepts, ActiveInv
<1>4. \A a \in Isp \ admitted' : store'.token # a
  <2>1. StoreSteps
    BY <1>0, StoreMoves
  <2>2. None \notin Isp
    BY SessionAssumption
  <2> QED
    BY <1>0, <1>3, <2>1, <2>2 DEF StoreSteps, TokenIsAdmitted, Cleared, Signed, StoreState
<1>5. \A a \in Isp \ admitted', t \in Tab : tab'[t].token # a
  <2>1. TokenSteps
    BY <1>0, TokenMoves
  <2>2. None \notin Isp
    BY SessionAssumption
  <2> QED
    BY <1>0, <1>3, <2>1, <2>2 DEF TokenSteps, TokenIsAdmitted
<1> QED
  BY <1>1, <1>2, <1>4, <1>5 DEF TokenIsAdmitted

-----------------------------------------------------------------------------
(* The invitation.                                                         *)

\* How the registrations and the invitation change.
LEMMA RegSteps ==
    ASSUME TypeOK, [Next]_vars
    PROVE  \/ /\ invited' = invited /\ raced' = raced
              /\ \A a \in Isp : Passed(a)' => Passed(a)
           \/ \E a \in Isp, link \in BOOLEAN : invited' = invited /\ RegCheck(a, link)
           \/ \E a \in Isp : RegCommit(a)
<1>0. reg \in [Isp -> RegState]
  BY DEF TypeOK
<1>1. CASE UNCHANGED <<reg, invited, raced>>
  BY <1>1 DEF Passed
<1>2. ASSUME NEW t \in Tab, NEW p \in Page, Visit(t, p)
      PROVE  invited' = invited /\ raced' = raced /\ \A a \in Isp : Passed(a)' => Passed(a)
  BY <1>0, <1>2 DEF Visit, Passed, RegIdle, database
<1>3. ASSUME NEW t \in Tab, NEW got \in BOOLEAN, RegAnswer(t, got)
      PROVE  invited' = invited /\ raced' = raced /\ \A a \in Isp : Passed(a)' => Passed(a)
  BY <1>0, <1>3 DEF RegAnswer, Passed, RegIdle, database
<1>4. ASSUME NEW t \in Tab, NEW a \in Isp, NEW link \in BOOLEAN, Register(t, a, link)
      PROVE  invited' = invited /\ RegCheck(a, link)
  BY <1>4 DEF Register
<1>5. ASSUME NEW a \in Isp, NEW link \in BOOLEAN, RegisterElsewhere(a, link)
      PROVE  invited' = invited /\ RegCheck(a, link)
  BY <1>5 DEF RegisterElsewhere
<1>6. ASSUME NEW t \in Tab, Move(t) PROVE UNCHANGED <<reg, invited, raced>> \/ \E p \in Page : Visit(t, p)
  BY <1>6 DEF Move, Follow, Logout, StorageEvent, SignupSubmit, Welcomed, database
<1>7. ASSUME NEW t \in Tab, Enter(t)
      PROVE  \/ UNCHANGED <<reg, invited, raced>>
             \/ \E got \in BOOLEAN : RegAnswer(t, got)
             \/ \E a \in Isp, link \in BOOLEAN : Register(t, a, link)
  BY <1>7 DEF Enter, LoginSubmit, LoginAnswer, AdminLoginAnswer, AutoLogin, Launch, database
<1>8. ASSUME NEW t \in Tab, Guard(t) \/ Answered(t) PROVE UNCHANGED <<reg, invited, raced>>
  BY <1>8 DEF Guard, Answered, DashboardAnswer, AdminAnswer, database
<1>9. CASE Elsewhere
  BY <1>1, <1>9 DEF Elsewhere, OtherSignsIn, OtherSignsOut, OtherAnswer, database
<1>10. CASE Administer
  BY <1>1, <1>5, <1>10 DEF Administer, GenerateInvite, ApproveISP, RejectISP, SuspendISP
<1> QED
  BY <1>1, <1>2, <1>3, <1>4, <1>6, <1>7, <1>8, <1>9, <1>10 DEF Next, vars, database

\* One registration passes at a time, or raced says that they overlapped.
LEMMA InviteStep == IInv /\ [Next]_vars => InviteInv'
<1> SUFFICES ASSUME IInv, [Next]_vars, ~raced'
      PROVE  /\ \A a, b \in Isp : Passed(a)' /\ Passed(b)' => a = b
             /\ (\E a \in Isp : Passed(a)') => invited' = {}
             /\ \A a, b \in invited' : a = b
  BY DEF InviteInv
<1>0. TypeOK /\ InviteInv /\ reg \in [Isp -> RegState] /\ invited \subseteq Isp
  BY DEF IInv, TypeOK
<1>1. CASE invited' = invited /\ raced' = raced /\ \A a \in Isp : Passed(a)' => Passed(a)
  BY <1>0, <1>1 DEF InviteInv
<1>2. ASSUME NEW a \in Isp, NEW link \in BOOLEAN, invited' = invited, RegCheck(a, link)
      PROVE  /\ \A b, c \in Isp : Passed(b)' /\ Passed(c)' => b = c
             /\ (\E b \in Isp : Passed(b)') => invited' = {}
             /\ \A b, c \in invited' : b = c
  <2>1. ~raced /\ \A b \in Isp \ {a} : reg'[b] = reg[b]
    BY <1>0, <1>2 DEF RegCheck
  <2>2. Passed(a)' => invite = "pending" /\ link /\ \A b \in Isp : ~Passed(b)
    BY <1>0, <1>2 DEF RegCheck, RegRefuses, RegState, Passed
  <2>3. invite = "pending" => invited = {}
    BY <1>0 DEF TypeOK
  <2> QED
    BY <1>0, <1>2, <2>1, <2>2, <2>3 DEF InviteInv, Passed
<1>3. ASSUME NEW a \in Isp, RegCommit(a)
      PROVE  /\ \A b, c \in Isp : Passed(b)' /\ Passed(c)' => b = c
             /\ (\E b \in Isp : Passed(b)') => invited' = {}
             /\ \A b, c \in invited' : b = c
  <2>1. /\ ~raced /\ \A b \in Isp \ {a} : reg'[b] = reg[b]
        /\ ~Passed(a)'
    BY <1>0, <1>3 DEF RegCommit, RegIdle, Passed
  <2>2. CASE reg[a].link
    <3>1. Passed(a) /\ invited' = invited \cup {a}
      BY <1>3, <2>2 DEF RegCommit, Commit, Passed
    <3>2. invited = {} /\ \A b \in Isp : Passed(b) => b = a
      BY <1>0, <2>1, <3>1 DEF InviteInv
    <3> QED
      BY <2>1, <3>1, <3>2 DEF Passed
  <2>3. CASE ~reg[a].link
    <3>1. invited' = invited
      BY <1>3, <2>3 DEF RegCommit, Commit
    <3> QED
      BY <1>0, <2>1, <3>1 DEF InviteInv, Passed
  <2> QED
    BY <2>2, <2>3
<1> QED
  BY <1>0, <1>1, <1>2, <1>3, RegSteps

-----------------------------------------------------------------------------
(* The theorems.                                                           *)

\* The inductive invariant holds in every behaviour.
THEOREM Invariance == Spec => []IInv
<1>1. IInv /\ [Next]_vars => IInv'
  BY TypeOKStep, TokenStep, InviteStep DEF IInv
<1> QED
  BY <1>1, InitIInv, PTL DEF Spec

\* Every variable keeps its type.
THEOREM TypeCorrect == Spec => []TypeOK
<1>1. IInv => TypeOK
  BY DEF IInv
<1> QED
  BY <1>1, Invariance, PTL

\* The role in localStorage is that of the token, whatever the tabs do, and the
\* user is its account unless an answer was overtaken.
THEOREM StorageAgrees == Spec => []StorageIsTokens
<1>1. IInv => StorageIsTokens
  BY DEF IInv
<1> QED
  BY <1>1, Invariance, PTL

\* Nobody holds a token who was neither invited nor approved.
THEOREM OnlyTheAdmitted == Spec => []TokenIsAdmitted
<1>1. IInv => TokenIsAdmitted
  BY DEF IInv
<1> QED
  BY <1>1, Invariance, PTL

\* An invitation makes one ISP, unless two registrations overlapped.
THEOREM InvitesOnce == Spec => []InviteOnce
<1>1. ASSUME \A a, b \in invited : a = b PROVE Cardinality(invited) <= 1
  <2>1. CASE invited = {}
    BY <2>1, FS_EmptySet
  <2>2. ASSUME NEW a \in invited PROVE Cardinality(invited) = 1
    <3>1. invited = {a}
      BY <1>1
    <3> QED
      BY <3>1, FS_Singleton
  <2> QED
    BY <2>1, <2>2
<1>2. IInv => InviteOnce
  BY <1>1 DEF IInv, InviteInv, InviteOnce
<1> QED
  BY <1>2, Invariance, PTL

=============================================================================
