-------------------------- MODULE RedemptionProofs --------------------------
(***************************************************************************)
(* Proofs about Redemption, for any number of vouchers, tokens, sessions,  *)
(* redemptions and requests, and any points, rewards and bounds.           *)
(***************************************************************************)
EXTENDS Redemption, FiniteSetTheorems, TLAPS

-----------------------------------------------------------------------------
(* The inductive invariant.                                                *)

\* Redemption r, or request c, works on row x.
Holds(r, x)  == rd[r].pc # "idle" /\ rd[r].credit = x
Serves(c, x) == call[c].pc = "loaded" /\ call[c].on = x

\* A request names the row its button is about.
CallInv ==
    \A c \in Clerk :
        /\ call[c].client => call[c].pc # "idle"
        /\ call[c].pc # "idle" =>
              /\ call[c].op \in VoucherOp => call[c].on \in Voucher
              /\ call[c].op = "reward" => call[c].on = Account
              /\ call[c].op = "launch" => call[c].on = Campaign
              /\ call[c].op \in {"generate", "create", "compensate"} => call[c].on = None

\* A redemption in progress has the session it committed.
RdInv ==
    /\ \A s \in Session : sess[s] = "none" => by[s] = None
    /\ \A r \in Redeemer :
        /\ rd[r].pc # "idle" => rd[r].credit \in Credit
        /\ rd[r].pc \in {"created", "activated"} =>
              /\ rd[r].session \in Session /\ sess[rd[r].session] # "none"
              /\ by[rd[r].session] = rd[r].credit
        /\ rd[r].pc = "activated" => sess[rd[r].session] = "active"

\* A row whose handlers never overlapped has one at a time.
AloneInv ==
    \A x \in Row \ raced :
        /\ \A q, r \in Redeemer : Holds(q, x) /\ Holds(r, x) => q = r
        /\ \A c, d \in Clerk : Serves(c, x) /\ Serves(d, x) => c = d
        /\ \A r \in Redeemer, c \in Clerk : ~(Holds(r, x) /\ Serves(c, x))

\* While its one redemption is at work a voucher stays unused.
UnusedInv ==
    \A v \in Voucher \ raced, r \in Redeemer : Holds(r, v) => voucher[v] = "unused"

Fresh(x) == IF x \in Voucher THEN voucher[x] \in {"none", "unused"} ELSE token[x] # "redeemed"

\* What has been bought with x, along the life of x.
BoughtInv ==
    \A x \in (Voucher \cup Token) \ (raced \cup cut) :
        /\ \A s, t \in Session : by[s] = x /\ by[t] = x => s = t
        /\ Fresh(x) /\ (\A r \in Redeemer : ~Holds(r, x)) => \A s \in Session : by[s] # x
        /\ \A r \in Redeemer : Holds(r, x) =>
              \A s \in Session : by[s] = x => rd[r].pc # "checked" /\ s = rd[r].session

HasServed(x) == \E s \in Session : by[s] = x /\ sess[s] = "active"

\* A voucher is marked after its session was activated, a token may be marked
\* before, by the redemption that is still at work.
ServedInv ==
    /\ \A v \in Voucher : voucher[v] = "used" => HasServed(v)
    /\ \A x \in Token \ cut : token[x] = "redeemed" =>
          \/ HasServed(x)
          \/ \E r \in Redeemer : rd[r].pc \in {"created", "activated"} /\ rd[r].credit = x

\* What the account should have.
Due == Points - Reward * made["reward"]

\* A handler knows at least what is due, and exactly that if it never overlapped.
PointsInv ==
    /\ balance >= Due
    /\ \A c \in Clerk : Serves(c, Account) => call[c].seen >= Due
    /\ Account \notin raced =>
          /\ balance = Due
          /\ \A c \in Clerk : Serves(c, Account) => call[c].seen = Due

LaunchInv ==
    Campaign \notin raced =>
        /\ made["launch"] <= 1
        /\ campaign # "launched" => made["launch"] = 0
        /\ \A c \in Clerk : Serves(c, Campaign) => campaign = "draft"

IInv ==
    /\ TypeOK /\ CallInv /\ RdInv /\ AloneInv
    /\ UnusedInv /\ BoughtInv /\ ServedInv /\ PointsInv /\ LaunchInv

-----------------------------------------------------------------------------
(* Initial states, and types.                                              *)

\* The initial states satisfy the invariant.
LEMMA InitIInv == Init => IInv
<1> SUFFICES ASSUME Init PROVE IInv
  OBVIOUS
<1>0. \A x \in Credit : x # None
  BY RedemptionAssumption DEF Credit, Row
<1>1. TypeOK
  <2>1. RdIdle \in RdState
    BY DEF RdIdle, RdState
  <2>2. CallIdle \in CallState
    BY RedemptionAssumption DEF CallIdle, CallState, Op, VoucherOp, Origin
  <2>3. /\ pressed \in 0..MaxCalls /\ crashes \in 0..MaxCrashes /\ balance \in Int
        /\ made \in [Origin -> Nat]
    BY RedemptionAssumption DEF Init
  <2> QED
    BY <2>1, <2>2, <2>3 DEF Init, TypeOK, Modal
<1>2. CallInv /\ RdInv
  BY DEF Init, CallInv, RdInv, CallIdle, RdIdle
<1>3. AloneInv /\ UnusedInv
  BY DEF Init, AloneInv, UnusedInv, Holds, Serves, CallIdle, RdIdle
<1>4. BoughtInv /\ ServedInv
  BY <1>0 DEF Init, BoughtInv, ServedInv, Holds, RdIdle, Credit
<1>5. PointsInv
  <2>1. made["reward"] = 0
    BY DEF Init, Origin
  <2>2. balance = Due
    BY <2>1, RedemptionAssumption DEF Init, Due
  <2> QED
    BY <2>2, RedemptionAssumption DEF Init, PointsInv, Serves, CallIdle
<1>6. LaunchInv
  BY DEF Init, LaunchInv, Serves, CallIdle, Origin
<1> QED
  BY <1>1, <1>2, <1>3, <1>4, <1>5, <1>6 DEF IInv

\* The records the steps build.
LEMMA RdMoves ==
    ASSUME NEW q \in RdState
    PROVE  /\ \A s \in Session : [q EXCEPT !.pc = "created", !.session = s] \in RdState
           /\ [q EXCEPT !.pc = "activated"] \in RdState
BY DEF RdState

\* The same for requests.
LEMMA CallMoves ==
    ASSUME NEW q \in CallState, NEW n \in Int
    PROVE  /\ [q EXCEPT !.pc = "loaded", !.seen = n] \in CallState
           /\ [q EXCEPT !.pc = "answered"] \in CallState
           /\ [q EXCEPT !.pc = "answered", !.ok = TRUE] \in CallState
           /\ [q EXCEPT !.pc = "lost"] \in CallState
           /\ [q EXCEPT !.client = FALSE] \in CallState
BY DEF CallState

\* The idle handlers are handlers.
LEMMA Idles == RdIdle \in RdState /\ CallIdle \in CallState
BY RedemptionAssumption DEF RdIdle, RdState, CallIdle, CallState, Op, VoucherOp, Origin

\* A button asks for a well-formed request.
LEMMA Asked ==
    ASSUME NEW c \in Clerk, NEW op \in Op, NEW x \in Row \cup {None},
           NEW n \in 0..Retries
    PROVE  Ask(c, op, x, n) \in CallState
<1>1. \A q \in CallState :
        [q EXCEPT !.pc = "asked", !.op = op, !.on = x, !.client = TRUE, !.tries = n] \in CallState
  BY DEF CallState
<1> QED
  BY <1>1, Idles DEF Ask

\* A new token.
LEMMA TokenTypes ==
    ASSUME TypeOK, NEW o \in Origin, NewToken(o)
    PROVE  /\ token' \in [Token -> {"none", "fresh", "redeemed"}]
           /\ made' \in [Origin -> Nat]
BY DEF TypeOK, NewToken

\* Getting hold of a row keeps the types of the history.
LEMMA TouchTypes ==
    ASSUME TypeOK, NEW x \in Row, Touch(x)
    PROVE  raced' \subseteq Row /\ cut' = cut
BY DEF TypeOK, Touch

\* A redemption keeps the types.
LEMMA TypeOKRedeem ==
    ASSUME TypeOK, RdInv, NEW r \in Redeemer, Redeem(r)
    PROVE  TypeOK'
<1> USE DEF TypeOK, rows, access, ghosts
<1>1. ASSUME NEW x \in Credit, NEW link \in BOOLEAN, RedeemCheck(r, x, link) PROVE TypeOK'
  <2>1. rd' \in [Redeemer -> RdState]
    BY <1>1 DEF RedeemCheck, RdState
  <2> QED
    BY <1>1, <2>1, TouchTypes DEF RedeemCheck, Row
<1>2. ASSUME RedeemRefused(r) PROVE TypeOK'
  BY <1>2, Idles DEF RedeemRefused
<1>3. ASSUME NEW s \in Session, RedeemSession(r, s) PROVE TypeOK'
  <2>1. rd' \in [Redeemer -> RdState]
    BY <1>3, RdMoves DEF RedeemSession
  <2>2. rd[r].credit \in Credit
    BY <1>3 DEF RedeemSession, RdInv
  <2>3. /\ sess' \in [Session -> {"none", "pending", "active"}]
        /\ by' \in [Session -> Credit \cup {None}]
        /\ token' \in [Token -> {"none", "fresh", "redeemed"}]
    BY <1>3, <2>2 DEF RedeemSession
  <2> QED
    BY <1>3, <2>1, <2>3 DEF RedeemSession
<1>4. ASSUME RedeemActivate(r) PROVE TypeOK'
  <2>1. rd' \in [Redeemer -> RdState]
    BY <1>4, RdMoves DEF RedeemActivate
  <2> QED
    BY <1>4, <2>1 DEF RedeemActivate
<1>5. ASSUME RedeemEnd(r) PROVE TypeOK'
  <2>1. /\ voucher' \in [Voucher -> {"none", "unused", "used", "expired"}]
        /\ token' \in [Token -> {"none", "fresh", "redeemed"}]
    BY <1>5 DEF RedeemEnd, Spend
  <2> QED
    BY <1>5, <2>1, Idles DEF RedeemEnd
<1> QED
  BY <1>1, <1>2, <1>3, <1>4, <1>5 DEF Redeem

\* So does a request at the server.
LEMMA TypeOKServe ==
    ASSUME TypeOK, CallInv, NEW c \in Clerk, Serve(c)
    PROVE  TypeOK'
<1> USE DEF TypeOK, rows, access, ghosts
<1>A. Reward \in Nat
  BY RedemptionAssumption
<1>B. call[c] \in CallState
  OBVIOUS
<1>1. ASSUME CallLoad(c) PROVE TypeOK'
  <2>1. Seen(call[c].on) \in Int
    BY DEF Seen
  <2>2. call' \in [Clerk -> CallState]
    BY <1>1, <1>B, <2>1, CallMoves, Idles, ZenonT(40) DEF CallLoad
  <2>3. raced' \subseteq Row /\ cut' \subseteq Row
    <3>1. call[c].on \in Row \cup {None}
      BY <1>B DEF CallState
    <3> QED
      BY <1>1, <3>1, TouchTypes DEF CallLoad
  <2> QED
    BY <1>1, <2>2, <2>3 DEF CallLoad
<1>2. ASSUME CallCommit(c) PROVE TypeOK'
  <2>1. call' \in [Clerk -> CallState]
    BY <1>2, <1>B, CallMoves, Idles DEF CallCommit
  <2>2. /\ voucher' \in [Voucher -> {"none", "unused", "used", "expired"}]
        /\ suspended' \subseteq Voucher
        /\ token' \in [Token -> {"none", "fresh", "redeemed"}]
        /\ made' \in [Origin -> Nat]
        /\ balance' \in Int /\ campaign' \in {"none", "draft", "launched"}
    <3>1. CASE IssueVouchers(c)
      BY <3>1 DEF IssueVouchers
    <3>2. CASE SetSuspended(c)
      BY <1>2, <3>2 DEF CallCommit, SetSuspended, CallInv, VoucherOp
    <3>3. CASE VoidVoucher(c)
      BY <3>3 DEF VoidVoucher
    <3>4. CASE SendReward(c)
      BY <1>A, <1>B, <3>4, TokenTypes DEF SendReward, Origin, CallState
    <3>5. CASE Compensate(c)
      BY <3>5, TokenTypes DEF Compensate, Origin
    <3>6. CASE CreateCampaign(c)
      BY <3>6 DEF CreateCampaign
    <3>7. CASE LaunchCampaign(c)
      BY <3>7, TokenTypes DEF LaunchCampaign, Origin
    <3> QED
      BY <1>2, <3>1, <3>2, <3>3, <3>4, <3>5, <3>6, <3>7 DEF CallCommit
  <2> QED
    BY <1>2, <2>1, <2>2 DEF CallCommit
<1> QED
  BY <1>1, <1>2 DEF Serve

\* And so do the pages and a crash.
LEMMA TypeOKPage ==
    ASSUME TypeOK, Page \/ Crash
    PROVE  TypeOK'
<1> USE DEF TypeOK, rows, access, ghosts
<1>1. ASSUME NEW m \in Modal, OpenModal(m) PROVE TypeOK'
  BY <1>1 DEF OpenModal
<1>2. ASSUME NEW from \in Modal, NEW to \in Modal, WizardStep(from, to) PROVE TypeOK'
  BY <1>2 DEF WizardStep
<1>3. ASSUME CloseModal PROVE TypeOK'
  BY <1>3 DEF CloseModal, Modal
<1>4. ASSUME NEW c \in Clerk, NEW op \in Op, NEW x \in Row \cup {None}, Press(c, op, x)
      PROVE  TypeOK'
  <2>1. 0 \in 0..Retries /\ pressed' \in 0..MaxCalls
    BY <1>4, RedemptionAssumption DEF Press
  <2>2. call' \in [Clerk -> CallState]
    BY <1>4, <2>1, Asked DEF Press
  <2> QED
    BY <1>4, <2>1, <2>2 DEF Press
<1>5. ASSUME NEW c \in Clerk, NEW d \in Clerk, Resend(c, d) PROVE TypeOK'
  <2>1. /\ call[c].op \in Op /\ call[c].on \in Row \cup {None}
        /\ call[c].tries + 1 \in 0..Retries
    <3>1. call[c].tries \in 0..Retries
      BY DEF CallState
    <3>2. call[c].tries + 1 \in 0..Retries
      BY <1>5, <3>1, RedemptionAssumption DEF Resend
    <3> QED
      BY <3>2 DEF CallState
  <2>2. Ask(d, call[c].op, call[c].on, call[c].tries + 1) \in CallState
    BY <2>1, Asked
  <2>3. call' \in [Clerk -> CallState]
    BY <1>5, <2>2, CallMoves, Idles DEF Resend
  <2> QED
    BY <1>5, <2>3 DEF Resend
<1>6. ASSUME NEW c \in Clerk, GiveUp(c) PROVE TypeOK'
  <2>1. call' \in [Clerk -> CallState]
    BY <1>6, CallMoves, Idles DEF GiveUp
  <2> QED
    BY <1>6, <2>1 DEF GiveUp
<1>7. ASSUME NEW c \in Clerk, Receive(c) PROVE TypeOK'
  <2>1. modal' \in Modal
    BY <1>7 DEF Receive, AfterSuccess, Modal
  <2> QED
    BY <1>7, <2>1, Idles DEF Receive
<1>8. ASSUME Crash PROVE TypeOK'
  <2>1. rd' \in [Redeemer -> RdState] /\ call' \in [Clerk -> CallState]
    BY <1>8, CallMoves, Idles DEF Crash
  <2>2. crashes' \in 0..MaxCrashes
    BY <1>8, RedemptionAssumption DEF Crash
  <2> QED
    BY <1>8, <2>1, <2>2 DEF Crash
<1> QED
  BY <1>1, <1>2, <1>3, <1>4, <1>5, <1>6, <1>7, <1>8 DEF Page

\* Every step keeps the types.
LEMMA TypeOKStep == IInv /\ [Next]_vars => TypeOK'
<1> SUFFICES ASSUME IInv, [Next]_vars PROVE TypeOK'
  OBVIOUS
<1>1. CASE UNCHANGED vars
  BY <1>1 DEF IInv, TypeOK, vars, rows, access, ghosts
<1> QED
  BY <1>1, TypeOKRedeem, TypeOKServe, TypeOKPage DEF Next, IInv

-----------------------------------------------------------------------------
(* The steps, sorted by what they do to the rows and their handlers.       *)

\* Nothing happens to a row, and no request gets hold of one.
Quiet ==
    /\ UNCHANGED <<rows, access, rd, ghosts>>
    /\ \A c \in Clerk : call'[c].pc = "loaded" =>
          call[c].pc = "loaded" /\ call'[c].on = call[c].on /\ call'[c].seen = call[c].seen

\* A request reads its row.
Loads(c) ==
    /\ CallLoad(c) /\ Accepted(c)
    /\ call'[c].on = call[c].on /\ call'[c].seen = Seen(call[c].on)
    /\ \A d \in Clerk \ {c} : call'[d] = call[d]

\* A request commits, and lets its row go.
Commits(c) ==
    /\ CallCommit(c)
    /\ call'[c].pc # "loaded"
    /\ \A d \in Clerk \ {c} : call'[d] = call[d]

\* Every step is one of these.
LEMMA Sorted ==
    ASSUME TypeOK, CallInv, [Next]_vars
    PROVE  \/ Quiet \/ Crash
           \/ \E r \in Redeemer : Redeem(r)
           \/ \E c \in Clerk : Loads(c) \/ Commits(c)
<1>A. call \in [Clerk -> CallState]
  BY DEF TypeOK
<1> USE DEF CallState
<1>1. ASSUME NEW c \in Clerk, CallLoad(c) PROVE Loads(c) \/ Quiet
  <2>1. CASE Accepted(c)
    BY <1>A, <1>1, <2>1 DEF CallLoad, Loads
  <2>2. CASE ~Accepted(c)
    BY <1>A, <1>1, <2>2 DEF CallLoad, Quiet, CallIdle, rows, access, ghosts
  <2> QED
    BY <2>1, <2>2
<1>2. ASSUME NEW c \in Clerk, CallCommit(c) PROVE Commits(c)
  BY <1>A, <1>2 DEF CallCommit, Commits, CallIdle
<1>3. CASE Page
  <2>1. UNCHANGED <<rows, access, rd, ghosts>>
    BY <1>3 DEF Page, OpenModal, WizardStep, CloseModal, Press, Resend, GiveUp, Receive
  <2>2. ASSUME NEW c \in Clerk, NEW op \in Op, NEW x \in Row \cup {None}, Press(c, op, x)
        PROVE  Quiet
    BY <1>A, <2>1, <2>2 DEF Press, Ask, CallIdle, Quiet
  <2>3. ASSUME NEW c \in Clerk, NEW d \in Clerk, Resend(c, d) PROVE Quiet
    <3>1. \A n, op, x : Ask(d, op, x, n).pc = "asked"
      BY DEF Ask, CallIdle
    <3>2. c # d
      BY <2>3 DEF Resend, CallInv
    <3>3. /\ call'[d].pc = "asked"
          /\ call'[c] = IF call[c].pc \in {"answered", "lost"} THEN CallIdle
                        ELSE [call[c] EXCEPT !.client = FALSE]
          /\ \A b \in Clerk \ {c, d} : call'[b] = call[b]
      BY <1>A, <2>3, <3>1, <3>2 DEF Resend
    <3>4. call'[c].pc = "loaded" =>
            call[c].pc = "loaded" /\ call'[c].on = call[c].on /\ call'[c].seen = call[c].seen
      BY <1>A, <3>3 DEF CallIdle
    <3> QED
      BY <2>1, <3>3, <3>4 DEF Quiet
  <2>4. ASSUME NEW c \in Clerk, GiveUp(c) PROVE Quiet
    BY <1>A, <2>1, <2>4 DEF GiveUp, CallIdle, Quiet
  <2>5. ASSUME NEW c \in Clerk, Receive(c) PROVE Quiet
    BY <1>A, <2>1, <2>5 DEF Receive, CallIdle, Quiet
  <2>6. CASE call' = call
    BY <2>1, <2>6 DEF Quiet
  <2> QED
    BY <1>3, <2>2, <2>3, <2>4, <2>5, <2>6 DEF Page, OpenModal, WizardStep, CloseModal
<1>4. CASE UNCHANGED vars
  BY <1>4 DEF Quiet, vars
<1> QED
  BY <1>1, <1>2, <1>3, <1>4 DEF Next, Serve

\* The handlers of a row.
LEMMA HeldBy ==
    ASSUME NEW x
    PROVE  Holding(x) = {} <=> /\ \A r \in Redeemer : ~Holds(r, x)
                               /\ \A c \in Clerk : ~Serves(c, x)
BY DEF Holding, Holds, Serves

\* A handler that gets hold of a row races with those that have it.
LEMMA Touched ==
    ASSUME NEW x, Touch(x)
    PROVE  /\ raced \subseteq raced' /\ cut' = cut
           /\ x \notin raced' => Holding(x) = {}
BY DEF Touch

\* The same when a request reads its row.
LEMMA RacedGrows ==
    ASSUME NEW c \in Clerk, CallLoad(c)
    PROVE  /\ raced \subseteq raced' /\ cut' = cut
           /\ Accepted(c) /\ call[c].on # None /\ call[c].on \notin raced' => Holding(call[c].on) = {}
BY Touched DEF CallLoad, ghosts

\* What a crash does.
LEMMA Crashed ==
    ASSUME TypeOK, Crash
    PROVE  /\ UNCHANGED <<rows, access, raced>>
           /\ cut \subseteq cut'
           /\ \A x \in Row : x \notin cut' => Holding(x) = {}
           /\ \A r \in Redeemer : rd'[r].pc = "idle"
           /\ \A c \in Clerk : call'[c].pc # "loaded"
BY DEF Crash, TypeOK, CallState, RdIdle, CallIdle

-----------------------------------------------------------------------------
(* Requests, redemptions, and who works on a row.                          *)

\* A request keeps to the row of its button.
LEMMA CallInvStep == IInv /\ [Next]_vars => CallInv'
<1> SUFFICES ASSUME IInv, [Next]_vars PROVE CallInv'
  OBVIOUS
<1>0. CallInv /\ call \in [Clerk -> CallState]
  BY DEF IInv, TypeOK
<1> USE DEF CallInv, CallState
<1>1. CASE call' = call
  BY <1>0, <1>1
<1>2. ASSUME NEW c \in Clerk, CallLoad(c) PROVE CallInv'
  BY <1>0, <1>2 DEF CallLoad, CallIdle
<1>3. ASSUME NEW c \in Clerk, CallCommit(c) PROVE CallInv'
  BY <1>0, <1>3 DEF CallCommit, CallIdle
<1>4. ASSUME NEW c \in Clerk, NEW op \in Op, NEW x \in Row \cup {None}, Press(c, op, x)
      PROVE  CallInv'
  <2>1. Ask(c, op, x, 0).pc = "asked" /\ Ask(c, op, x, 0).op = op /\ Ask(c, op, x, 0).on = x
    BY DEF Ask, CallIdle
  <2>2. /\ op \in VoucherOp => x \in Voucher
        /\ op = "reward" => x = Account
        /\ op = "launch" => x = Campaign
        /\ op \in {"generate", "create", "compensate"} => x = None
    BY <1>4 DEF Press, Pressable, VoucherOp
  <2> QED
    BY <1>0, <1>4, <2>1, <2>2 DEF Press
<1>5. ASSUME NEW c \in Clerk, NEW d \in Clerk, Resend(c, d) PROVE CallInv'
  <2>1. \A n : /\ Ask(d, call[c].op, call[c].on, n).pc = "asked"
               /\ Ask(d, call[c].op, call[c].on, n).op = call[c].op
               /\ Ask(d, call[c].op, call[c].on, n).on = call[c].on
    BY DEF Ask, CallIdle
  <2>2. c # d /\ call[c].pc # "idle"
    BY <1>0, <1>5 DEF Resend
  <2>3. /\ call'[d].pc = "asked" /\ call'[d].op = call[c].op /\ call'[d].on = call[c].on
        /\ call'[c] = IF call[c].pc \in {"answered", "lost"} THEN CallIdle
                      ELSE [call[c] EXCEPT !.client = FALSE]
        /\ \A b \in Clerk \ {c, d} : call'[b] = call[b]
    BY <1>0, <1>5, <2>1, <2>2 DEF Resend
  <2>4. \/ call'[c].pc = "idle" /\ ~call'[c].client
        \/ /\ call'[c].pc = call[c].pc /\ call'[c].op = call[c].op
           /\ call'[c].on = call[c].on /\ ~call'[c].client
    BY <1>0, <2>3 DEF CallIdle
  <2>5. ASSUME NEW b \in Clerk
        PROVE /\ call'[b].client => call'[b].pc # "idle"
              /\ call'[b].pc # "idle" =>
                    /\ call'[b].op \in VoucherOp => call'[b].on \in Voucher
                    /\ call'[b].op = "reward" => call'[b].on = Account
                    /\ call'[b].op = "launch" => call'[b].on = Campaign
                    /\ call'[b].op \in {"generate", "create", "compensate"} => call'[b].on = None
    BY <1>0, <2>2, <2>3, <2>4, <2>5
  <2> QED
    BY <2>5
<1>6. ASSUME NEW c \in Clerk, GiveUp(c) PROVE CallInv'
  BY <1>0, <1>6 DEF GiveUp, CallIdle
<1>7. ASSUME NEW c \in Clerk, Receive(c) PROVE CallInv'
  BY <1>0, <1>7 DEF Receive, CallIdle
<1>8. CASE Crash
  BY <1>0, <1>8 DEF Crash, CallIdle
<1>9. ASSUME NEW r \in Redeemer, Redeem(r) PROVE call' = call
  BY <1>9 DEF Redeem, RedeemCheck, RedeemRefused, RedeemSession, RedeemActivate, RedeemEnd
<1> QED
  BY <1>1, <1>2, <1>3, <1>4, <1>5, <1>6, <1>7, <1>8, <1>9
     DEF Next, Serve, Page, OpenModal, WizardStep, CloseModal, vars

\* A redemption keeps its session.
LEMMA RdInvStep == IInv /\ [Next]_vars => RdInv'
<1> SUFFICES ASSUME IInv, [Next]_vars PROVE RdInv'
  OBVIOUS
<1>0. /\ RdInv /\ TypeOK /\ CallInv
      /\ rd \in [Redeemer -> RdState]
      /\ sess \in [Session -> {"none", "pending", "active"}]
      /\ by \in [Session -> Credit \cup {None}]
  BY DEF IInv, TypeOK
<1> USE DEF RdInv, RdState
<1>1. ASSUME NEW r \in Redeemer, NEW x \in Credit, NEW link \in BOOLEAN, RedeemCheck(r, x, link)
      PROVE  RdInv'
  BY <1>0, <1>1 DEF RedeemCheck, access
<1>2. ASSUME NEW r \in Redeemer, RedeemRefused(r) PROVE RdInv'
  BY <1>0, <1>2 DEF RedeemRefused, access, RdIdle
<1>3. ASSUME NEW r \in Redeemer, NEW s \in Session, RedeemSession(r, s) PROVE RdInv'
  BY <1>0, <1>3 DEF RedeemSession
<1>4. ASSUME NEW r \in Redeemer, RedeemActivate(r) PROVE RdInv'
  BY <1>0, <1>4 DEF RedeemActivate
<1>5. ASSUME NEW r \in Redeemer, RedeemEnd(r) PROVE RdInv'
  BY <1>0, <1>5 DEF RedeemEnd, access, RdIdle
<1>6. CASE Crash
  BY <1>0, <1>6, Crashed DEF access
<1>7. CASE Quiet
  BY <1>0, <1>7 DEF Quiet, access
<1>8. ASSUME NEW c \in Clerk, Loads(c) \/ Commits(c) PROVE RdInv'
  BY <1>0, <1>8 DEF Loads, Commits, CallLoad, CallCommit, access
<1> QED
  BY <1>0, <1>1, <1>2, <1>3, <1>4, <1>5, <1>6, <1>7, <1>8, Sorted DEF Redeem

\* What a redemption's step does to its hold on the row.
LEMMA RedeemHolds ==
    ASSUME TypeOK, NEW r \in Redeemer, Redeem(r)
    PROVE  /\ call' = call
           /\ \A q \in Redeemer \ {r} : rd'[q] = rd[q]
           /\ raced \subseteq raced' /\ cut' = cut
           /\ \A x : Holds(r, x)' /\ ~Holds(r, x) /\ x \notin raced' => Holding(x) = {}
<1>0. rd \in [Redeemer -> RdState]
  BY DEF TypeOK
<1> USE DEF RdState, Holds
<1>1. ASSUME NEW x \in Credit, NEW link \in BOOLEAN, RedeemCheck(r, x, link)
      PROVE  /\ call' = call /\ \A q \in Redeemer \ {r} : rd'[q] = rd[q]
             /\ raced \subseteq raced' /\ cut' = cut
             /\ \A y : Holds(r, y)' /\ ~Holds(r, y) /\ y \notin raced' => Holding(y) = {}
  <2>1. rd'[r].credit = x
    BY <1>0, <1>1 DEF RedeemCheck
  <2> QED
    BY <1>0, <1>1, <2>1, Touched DEF RedeemCheck
<1>2. CASE RedeemRefused(r) \/ RedeemActivate(r) \/ RedeemEnd(r)
  BY <1>0, <1>2 DEF RedeemRefused, RedeemActivate, RedeemEnd, RdIdle, ghosts
<1>3. ASSUME NEW s \in Session, RedeemSession(r, s)
      PROVE  /\ call' = call /\ \A q \in Redeemer \ {r} : rd'[q] = rd[q]
             /\ raced \subseteq raced' /\ cut' = cut
             /\ \A y : Holds(r, y)' /\ ~Holds(r, y) /\ y \notin raced' => Holding(y) = {}
  BY <1>0, <1>3 DEF RedeemSession, ghosts
<1> QED
  BY <1>1, <1>2, <1>3 DEF Redeem

\* A second handler of a row enters it into raced.
LEMMA AloneInvStep == IInv /\ [Next]_vars => AloneInv'
<1> SUFFICES ASSUME IInv, [Next]_vars PROVE AloneInv'
  OBVIOUS
<1>0. TypeOK /\ CallInv /\ AloneInv
  BY DEF IInv
<1>1. ASSUME NEW r \in Redeemer, Redeem(r) PROVE AloneInv'
  <2> SUFFICES ASSUME NEW x \in Row \ raced'
      PROVE  /\ \A q, p \in Redeemer : Holds(q, x)' /\ Holds(p, x)' => q = p
             /\ \A c, d \in Clerk : Serves(c, x)' /\ Serves(d, x)' => c = d
             /\ \A q \in Redeemer, c \in Clerk : ~(Holds(q, x)' /\ Serves(c, x)')
    BY DEF AloneInv
  <2>1. x \notin raced /\ \A c \in Clerk : Serves(c, x)' <=> Serves(c, x)
    BY <1>0, <1>1, RedeemHolds DEF Serves
  <2>2. \A q \in Redeemer \ {r} : Holds(q, x)' <=> Holds(q, x)
    BY <1>0, <1>1, RedeemHolds DEF Holds
  <2>3. Holds(r, x)' /\ ~Holds(r, x) => Holding(x) = {}
    BY <1>0, <1>1, RedeemHolds
  <2> QED
    BY <1>0, <2>1, <2>2, <2>3, HeldBy DEF AloneInv
<1>2. ASSUME NEW c \in Clerk, Loads(c) PROVE AloneInv'
  <2> SUFFICES ASSUME NEW x \in Row \ raced'
      PROVE  /\ \A q, p \in Redeemer : Holds(q, x)' /\ Holds(p, x)' => q = p
             /\ \A b, d \in Clerk : Serves(b, x)' /\ Serves(d, x)' => b = d
             /\ \A q \in Redeemer, d \in Clerk : ~(Holds(q, x)' /\ Serves(d, x)')
    BY DEF AloneInv
  <2>1. x \notin raced /\ x # None
    BY <1>2, RacedGrows, RedemptionAssumption DEF Loads
  <2>2. \A q \in Redeemer : Holds(q, x)' <=> Holds(q, x)
    BY <1>2 DEF Loads, CallLoad, Holds
  <2>3. \A d \in Clerk \ {c} : Serves(d, x)' <=> Serves(d, x)
    BY <1>2 DEF Loads, Serves
  <2>4. Serves(c, x)' => Holding(x) = {}
    BY <1>2, <2>1, RacedGrows DEF Loads, Serves
  <2> QED
    BY <1>0, <2>1, <2>2, <2>3, <2>4, HeldBy DEF AloneInv
<1>3. ASSUME NEW c \in Clerk, Commits(c) PROVE AloneInv'
  <2>1. \A x : \A q \in Redeemer : Holds(q, x)' <=> Holds(q, x)
    BY <1>3 DEF Commits, CallCommit, Holds
  <2>2. \A x : \A d \in Clerk : Serves(d, x)' => Serves(d, x)
    BY <1>3 DEF Commits, Serves
  <2>3. raced' = raced
    BY <1>3 DEF Commits, CallCommit, ghosts
  <2> QED
    BY <1>0, <2>1, <2>2, <2>3 DEF AloneInv
<1>4. CASE Crash
  BY <1>0, <1>4, Crashed DEF AloneInv, Holds, Serves
<1>5. CASE Quiet
  <2>1. \A x : \A d \in Clerk : Serves(d, x)' => Serves(d, x)
    BY <1>5 DEF Quiet, Serves
  <2>2. \A x : \A q \in Redeemer : Holds(q, x)' <=> Holds(q, x)
    BY <1>5 DEF Quiet, Holds
  <2> QED
    BY <1>0, <1>5, <2>1, <2>2 DEF Quiet, ghosts, AloneInv
<1> QED
  BY <1>0, <1>1, <1>2, <1>3, <1>4, <1>5, Sorted

-----------------------------------------------------------------------------
(* Vouchers.                                                               *)

\* History only grows.
LEMMA HistoryGrows ==
    ASSUME IInv, [Next]_vars
    PROVE  raced \subseteq raced' /\ cut \subseteq cut'
<1>0. TypeOK /\ CallInv
  BY DEF IInv
<1> QED
  BY <1>0, Sorted, RedeemHolds, RacedGrows, Crashed
     DEF Quiet, Loads, Commits, CallCommit, ghosts

\* A redemption gets hold of a row only by its check.
LEMMA NewHold ==
    ASSUME IInv, [Next]_vars, NEW r \in Redeemer, NEW x, Holds(r, x)', ~Holds(r, x)
    PROVE  /\ x \in Credit /\ Redeemable(x) /\ UNCHANGED <<rows, access, call>> /\ Touch(x)
           /\ rd'[r].pc = "checked"
           /\ \A q \in Redeemer \ {r} : rd'[q] = rd[q]
<1>0. TypeOK /\ CallInv /\ rd \in [Redeemer -> RdState]
  BY DEF IInv, TypeOK
<1>1. rd'[r] # rd[r]
  BY DEF Holds
<1>2. ~Quiet
  BY <1>1 DEF Quiet
<1>3. ~Crash
  BY <1>0, Crashed DEF Holds
<1>4. \A c \in Clerk : ~Loads(c) /\ ~Commits(c)
  BY <1>1 DEF Loads, CallLoad, Commits, CallCommit
<1>5. PICK q \in Redeemer : Redeem(q)
  BY <1>0, <1>2, <1>3, <1>4, Sorted
<1>6. q = r
  BY <1>0, <1>1, <1>5, RedeemHolds
<1>7. ~RedeemRefused(r) /\ ~RedeemEnd(r)
  BY <1>0 DEF RedeemRefused, RedeemEnd, RdIdle, Holds
<1>8. ~RedeemActivate(r) /\ \A s \in Session : ~RedeemSession(r, s)
  BY <1>0 DEF RedeemActivate, RedeemSession, RdState, Holds
<1>9. PICK y \in Credit, link \in BOOLEAN : RedeemCheck(r, y, link)
  BY <1>5, <1>6, <1>7, <1>8 DEF Redeem
<1>10. x = y /\ rd'[r].pc = "checked"
  BY <1>0, <1>9 DEF RedeemCheck, Holds
<1> QED
  BY <1>0, <1>9, <1>10 DEF RedeemCheck

\* How the status of a voucher changes.
LEMMA VoucherStep ==
    ASSUME IInv, [Next]_vars, NEW v \in Voucher
    PROVE  \/ voucher'[v] = voucher[v]
           \/ voucher[v] = "none" /\ voucher'[v] = "unused"
           \/ /\ voucher'[v] = "used"
              /\ \E r \in Redeemer : Holds(r, v) /\ RedeemEnd(r)
           \/ /\ voucher'[v] = "expired"
              /\ \E c \in Clerk : Serves(c, v) /\ Commits(c)
<1>0. TypeOK /\ CallInv
  BY DEF IInv
<1>1. CASE Quiet \/ Crash
  BY <1>0, <1>1, Crashed DEF Quiet, rows
<1>2. ASSUME NEW r \in Redeemer, Redeem(r)
      PROVE  \/ voucher'[v] = voucher[v]
             \/ voucher'[v] = "used" /\ Holds(r, v) /\ RedeemEnd(r)
  <2>1. CASE RedeemEnd(r)
    BY <1>0, <2>1 DEF RedeemEnd, Spend, TypeOK, Holds
  <2>2. CASE ~RedeemEnd(r)
    BY <1>2, <2>2 DEF Redeem, RedeemCheck, RedeemRefused, RedeemSession, RedeemActivate, rows
  <2> QED
    BY <2>1, <2>2
<1>3. ASSUME NEW c \in Clerk, Loads(c) PROVE voucher' = voucher
  BY <1>3 DEF Loads, CallLoad, rows
<1>4. ASSUME NEW c \in Clerk, Commits(c)
      PROVE  \/ voucher'[v] = voucher[v]
             \/ voucher[v] = "none" /\ voucher'[v] = "unused"
             \/ voucher'[v] = "expired" /\ Serves(c, v)
  <2>1. CASE IssueVouchers(c)
    BY <2>1 DEF IssueVouchers
  <2>2. CASE VoidVoucher(c)
    BY <1>0, <1>4, <2>2 DEF VoidVoucher, Commits, CallCommit, TypeOK, Serves
  <2> QED
    BY <1>4, <2>1, <2>2 DEF Commits, CallCommit, SetSuspended, SendReward, Compensate,
                            CreateCampaign, LaunchCampaign
<1> QED
  BY <1>0, <1>1, <1>2, <1>3, <1>4, Sorted

\* Nobody else writes a voucher that is being redeemed.
LEMMA UnusedInvStep == IInv /\ [Next]_vars => UnusedInv'
<1> SUFFICES ASSUME IInv, [Next]_vars, NEW v \in Voucher \ raced', NEW r \in Redeemer, Holds(r, v)'
             PROVE  voucher'[v] = "unused"
  BY DEF UnusedInv
<1>0. TypeOK /\ AloneInv /\ UnusedInv /\ v \in Row /\ v \notin raced
  BY HistoryGrows DEF IInv, Credit, Row
<1>1. CASE ~Holds(r, v)
  <2>1. Redeemable(v) /\ voucher' = voucher
    BY <1>1, NewHold DEF rows
  <2> QED
    BY <2>1, RedemptionAssumption DEF Redeemable
<1>2. CASE Holds(r, v)
  <2>1. voucher[v] = "unused"
    BY <1>0, <1>2 DEF UnusedInv
  <2>2. \A q \in Redeemer : Holds(q, v) /\ RedeemEnd(q) => FALSE
    <3>1. ASSUME RedeemEnd(r) PROVE rd'[r].pc = "idle"
      BY <1>0, <3>1 DEF RedeemEnd, TypeOK, RdIdle
    <3> QED
      BY <1>0, <1>2, <3>1 DEF AloneInv, Holds
  <2>3. \A c \in Clerk : ~Serves(c, v)
    BY <1>0, <1>2 DEF AloneInv
  <2> QED
    BY <2>1, <2>2, <2>3, VoucherStep
<1> QED
  BY <1>1, <1>2

-----------------------------------------------------------------------------
(* Vouchers and tokens: what they buy.                                     *)

\* Only its own steps and a crash move a redemption.
LEMMA RdStep ==
    ASSUME IInv, [Next]_vars, NEW r \in Redeemer
    PROVE  rd'[r] = rd[r] \/ Crash \/ Redeem(r)
<1>0. TypeOK /\ CallInv
  BY DEF IInv
<1>1. CASE Quiet \/ \E c \in Clerk : Loads(c) \/ Commits(c)
  BY <1>1 DEF Quiet, Loads, Commits, CallLoad, CallCommit
<1> QED
  BY <1>0, <1>1, Sorted, RedeemHolds

\* A redemption lets go of its row when it is refused or done, or in a crash.
LEMMA LostHold ==
    ASSUME IInv, [Next]_vars, NEW r \in Redeemer, NEW x \in Credit, Holds(r, x), ~Holds(r, x)'
    PROVE  x \in cut' \/ RedeemRefused(r) \/ RedeemEnd(r)
<1>0. TypeOK /\ rd \in [Redeemer -> RdState] /\ rd'[r] # rd[r]
  BY DEF IInv, TypeOK, Holds
<1>1. CASE Crash
  BY <1>0, <1>1, Crashed, HeldBy DEF Row
<1>2. CASE Redeem(r)
  <2>1. ~RedeemActivate(r) /\ \A s \in Session : ~RedeemSession(r, s)
    BY <1>0 DEF RedeemActivate, RedeemSession, RdState, Holds
  <2>2. \A y \in Credit, link \in BOOLEAN : ~RedeemCheck(r, y, link)
    BY DEF RedeemCheck, Holds
  <2> QED
    BY <1>2, <2>1, <2>2 DEF Redeem
<1> QED
  BY <1>0, <1>1, <1>2, RdStep

\* A redemption that keeps its row goes on to its session, or to its activation.
LEMMA KeptHold ==
    ASSUME IInv, [Next]_vars, NEW r \in Redeemer, NEW x, Holds(r, x), Holds(r, x)'
    PROVE  rd'[r] = rd[r] \/ RedeemActivate(r) \/ \E s \in Session : RedeemSession(r, s)
<1>0. TypeOK /\ rd \in [Redeemer -> RdState]
  BY DEF IInv, TypeOK
<1>1. ~Crash
  BY <1>0, Crashed DEF Holds
<1>2. CASE Redeem(r)
  <2>1. ~RedeemRefused(r) /\ ~RedeemEnd(r)
    BY <1>0 DEF RedeemRefused, RedeemEnd, Holds, RdIdle
  <2>2. \A y \in Credit, link \in BOOLEAN : ~RedeemCheck(r, y, link)
    BY DEF RedeemCheck, Holds
  <2> QED
    BY <1>2, <2>1, <2>2 DEF Redeem
<1> QED
  BY <1>1, <1>2, RdStep

\* How a token changes.
LEMMA TokenStep ==
    ASSUME IInv, [Next]_vars, NEW t \in Token
    PROVE  \/ token'[t] = token[t]
           \/ token[t] = "none" /\ token'[t] = "fresh"
           \/ /\ token'[t] = "redeemed"
              /\ \E r \in Redeemer : /\ Holds(r, t)
                                     /\ RedeemEnd(r) \/ \E s \in Session : RedeemSession(r, s)
<1>0. TypeOK /\ CallInv /\ token \in [Token -> {"none", "fresh", "redeemed"}]
  BY DEF IInv, TypeOK
<1>1. CASE Quiet \/ Crash
  BY <1>0, <1>1, Crashed DEF Quiet, rows
<1>2. ASSUME NEW r \in Redeemer, Redeem(r)
      PROVE  \/ token'[t] = token[t]
             \/ /\ token'[t] = "redeemed" /\ Holds(r, t)
                /\ RedeemEnd(r) \/ \E s \in Session : RedeemSession(r, s)
  <2>1. CASE RedeemEnd(r)
    BY <1>0, <2>1 DEF RedeemEnd, Spend, Holds
  <2>2. ASSUME NEW s \in Session, RedeemSession(r, s)
        PROVE  token'[t] = token[t] \/ (token'[t] = "redeemed" /\ Holds(r, t))
    BY <1>0, <2>2 DEF RedeemSession, Holds
  <2>3. CASE ~RedeemEnd(r) /\ \A s \in Session : ~RedeemSession(r, s)
    BY <1>2, <2>3 DEF Redeem, RedeemCheck, RedeemRefused, RedeemActivate, rows
  <2> QED
    BY <2>1, <2>2, <2>3
<1>3. ASSUME NEW c \in Clerk, Loads(c) PROVE token' = token
  BY <1>3 DEF Loads, CallLoad, rows
<1>4. ASSUME NEW c \in Clerk, Commits(c)
      PROVE  token'[t] = token[t] \/ (token[t] = "none" /\ token'[t] = "fresh")
  <2>1. ASSUME NEW o, NewToken(o)
        PROVE  token'[t] = token[t] \/ (token[t] = "none" /\ token'[t] = "fresh")
    BY <1>0, <2>1 DEF NewToken
  <2>2. ASSUME IssueVouchers(c) \/ SetSuspended(c) \/ VoidVoucher(c) \/ CreateCampaign(c)
        PROVE  token' = token
    BY <2>2 DEF IssueVouchers, SetSuspended, VoidVoucher, CreateCampaign
  <2>3. CASE SendReward(c) \/ Compensate(c) \/ LaunchCampaign(c)
    BY <2>1, <2>3 DEF SendReward, Compensate, LaunchCampaign
  <2> QED
    BY <1>4, <2>2, <2>3 DEF Commits, CallCommit
<1> QED
  BY <1>0, <1>1, <1>2, <1>3, <1>4, Sorted

\* Sessions are bought by redemptions, and stay bought with what they were.
LEMMA BoughtStep ==
    ASSUME IInv, [Next]_vars
    PROVE  \/ by' = by
           \/ \E r \in Redeemer, s \in Session : RedeemSession(r, s)
<1>0. TypeOK /\ CallInv
  BY DEF IInv
<1>1. ASSUME NEW r \in Redeemer, Redeem(r)
      PROVE  by' = by \/ \E s \in Session : RedeemSession(r, s)
  BY <1>1 DEF Redeem, RedeemCheck, RedeemRefused, RedeemActivate, RedeemEnd, access
<1>2. ASSUME NEW c \in Clerk, Loads(c) \/ Commits(c) PROVE by' = by
  BY <1>2 DEF Loads, CallLoad, Commits, CallCommit, access
<1> QED
  BY <1>0, <1>1, <1>2, Sorted, Crashed DEF Quiet, access

\* A voucher or token buys at most one session.
LEMMA BoughtInvStep == IInv /\ [Next]_vars => BoughtInv'
<1> SUFFICES ASSUME IInv, [Next]_vars, NEW x \in (Voucher \cup Token) \ (raced' \cup cut')
      PROVE  /\ \A s, t \in Session : by'[s] = x /\ by'[t] = x => s = t
             /\ Fresh(x)' /\ (\A r \in Redeemer : ~Holds(r, x)') => \A s \in Session : by'[s] # x
             /\ \A r \in Redeemer : Holds(r, x)' =>
                   \A s \in Session : by'[s] = x => rd'[r].pc # "checked" /\ s = rd'[r].session
  BY DEF BoughtInv
<1>0. /\ TypeOK /\ CallInv /\ AloneInv /\ RdInv /\ BoughtInv
      /\ x \in Credit /\ x \in Row /\ x # None
      /\ rd \in [Redeemer -> RdState] /\ by \in [Session -> Credit \cup {None}]
  BY RedemptionAssumption DEF IInv, TypeOK, Credit, Row
<1>1. /\ x \notin raced \cup cut
      /\ \A q, r \in Redeemer : Holds(q, x) /\ Holds(r, x) => q = r
  BY <1>0, HistoryGrows DEF AloneInv
<1>2. /\ \A s, t \in Session : by[s] = x /\ by[t] = x => s = t
      /\ Fresh(x) /\ (\A r \in Redeemer : ~Holds(r, x)) => \A s \in Session : by[s] # x
      /\ \A r \in Redeemer : Holds(r, x) =>
            \A s \in Session : by[s] = x => rd[r].pc # "checked" /\ s = rd[r].session
  BY <1>0, <1>1 DEF BoughtInv
<1>3. Fresh(x)' => Fresh(x)
  BY <1>0, VoucherStep, TokenStep DEF Fresh
<1>4. ASSUME NEW r \in Redeemer, Holds(r, x), RedeemEnd(r) PROVE ~Fresh(x)'
  BY <1>0, <1>4 DEF RedeemEnd, Spend, Holds, Fresh, TypeOK
<1>5. ASSUME NEW r \in Redeemer, Holds(r, x)', ~Holds(r, x)
      PROVE  by' = by /\ \A s \in Session : by[s] # x
  <2>1. Redeemable(x) /\ Touch(x) /\ by' = by
    BY <1>5, NewHold DEF access
  <2>2. Fresh(x)
    BY <1>0, <2>1, RedemptionAssumption DEF Redeemable, Fresh
  <2>3. Holding(x) = {}
    BY <2>1, Touched
  <2> QED
    BY <1>2, <2>1, <2>2, <2>3, HeldBy
<1>6. CASE by' = by
  <2>1. ASSUME Fresh(x)', \A r \in Redeemer : ~Holds(r, x)' PROVE \A s \in Session : by[s] # x
    <3>1. ASSUME NEW r \in Redeemer, Holds(r, x) PROVE RedeemRefused(r)
      BY <1>0, <1>4, <2>1, <3>1, LostHold
    <3>2. ASSUME NEW r \in Redeemer, Holds(r, x) PROVE rd[r].pc = "checked"
      BY <3>1, <3>2 DEF RedeemRefused
    <3> QED
      BY <1>2, <1>3, <2>1, <3>2
  <2>2. ASSUME NEW r \in Redeemer, Holds(r, x)', NEW s \in Session, by[s] = x
        PROVE  rd'[r].pc # "checked" /\ s = rd'[r].session
    <3>1. Holds(r, x) /\ rd[r].pc # "checked" /\ s = rd[r].session
      BY <1>2, <1>5, <2>2
    <3>2. \A t \in Session : ~RedeemSession(r, t)
      BY <3>1 DEF RedeemSession
    <3>3. rd'[r] = rd[r] \/ RedeemActivate(r)
      BY <2>2, <3>1, <3>2, KeptHold
    <3> QED
      BY <1>0, <3>1, <3>3 DEF RedeemActivate, RdState
  <2> QED
    BY <1>2, <1>6, <2>1, <2>2
<1>7. ASSUME NEW r \in Redeemer, NEW s \in Session, RedeemSession(r, s)
      PROVE  /\ \A u, t \in Session : by'[u] = x /\ by'[t] = x => u = t
             /\ Fresh(x)' /\ (\A q \in Redeemer : ~Holds(q, x)') => \A t \in Session : by'[t] # x
             /\ \A q \in Redeemer : Holds(q, x)' =>
                   \A t \in Session : by'[t] = x => rd'[q].pc # "checked" /\ t = rd'[q].session
  <2>1. /\ by' = [by EXCEPT ![s] = rd[r].credit] /\ by[s] = None
        /\ rd'[r].pc = "created" /\ rd'[r].session = s /\ rd'[r].credit = rd[r].credit
        /\ \A q \in Redeemer \ {r} : rd'[q] = rd[q]
    BY <1>0, <1>7 DEF RedeemSession, RdInv, RdState
  <2>2. rd[r].pc = "checked" /\ (Holds(r, x) <=> rd[r].credit = x)
    BY <1>7 DEF RedeemSession, Holds
  <2>3. \A q \in Redeemer : Holds(q, x)' <=> Holds(q, x)
    BY <1>0, <2>1, <2>2 DEF Holds
  <2>4. CASE rd[r].credit = x
    <3>1. \A t \in Session : by'[t] = x <=> t = s
      BY <1>0, <1>2, <2>1, <2>2, <2>4
    <3>2. \A q \in Redeemer : Holds(q, x) => q = r
      BY <1>1, <2>2, <2>4
    <3> QED
      BY <2>1, <2>2, <2>3, <2>4, <3>1, <3>2
  <2>5. CASE rd[r].credit # x
    <3>1. \A t \in Session : by'[t] = x <=> by[t] = x
      BY <1>0, <2>1, <2>5
    <3>2. \A q \in Redeemer : Holds(q, x) => rd'[q] = rd[q]
      BY <2>1, <2>2, <2>5
    <3> QED
      BY <1>2, <1>3, <2>3, <3>1, <3>2
  <2> QED
    BY <2>4, <2>5
<1> QED
  BY <1>6, <1>7, BoughtStep

\* A session that was served stays so.
LEMMA ServedStays ==
    ASSUME IInv, [Next]_vars, NEW x, HasServed(x)
    PROVE  HasServed(x)'
<1>0. /\ TypeOK /\ CallInv /\ RdInv
      /\ sess \in [Session -> {"none", "pending", "active"}]
      /\ by \in [Session -> Credit \cup {None}]
  BY DEF IInv, TypeOK
<1>1. PICK s \in Session : by[s] = x /\ sess[s] = "active"
  BY DEF HasServed
<1>2. ASSUME NEW r \in Redeemer, Redeem(r) PROVE by'[s] = x /\ sess'[s] = "active"
  <2>1. ASSUME NEW t \in Session, RedeemSession(r, t) PROVE by'[s] = x /\ sess'[s] = "active"
    BY <1>0, <1>1, <2>1 DEF RedeemSession
  <2>2. CASE RedeemActivate(r)
    BY <1>0, <1>1, <2>2 DEF RedeemActivate
  <2> QED
    BY <1>1, <1>2, <2>1, <2>2 DEF Redeem, RedeemCheck, RedeemRefused, RedeemEnd, access
<1>3. ASSUME NEW c \in Clerk, Loads(c) \/ Commits(c) PROVE UNCHANGED access
  BY <1>3 DEF Loads, CallLoad, Commits, CallCommit
<1>4. by'[s] = x /\ sess'[s] = "active"
  BY <1>0, <1>1, <1>2, <1>3, Sorted, Crashed DEF Quiet, access
<1> QED
  BY <1>4 DEF HasServed

\* What is spent was served, or is about to be.
LEMMA ServedInvStep == IInv /\ [Next]_vars => ServedInv'
<1> SUFFICES ASSUME IInv, [Next]_vars PROVE ServedInv'
  OBVIOUS
<1>0. /\ TypeOK /\ CallInv /\ RdInv /\ ServedInv
      /\ rd \in [Redeemer -> RdState]
  BY DEF IInv, TypeOK
<1>1. ASSUME NEW r \in Redeemer, rd[r].pc = "activated" PROVE HasServed(rd[r].credit)
  BY <1>0, <1>1 DEF RdInv, HasServed
<1>2. ASSUME NEW v \in Voucher, voucher'[v] = "used" PROVE HasServed(v)'
  <2>1. CASE voucher'[v] = voucher[v]
    BY <1>0, <1>2, <2>1, ServedStays DEF ServedInv
  <2>2. ASSUME NEW r \in Redeemer, Holds(r, v), RedeemEnd(r) PROVE HasServed(v)'
    BY <1>1, <2>2, ServedStays DEF RedeemEnd, Holds
  <2> QED
    BY <1>2, <2>1, <2>2, VoucherStep
<1>3. ASSUME NEW x \in Token \ cut', token'[x] = "redeemed"
      PROVE  \/ HasServed(x)'
             \/ \E r \in Redeemer : rd'[r].pc \in {"created", "activated"} /\ rd'[r].credit = x
  <2>0. x \notin cut /\ x \in Credit
    BY HistoryGrows DEF Credit
  <2>1. CASE HasServed(x)
    BY <2>1, ServedStays
  <2>2. ASSUME NEW r \in Redeemer, Holds(r, x), RedeemEnd(r) PROVE HasServed(x)'
    BY <1>1, <2>2, ServedStays DEF RedeemEnd, Holds
  <2>3. ASSUME NEW r \in Redeemer, Holds(r, x), NEW s \in Session, RedeemSession(r, s)
        PROVE  rd'[r].pc = "created" /\ rd'[r].credit = x
    BY <1>0, <2>3 DEF RedeemSession, Holds, RdState
  <2>4. ASSUME NEW r \in Redeemer, rd[r].pc \in {"created", "activated"}, rd[r].credit = x
        PROVE  \/ HasServed(x)'
               \/ rd'[r].pc \in {"created", "activated"} /\ rd'[r].credit = x
    <3>1. Holds(r, x)
      BY <2>4 DEF Holds
    <3>2. CASE RedeemEnd(r)
      BY <2>2, <3>1, <3>2
    <3>3. CASE ~Holds(r, x)' /\ ~RedeemEnd(r)
      BY <2>0, <2>4, <3>1, <3>3, LostHold DEF RedeemRefused
    <3>4. CASE Holds(r, x)'
      BY <1>0, <2>4, <3>1, <3>4, KeptHold, ZenonT(40) DEF RedeemActivate, RedeemSession, RdState
    <3> QED
      BY <3>2, <3>3, <3>4
  <2>5. CASE token'[x] = token[x]
    BY <1>0, <1>3, <2>0, <2>1, <2>4, <2>5 DEF ServedInv
  <2> QED
    BY <1>3, <2>2, <2>3, <2>5, TokenStep
<1> QED
  BY <1>2, <1>3 DEF ServedInv

-----------------------------------------------------------------------------
(* Points.                                                                 *)

\* What is due is a number.
LEMMA DueType ==
    ASSUME TypeOK
    PROVE  made["reward"] \in Nat /\ Due \in Int
BY RedemptionAssumption DEF TypeOK, Origin, Due

\* What a request's commit does to it.
LEMMA DueCommit ==
    ASSUME TypeOK, NEW c \in Clerk, CallCommit(c)
    PROVE  \/ Due' = Due /\ balance' = balance
           \/ Due' = Due - Reward /\ SendReward(c)
<1>0. /\ made \in [Origin -> Nat] /\ Points \in Int /\ Reward \in Int
      /\ made["reward"] \in Nat
  BY DueType, RedemptionAssumption DEF TypeOK
<1>1. CASE SendReward(c)
  <2>1. made'["reward"] = made["reward"] + 1
    BY <1>0, <1>1 DEF SendReward, NewToken, Origin
  <2>2. Reward * (made["reward"] + 1) = Reward * made["reward"] + Reward
    BY <1>0
  <2>3. Reward * made["reward"] \in Int
    BY <1>0
  <2> QED
    BY <1>0, <1>1, <2>1, <2>2, <2>3 DEF Due
<1>2. CASE Compensate(c) \/ LaunchCampaign(c)
  <2>1. made'["reward"] = made["reward"] /\ balance' = balance
    BY <1>0, <1>2 DEF Compensate, LaunchCampaign, NewToken, Origin
  <2> QED
    BY <1>0, <2>1 DEF Due
<1>3. CASE IssueVouchers(c) \/ SetSuspended(c) \/ VoidVoucher(c) \/ CreateCampaign(c)
  BY <1>0, <1>3 DEF IssueVouchers, SetSuspended, VoidVoucher, CreateCampaign, Due
<1> QED
  BY <1>1, <1>2, <1>3 DEF CallCommit

\* The balance is what is due, or more when rewards overlapped.
LEMMA PointsInvStep == IInv /\ [Next]_vars => PointsInv'
<1> SUFFICES ASSUME IInv, [Next]_vars PROVE PointsInv'
  OBVIOUS
<1>0. /\ TypeOK /\ CallInv /\ AloneInv /\ PointsInv /\ Account \in Row
      /\ call \in [Clerk -> CallState] /\ balance \in Int
      /\ Due \in Int /\ Reward \in Nat
  BY DueType, RedemptionAssumption DEF IInv, TypeOK, Row
<1>1. raced \subseteq raced'
  BY HistoryGrows
<1>2. ASSUME UNCHANGED <<balance, made>>,
             \A c \in Clerk : Serves(c, Account)' => \/ call'[c].seen = balance
                                                    \/ /\ Serves(c, Account)
                                                       /\ call'[c].seen = call[c].seen
      PROVE  PointsInv'
  <2>1. Due' = Due
    BY <1>2 DEF Due
  <2> QED
    BY <1>0, <1>1, <1>2, <2>1 DEF PointsInv
<1>3. CASE Quiet
  BY <1>2, <1>3 DEF Quiet, rows, Serves
<1>4. CASE Crash
  BY <1>0, <1>2, <1>4, Crashed DEF rows, Serves
<1>5. ASSUME NEW r \in Redeemer, Redeem(r) PROVE PointsInv'
  <2>1. call' = call
    BY <1>0, <1>5, RedeemHolds
  <2>2. UNCHANGED <<balance, made>>
    BY <1>5 DEF Redeem, RedeemCheck, RedeemRefused, RedeemSession, RedeemActivate, RedeemEnd, rows
  <2> QED
    BY <1>2, <2>1, <2>2 DEF Serves
<1>6. ASSUME NEW c \in Clerk, Loads(c) PROVE PointsInv'
  <2>1. UNCHANGED <<balance, made>>
    BY <1>6 DEF Loads, CallLoad, rows
  <2>2. Serves(c, Account)' => call'[c].seen = balance
    BY <1>6 DEF Loads, Serves, Seen
  <2>3. \A d \in Clerk \ {c} : call'[d] = call[d]
    BY <1>6 DEF Loads
  <2> QED
    BY <1>2, <2>1, <2>2, <2>3 DEF Serves
<1>7. ASSUME NEW c \in Clerk, Commits(c) PROVE PointsInv'
  <2>1. \A d \in Clerk : Serves(d, Account)' =>
          d # c /\ Serves(d, Account) /\ call'[d].seen = call[d].seen
    BY <1>7 DEF Commits, Serves
  <2>2. CallCommit(c) /\ raced' = raced
    BY <1>7 DEF Commits, CallCommit, ghosts
  <2>3. CASE Due' = Due /\ balance' = balance
    BY <1>0, <2>1, <2>2, <2>3 DEF PointsInv
  <2>4. CASE Due' = Due - Reward /\ SendReward(c)
    <3>1. Serves(c, Account) /\ balance' = call[c].seen - Reward
      BY <1>0, <2>2, <2>4 DEF CallInv, CallCommit, SendReward, Serves
    <3>2. \A d \in Clerk : call[d].seen \in Int
      BY <1>0 DEF CallState
    <3>3. balance' >= Due' /\ \A d \in Clerk : Serves(d, Account)' => call'[d].seen >= Due'
      BY <1>0, <2>1, <2>4, <3>1, <3>2 DEF PointsInv
    <3>4. ASSUME Account \notin raced
          PROVE  balance' = Due' /\ \A d \in Clerk : ~Serves(d, Account)'
      BY <1>0, <2>1, <2>4, <3>1, <3>4 DEF PointsInv, AloneInv
    <3> QED
      BY <2>2, <3>3, <3>4 DEF PointsInv
  <2> QED
    BY <1>0, <2>2, <2>3, <2>4, DueCommit
<1> QED
  BY <1>0, <1>3, <1>4, <1>5, <1>6, <1>7, Sorted

-----------------------------------------------------------------------------
(* Launches.                                                               *)

\* Only a launch serves the campaign.
LEMMA ServesCampaign ==
    ASSUME TypeOK, CallInv, NEW c \in Clerk, call[c].pc # "idle", call[c].on = Campaign
    PROVE  call[c].op = "launch"
<1>1. call[c].op \in Op
  BY DEF TypeOK, CallState
<1>2. Campaign \notin Voucher /\ Campaign # Account /\ Campaign # None
  BY RedemptionAssumption DEF Credit, Row
<1> QED
  BY <1>1, <1>2 DEF CallInv, Op, VoucherOp, Origin

\* The campaign is a draft until its one launch.
LEMMA LaunchInvStep == IInv /\ [Next]_vars => LaunchInv'
<1> SUFFICES ASSUME IInv, [Next]_vars, Campaign \notin raced'
      PROVE  /\ made'["launch"] <= 1
             /\ campaign' # "launched" => made'["launch"] = 0
             /\ \A c \in Clerk : Serves(c, Campaign)' => campaign' = "draft"
  BY DEF LaunchInv
<1>0. /\ TypeOK /\ CallInv /\ AloneInv
      /\ Campaign \in Row /\ Campaign \notin raced /\ made["launch"] \in Nat
      /\ campaign \in {"none", "draft", "launched"}
  BY HistoryGrows DEF IInv, TypeOK, Origin, Row
<1>1. /\ made["launch"] <= 1
      /\ campaign # "launched" => made["launch"] = 0
      /\ \A c \in Clerk : Serves(c, Campaign) => campaign = "draft"
  BY <1>0 DEF IInv, LaunchInv
<1>2. \A c, d \in Clerk : Serves(c, Campaign) /\ Serves(d, Campaign) => c = d
  BY <1>0 DEF AloneInv
<1>3. CASE UNCHANGED <<made, campaign>> /\ \A c \in Clerk : Serves(c, Campaign)' => Serves(c, Campaign)
  BY <1>1, <1>3
<1>4. CASE Quiet
  BY <1>3, <1>4 DEF Quiet, rows, Serves
<1>5. CASE Crash
  BY <1>0, <1>3, <1>5, Crashed DEF rows, Serves
<1>6. ASSUME NEW r \in Redeemer, Redeem(r)
      PROVE  UNCHANGED <<made, campaign>> /\ \A c \in Clerk : Serves(c, Campaign)' => Serves(c, Campaign)
  <2>1. call' = call
    BY <1>0, <1>6, RedeemHolds
  <2>2. UNCHANGED <<made, campaign>>
    BY <1>6 DEF Redeem, RedeemCheck, RedeemRefused, RedeemSession, RedeemActivate, RedeemEnd, rows
  <2> QED
    BY <2>1, <2>2 DEF Serves
<1>7. ASSUME NEW c \in Clerk, Loads(c)
      PROVE  /\ UNCHANGED <<made, campaign>>
             /\ \A d \in Clerk : Serves(d, Campaign)' => campaign' = "draft"
  <2>1. UNCHANGED <<made, campaign>>
    BY <1>7 DEF Loads, CallLoad, rows
  <2>2. ASSUME Serves(c, Campaign)' PROVE campaign = "draft"
    <3>1. call[c].pc = "asked" /\ call[c].on = Campaign
      BY <1>7, <2>2 DEF Loads, CallLoad, Serves
    <3>2. call[c].op = "launch"
      BY <1>0, <3>1, ServesCampaign
    <3> QED
      BY <1>7, <3>2 DEF Loads, Accepted
  <2>3. \A d \in Clerk \ {c} : Serves(d, Campaign)' => Serves(d, Campaign)
    BY <1>7 DEF Loads, Serves
  <2> QED
    BY <1>1, <2>1, <2>2, <2>3
<1>8. ASSUME NEW c \in Clerk, Commits(c)
      PROVE  /\ made'["launch"] <= 1
             /\ campaign' # "launched" => made'["launch"] = 0
             /\ \A d \in Clerk : Serves(d, Campaign)' => campaign' = "draft"
  <2>1. \A d \in Clerk : Serves(d, Campaign)' => d # c /\ Serves(d, Campaign)
    BY <1>8 DEF Commits, Serves
  <2>2. CASE LaunchCampaign(c)
    <3>1. Serves(c, Campaign)
      BY <1>0, <1>8, <2>2 DEF Commits, CallCommit, LaunchCampaign, CallInv, Serves
    <3>2. made'["launch"] = made["launch"] + 1 /\ campaign' = "launched"
      BY <1>0, <2>2 DEF LaunchCampaign, NewToken, TypeOK, Origin
    <3>3. made["launch"] = 0
      BY <1>1, <3>1
    <3> QED
      BY <1>2, <2>1, <3>1, <3>2, <3>3
  <2>3. CASE CreateCampaign(c)
    BY <1>0, <1>1, <2>1, <2>3 DEF CreateCampaign
  <2>4. CASE SendReward(c) \/ Compensate(c)
    <3>1. made'["launch"] = made["launch"] /\ campaign' = campaign
      BY <1>0, <2>4 DEF SendReward, Compensate, NewToken, TypeOK, Origin
    <3> QED
      BY <1>1, <2>1, <3>1
  <2>5. CASE IssueVouchers(c) \/ SetSuspended(c) \/ VoidVoucher(c)
    BY <1>1, <2>1, <2>5 DEF IssueVouchers, SetSuspended, VoidVoucher
  <2> QED
    BY <1>8, <2>2, <2>3, <2>4, <2>5 DEF Commits, CallCommit
<1> QED
  BY <1>0, <1>1, <1>3, <1>4, <1>5, <1>6, <1>7, <1>8, Sorted

-----------------------------------------------------------------------------
(* The theorems.                                                           *)

\* The inductive invariant holds in every behaviour.
THEOREM Invariance == Spec => []IInv
<1>1. IInv /\ [Next]_vars => IInv'
  BY TypeOKStep, CallInvStep, RdInvStep, AloneInvStep, UnusedInvStep, BoughtInvStep,
     ServedInvStep, PointsInvStep, LaunchInvStep DEF IInv
<1> QED
  BY <1>1, InitIInv, PTL DEF Spec

\* Every variable keeps its type.
THEOREM TypeCorrect == Spec => []TypeOK
<1>1. IInv => TypeOK
  BY DEF IInv
<1> QED
  BY <1>1, Invariance, PTL

\* A set whose members are all the same has at most one.
LEMMA AtMostOne ==
    ASSUME NEW S, \A s, t \in S : s = t
    PROVE  Cardinality(S) <= 1
<1>1. CASE S = {}
  BY <1>1, FS_EmptySet
<1>2. ASSUME NEW s \in S PROVE Cardinality(S) = 1
  <2>1. S = {s}
    BY <1>2
  <2> QED
    BY <2>1, FS_Singleton
<1> QED
  BY <1>1, <1>2

\* A voucher or a token buys one session in its life, unless its handlers
\* overlapped or a crash cut one off.
THEOREM CreditsBuyOnce == Spec => []SpentOnce
<1>1. ASSUME BoughtInv, NEW x \in (Voucher \cup Token) \ (raced \cup cut)
      PROVE  Cardinality(Bought(x)) <= 1
  BY <1>1, AtMostOne DEF BoughtInv, Bought
<1>2. IInv => SpentOnce
  BY <1>1 DEF IInv, SpentOnce
<1> QED
  BY <1>2, Invariance, PTL

\* Who spent a voucher or a token has been served: a redemption that stops in
\* the middle spends nothing, except a token in a crash.
THEOREM CreditsAreServed == Spec => []SpentIsServed
<1>1. ASSUME ServedInv, RdInv, NEW x \in Voucher \cup (Token \ cut), Holding(x) = {},
             IF x \in Voucher THEN voucher[x] = "used" ELSE token[x] = "redeemed"
      PROVE  HasServed(x)
  <2>1. \A r \in Redeemer : ~Holds(r, x)
    BY <1>1, HeldBy
  <2> QED
    BY <1>1, <2>1 DEF ServedInv, Holds
<1>2. IInv => SpentIsServed
  BY <1>1 DEF IInv, SpentIsServed, HasServed, Bought
<1> QED
  BY <1>2, Invariance, PTL

\* The account's points are what it had less its rewards, and never less than
\* that even when requests overlap.
THEOREM AccountsAddUp == Spec => []PointsAddUp
<1>1. IInv => PointsAddUp
  BY DEF IInv, PointsInv, PointsAddUp, Due
<1> QED
  BY <1>1, Invariance, PTL

\* A campaign's tokens are made once, however often the page asks, unless two
\* launches overlap.
THEOREM CampaignsLaunchOnce == Spec => []LaunchedOnce
<1>1. IInv => LaunchedOnce
  BY DEF IInv, LaunchInv, LaunchedOnce
<1> QED
  BY <1>1, Invariance, PTL

=============================================================================
