----------------------------- MODULE Redemption -----------------------------
(***************************************************************************)
(* Free access: vouchers and reward tokens, each exchanged for a session   *)
(* by a customer, and the ISP's pages that make, suspend and void vouchers,*)
(* send rewards for points, launch campaigns and compensate customers.     *)
(*   - A redemption checks its credit, commits the session, commits its    *)
(*     activation and commits the credit, with other handlers in between.  *)
(*   - A request of a page is sent again when its answer is lost           *)
(*     (request() in lib/api.ts), also while the first one is running.     *)
(*   - The code also earns points and exchanges them for sessions, but     *)
(*     neither ever commits: award-points and redeem-portal (loyalty.py)   *)
(*     write a time with a zone to a column without, which the database    *)
(*     driver refuses.                                                     *)
(***************************************************************************)
EXTENDS Integers, FiniteSets

CONSTANTS
    Voucher, Token, Session,  \* ids of rows
    Redeemer,    \* redemptions served at once
    Clerk,       \* requests of the pages served at once
    Account,     \* the loyalty account
    Campaign,    \* the campaign
    Points,      \* points of the account at the start
    Reward,      \* points of a reward (payload.minutes)
    Retries,     \* how often request() repeats a call
    MaxCalls,    \* bound: buttons pressed on the pages
    MaxCrashes,  \* bound: restarts of the process
    None

Credit == Voucher \cup Token
Row    == Credit \cup {Account, Campaign}

ASSUME RedemptionAssumption ==
    /\ Points \in Nat /\ Reward \in Nat \ {0}
    /\ Retries \in Nat /\ MaxCalls \in Nat /\ MaxCrashes \in Nat
    /\ Account \notin Credit /\ Campaign \notin Credit \cup {Account}
    /\ Voucher \cap Token = {} /\ None \notin Row

VARIABLES
    \* Database, as committed
    voucher,    \* vouchers.status; "none": no such row
    suspended,  \* the vouchers with is_suspended
    token,      \* "fresh" or "redeemed" (reward_tokens.redeemed)
    made,       \* how many tokens campaigns, rewards and compensations made
    balance,    \* loyalty_accounts.points_balance
    campaign,   \* campaigns.status
    sess,       \* sessions.status
    by,         \* the credit that bought the session
    \* Handlers in progress
    rd,         \* redemptions
    call,       \* requests of the pages, with the client that waits for each
    \* The page
    modal,
    pressed, crashes,
    raced,      \* history: the rows whose handlers overlapped
    cut         \* history: the rows whose handlers a crash cut off

rows  == <<voucher, suspended, token, made, balance, campaign>>
access == <<sess, by>>
ghosts == <<raced, cut>>
vars  == <<rows, access, rd, call, modal, pressed, crashes, ghosts>>

-----------------------------------------------------------------------------
(* Types                                                                   *)

Modal == {"none", "generate", "send", "sent", "create1", "create2", "create3",
          "tokens", "compensate"}
Origin    == {"launch", "reward", "compensate"}
VoucherOp == {"suspend", "unsuspend", "void"}
Op        == VoucherOp \cup Origin \cup {"generate", "create"}

RdState   == [pc : {"idle", "checked", "created", "activated"},
              credit : Credit \cup {None}, session : Session \cup {None},
              link : BOOLEAN]
CallState == [pc : {"idle", "asked", "loaded", "answered", "lost"}, op : Op,
              on : Row \cup {None}, client : BOOLEAN,
              tries : 0..Retries, ok : BOOLEAN, seen : Int]

RdIdle   == [pc |-> "idle", credit |-> None, session |-> None, link |-> FALSE]
CallIdle == [pc |-> "idle", op |-> "void", on |-> None, client |-> FALSE,
             tries |-> 0, ok |-> FALSE, seen |-> 0]

TypeOK ==
    /\ voucher \in [Voucher -> {"none", "unused", "used", "expired"}]
    /\ suspended \subseteq Voucher
    /\ token \in [Token -> {"none", "fresh", "redeemed"}]
    /\ made \in [Origin -> Nat]
    /\ balance \in Int
    /\ campaign \in {"none", "draft", "launched"}
    /\ sess \in [Session -> {"none", "pending", "active"}]
    /\ by \in [Session -> Credit \cup {None}]
    /\ rd \in [Redeemer -> RdState]
    /\ call \in [Clerk -> CallState]
    /\ modal \in Modal
    /\ pressed \in 0..MaxCalls /\ crashes \in 0..MaxCrashes
    /\ raced \subseteq Row
    /\ cut \subseteq Row

\* A new ISP, or one with vouchers and a campaign in preparation.
Init ==
    /\ \/ voucher = [v \in Voucher |-> "none"] /\ suspended = {} /\ campaign = "none"
       \/ /\ voucher = [v \in Voucher |-> "unused"] /\ campaign = "draft"
          /\ suspended \in SUBSET Voucher
    /\ token = [t \in Token |-> "none"]
    /\ made = [o \in Origin |-> 0]
    /\ balance = Points
    /\ sess = [s \in Session |-> "none"]
    /\ by = [s \in Session |-> None]
    /\ rd = [r \in Redeemer |-> RdIdle]
    /\ call = [c \in Clerk |-> CallIdle]
    /\ modal = "none"
    /\ pressed = 0 /\ crashes = 0 /\ raced = {} /\ cut = {}

\* The handlers that hold row x in memory.
Holding(x) ==
    {r \in Redeemer : rd[r].pc # "idle" /\ rd[r].credit = x}
      \cup {c \in Clerk : call[c].pc = "loaded" /\ call[c].on = x}

\* A handler loads row x.
Touch(x) ==
    /\ raced' = IF Holding(x) = {} THEN raced ELSE raced \cup {x}
    /\ UNCHANGED cut

-----------------------------------------------------------------------------
(* Redemption: vouchers.py redeem, reward_tokens.py redeem and the link of *)
(* portal.py.                                                              *)

\* Mutant: only the stored expiry refuses a voucher.
NotExpired(x) ==
    \/ x \in Voucher /\ voucher[x] \in {"unused", "used"} /\ x \notin suspended
    \/ x \in Token /\ token[x] = "fresh"

\* The checks on the row that was just read; what expired by date is refused
\* like what is no longer there.
Redeemable(x) ==
    \/ x \in Voucher /\ voucher[x] = "unused" /\ x \notin suspended
    \/ x \in Token /\ token[x] = "fresh"

\* A token is redeemed by the endpoint or, link = TRUE, by its portal link.
RedeemCheck(r, x, link) ==
    /\ rd[r].pc = "idle" /\ Redeemable(x)
    /\ link => x \in Token
    /\ rd' = [rd EXCEPT ![r] = [pc |-> "checked", credit |-> x, session |-> None,
                                link |-> link]]
    /\ Touch(x)
    /\ UNCHANGED <<rows, access, call, modal, pressed, crashes>>

\* Mutant: the token was already committed when the session is refused.
RefusedAfterCommit(r) ==
    /\ rd[r].pc = "checked"
    /\ token' = IF rd[r].credit \in Token /\ ~rd[r].link
                THEN [token EXCEPT ![rd[r].credit] = "redeemed"] ELSE token
    /\ rd' = [rd EXCEPT ![r] = RdIdle]
    /\ UNCHANGED <<voucher, suspended, made, balance, campaign, access, call,
                   modal, pressed, crashes, ghosts>>

\* create_session: the device has a live session, the request ends in an
\* error, and nothing was committed.
RedeemRefused(r) ==
    /\ rd[r].pc = "checked"
    /\ rd' = [rd EXCEPT ![r] = RdIdle]
    /\ UNCHANGED <<rows, access, call, modal, pressed, crashes, ghosts>>

\* create_session commits the session, and with it the token that the endpoint
\* has already marked in memory.
RedeemSession(r, s) ==
    LET x == rd[r].credit IN
    /\ rd[r].pc = "checked" /\ sess[s] = "none"
    /\ sess' = [sess EXCEPT ![s] = "pending"]
    /\ by' = [by EXCEPT ![s] = x]
    /\ token' = IF x \in Token /\ ~rd[r].link THEN [token EXCEPT ![x] = "redeemed"] ELSE token
    /\ rd' = [rd EXCEPT ![r].pc = "created", ![r].session = s]
    /\ UNCHANGED <<voucher, suspended, made, balance, campaign, call, modal,
                   pressed, crashes, ghosts>>

\* activate_session: an update with its own commit.
RedeemActivate(r) ==
    /\ rd[r].pc = "created"
    /\ sess' = [sess EXCEPT ![rd[r].session] = "active"]
    /\ rd' = [rd EXCEPT ![r].pc = "activated"]
    /\ UNCHANGED <<rows, by, call, modal, pressed, crashes, ghosts>>

\* The last commit marks the credit.
Spend(r) ==
    LET x == rd[r].credit IN
    /\ voucher' = IF x \in Voucher THEN [voucher EXCEPT ![x] = "used"] ELSE voucher
    /\ token' = IF x \in Token THEN [token EXCEPT ![x] = "redeemed"] ELSE token

RedeemEnd(r) ==
    /\ rd[r].pc = "activated"
    /\ Spend(r)
    /\ rd' = [rd EXCEPT ![r] = RdIdle]
    /\ UNCHANGED <<suspended, made, balance, campaign, access, call, modal, pressed,
                   crashes, ghosts>>

-----------------------------------------------------------------------------
(* What the pages offer.                                                   *)

\* The buttons of a voucher's row.
RowButtons(status, isSuspended) ==
    IF status # "unused" THEN {}
    ELSE IF isSuspended THEN {"unsuspend"} ELSE {"suspend", "void"}

\* The list may be as old as the page: a row may show any status the voucher
\* has had, and each was unused once.
VoucherRow(v) ==
    IF voucher[v] = "none" THEN {}
    ELSE UNION {RowButtons("unused", b) : b \in BOOLEAN}

\* "Send" is offered for the points the list shows, and the dialog's button
\* for the reward they cover; points only go down.
SendOffered == Points >= Reward

\* "Launch" on the card of a draft; the card may be old.
LaunchOffered == campaign # "none"

\* "Tokens" on the card of any campaign.
TokensOffered == campaign # "none"

\* "Compensate" in the row of any session, active or in the history.
CompensateOffered == \E s \in Session : sess[s] # "none"

Openable(m) ==
    \/ m \in {"generate", "create1"}
    \/ m = "send" /\ SendOffered
    \/ m = "tokens" /\ TokensOffered
    \/ m = "compensate" /\ CompensateOffered

\* The dialogs open from the lists; a campaign is made in three steps.  They
\* are followed while there is something left to press (MaxCalls).
OpenModal(m) ==
    /\ modal = "none" /\ pressed < MaxCalls
    /\ Openable(m)
    /\ modal' = m
    /\ UNCHANGED <<rows, access, rd, call, pressed, crashes, ghosts>>

WizardStep(from, to) ==
    /\ <<from, to>> \in {<<"create1", "create2">>, <<"create2", "create3">>,
                         <<"create2", "create1">>, <<"create3", "create2">>}
    /\ modal = from /\ modal' = to
    /\ UNCHANGED <<rows, access, rd, call, pressed, crashes, ghosts>>

\* The busy flag of a dialog's button: a call of it that is not answered.
Busy(op) == \E c \in Clerk : call[c].client /\ call[c].op = op

\* The cross, Cancel, and a click outside, except that the dialog of a reward
\* has no outside and keeps Cancel from being pressed while it sends (its cross
\* is there all the time).  A request under way goes on.
CloseModal ==
    /\ modal # "none"
    /\ modal' = "none"
    /\ UNCHANGED <<rows, access, rd, call, pressed, crashes, ghosts>>

\* What can be pressed, and on what.
Pressable(op, x) ==
    CASE op \in VoucherOp   -> x \in Voucher /\ op \in VoucherRow(x)
      [] op = "generate"    -> modal = "generate" /\ x = None
      [] op = "reward"      -> modal = "send" /\ x = Account
      [] op = "create"      -> modal = "create3" /\ x = None
      [] op = "launch"      -> modal = "none" /\ LaunchOffered /\ x = Campaign
      [] op = "compensate"  -> modal = "compensate" /\ x = None
      [] OTHER              -> FALSE

Ask(c, op, x, n) ==
    [CallIdle EXCEPT !.pc = "asked", !.op = op, !.on = x, !.client = TRUE, !.tries = n]

Press(c, op, x) ==
    /\ call[c].pc = "idle" /\ pressed < MaxCalls
    /\ Pressable(op, x)
    /\ op \notin VoucherOp => ~Busy(op)
    /\ call' = [call EXCEPT ![c] = Ask(c, op, x, 0)]
    /\ pressed' = pressed + 1
    /\ UNCHANGED <<rows, access, rd, modal, crashes, ghosts>>

\* request(): no answer, or a 5xx: the call is sent again.  The first one may
\* have been served, may be under way, or may not have arrived.
Resend(c, d) ==
    /\ call[c].client /\ call[c].tries < Retries
    /\ call[d].pc = "idle"
    /\ call' = [call EXCEPT ![d] = Ask(d, call[c].op, call[c].on, call[c].tries + 1),
                            ![c] = IF @.pc \in {"answered", "lost"} THEN CallIdle
                                   ELSE [@ EXCEPT !.client = FALSE]]
    /\ UNCHANGED <<rows, access, rd, modal, pressed, crashes, ghosts>>

\* The last attempt is lost too: an error is shown.  An attempt that was given
\* up may also never reach the server.
GiveUp(c) ==
    /\ \/ call[c].client /\ call[c].tries = Retries
       \/ ~call[c].client /\ call[c].pc = "asked"
    /\ call' = [call EXCEPT ![c] = IF @.pc = "loaded" THEN [@ EXCEPT !.client = FALSE] ELSE CallIdle]
    /\ UNCHANGED <<rows, access, rd, modal, pressed, crashes, ghosts>>

\* The dialog of a reward shows its code; the others close, whichever dialog of
\* the page is open by then.
AfterSuccess(op) ==
    CASE op = "reward"                              -> IF modal = "send" THEN "sent" ELSE modal
      [] op \in {"generate", "create", "compensate"} -> "none"
      [] OTHER                                      -> modal

\* The answer arrives; an error leaves the dialog open.
Receive(c) ==
    /\ call[c].pc = "answered"
    /\ modal' = IF call[c].ok THEN AfterSuccess(call[c].op) ELSE modal
    /\ call' = [call EXCEPT ![c] = CallIdle]
    /\ UNCHANGED <<rows, access, rd, pressed, crashes, ghosts>>

-----------------------------------------------------------------------------
(* The requests of the pages at the server.                                *)

\* Mutant: a reward is taken off the points that the page showed.
SeenByPage(x) == IF x = Account THEN Points ELSE 0

\* What a handler of row x remembers of it for its commit.
Seen(x) == IF x = Account THEN balance ELSE 0

\* Mutant: a campaign is launched whatever its status.
AcceptedAnyStatus(c) ==
    CASE call[c].op = "void"    -> voucher[call[c].on] # "used"
      [] OTHER                  -> TRUE

\* The row is read and checked.
Accepted(c) ==
    CASE call[c].op = "void"    -> voucher[call[c].on] # "used"
      [] call[c].op = "launch"  -> campaign = "draft"
      [] OTHER                  -> TRUE

CallLoad(c) ==
    /\ call[c].pc = "asked"
    /\ IF Accepted(c)
       THEN /\ call' = [call EXCEPT ![c].pc = "loaded", ![c].seen = Seen(call[c].on)]
            /\ IF call[c].on = None THEN UNCHANGED ghosts ELSE Touch(call[c].on)
       ELSE /\ call' = [call EXCEPT ![c] = IF @.client THEN [@ EXCEPT !.pc = "answered"]
                                           ELSE CallIdle]
            /\ UNCHANGED ghosts
    /\ UNCHANGED <<rows, access, rd, modal, pressed, crashes>>

\* generate, suspend, unsuspend
IssueVouchers(c) ==
    /\ call[c].op = "generate"
    /\ \E batch \in SUBSET {v \in Voucher : voucher[v] = "none"} :
          /\ batch # {} \/ \A v \in Voucher : voucher[v] # "none"
          /\ voucher' = [v \in Voucher |-> IF v \in batch THEN "unused" ELSE voucher[v]]
    /\ UNCHANGED <<suspended, token, made, balance, campaign>>

SetSuspended(c) ==
    /\ call[c].op \in {"suspend", "unsuspend"}
    /\ suspended' = IF call[c].op = "suspend" THEN suspended \cup {call[c].on}
                    ELSE suspended \ {call[c].on}
    /\ UNCHANGED <<voucher, token, made, balance, campaign>>

\* Mutant: a voided voucher gets a status of its own.
VoidAsVoided(c) ==
    /\ call[c].op = "void"
    /\ voucher' = [voucher EXCEPT ![call[c].on] = "voided"]
    /\ UNCHANGED <<suspended, token, made, balance, campaign>>

VoidVoucher(c) ==
    /\ call[c].op = "void"
    /\ voucher' = [voucher EXCEPT ![call[c].on] = "expired"]
    /\ UNCHANGED <<suspended, token, made, balance, campaign>>

\* A token: when the pool is used up the further ones are only counted.
NewToken(op) ==
    /\ made' = [made EXCEPT ![op] = @ + 1]
    /\ \/ \E t \in Token : token[t] = "none" /\ token' = [token EXCEPT ![t] = "fresh"]
       \/ (\A t \in Token : token[t] # "none") /\ UNCHANGED token

\* send-reward: the balance is not looked at.
SendReward(c) ==
    /\ call[c].op = "reward" /\ NewToken("reward")
    /\ balance' = call[c].seen - Reward
    /\ UNCHANGED <<voucher, suspended, campaign>>

Compensate(c) ==
    /\ call[c].op = "compensate" /\ NewToken("compensate")
    /\ UNCHANGED <<voucher, suspended, balance, campaign>>

\* One token stands for the campaign's whole quantity.
LaunchCampaign(c) ==
    /\ call[c].op = "launch" /\ NewToken("launch")
    /\ campaign' = "launched"
    /\ UNCHANGED <<voucher, suspended, balance>>

\* A second campaign of the same dialog is not followed.
CreateCampaign(c) ==
    /\ call[c].op = "create"
    /\ campaign' = IF campaign = "none" THEN "draft" ELSE campaign
    /\ UNCHANGED <<voucher, suspended, token, made, balance>>

CallCommit(c) ==
    /\ call[c].pc = "loaded"
    /\ \/ IssueVouchers(c) \/ SetSuspended(c) \/ VoidVoucher(c)
       \/ SendReward(c) \/ Compensate(c) \/ CreateCampaign(c) \/ LaunchCampaign(c)
    /\ call' = [call EXCEPT ![c] = IF @.client THEN [@ EXCEPT !.pc = "answered", !.ok = TRUE]
                                   ELSE CallIdle]
    /\ UNCHANGED <<access, rd, modal, pressed, crashes, ghosts>>

-----------------------------------------------------------------------------

\* The process dies; what was committed stays, the pages wait in vain.
Crash ==
    /\ crashes < MaxCrashes
    /\ \E r \in Redeemer : rd[r].pc # "idle"
    /\ crashes' = crashes + 1
    /\ cut' = cut \cup {x \in Row : Holding(x) # {}}
    /\ rd' = [r \in Redeemer |-> RdIdle]
    /\ call' = [c \in Clerk |-> IF call[c].client THEN [call[c] EXCEPT !.pc = "lost"]
                                ELSE CallIdle]
    /\ UNCHANGED <<rows, access, modal, pressed, raced>>

Redeem(r) ==
    \/ \E x \in Credit, link \in BOOLEAN : RedeemCheck(r, x, link)
    \/ RedeemRefused(r) \/ RedeemActivate(r) \/ RedeemEnd(r)
    \/ \E s \in Session : RedeemSession(r, s)

Serve(c) == CallLoad(c) \/ CallCommit(c)

Page ==
    \/ \E m \in Modal : OpenModal(m)
    \/ \E from, to \in Modal : WizardStep(from, to)
    \/ CloseModal
    \/ \E c \in Clerk :
          \/ \E op \in Op, x \in Row \cup {None} : Press(c, op, x)
          \/ \E d \in Clerk : Resend(c, d)
          \/ GiveUp(c) \/ Receive(c)

Next ==
    \/ \E r \in Redeemer : Redeem(r)
    \/ \E c \in Clerk : Serve(c)
    \/ Page \/ Crash

Spec == Init /\ [][Next]_vars

-----------------------------------------------------------------------------
(* Properties.  The code has no lock: raced and cut say of which rows the  *)
(* handlers overlapped or were cut off, and what a property excepts there  *)
(* it does not promise.                                                    *)

Bought(x) == {s \in Session : by[s] = x}

\* A voucher or a token buys one session in its life, however the staff
\* suspends, voids and repeats requests in between, and although the code
\* marks it only after two commits of the session.
SpentOnce == \A x \in (Voucher \cup Token) \ (raced \cup cut) : Cardinality(Bought(x)) <= 1

\* A voucher or token that is spent, with no handler at work on it, has given
\* its customer an active session: a refusal or an error in the middle of
\* a redemption spends nothing.  A crash can cost a token, which is committed
\* with the session (reward_tokens.py), never a voucher.
SpentIsServed ==
    \A x \in Voucher \cup (Token \ cut) :
        /\ Holding(x) = {}
        /\ IF x \in Voucher THEN voucher[x] = "used" ELSE token[x] = "redeemed"
        => \E s \in Bought(x) : sess[s] = "active"

\* The account's points are what it had less what its rewards cost, repeated
\* requests and crashes included; requests that overlap may make a reward for
\* nothing, and never take more than its price.
PointsAddUp ==
    LET due == Points - Reward * made["reward"] IN
    /\ balance >= due
    /\ Account \notin raced => balance = due

\* A campaign's tokens are made once, though the page repeats a launch whose
\* answer was lost, unless the two launches overlap.
LaunchedOnce == Campaign \notin raced => made["launch"] <= 1

=============================================================================
