--------------------------- MODULE HotspotPayment ---------------------------
(***************************************************************************)
(* The hotspot sale of WiBill, from the portal's "pay" button to the end   *)
(* of the purchased time, for one tenant:                                  *)
(*   - POST /portal/{slug}/sessions and POST /mpesa/pay/session send an    *)
(*     M-Pesa prompt (an STK push) to the customer's phone;                *)
(*   - the customer answers it and Daraja posts a callback, which may be   *)
(*     lost, late or repeated;                                             *)
(*   - the callback handler activates the session and adds a user to the   *)
(*     MikroTik router through the bridge;                                 *)
(*   - the expiry job, the dashboard's "terminate" and the lock of an      *)
(*     overdue tenant take the access away.                                *)
(* The backend is one asyncio process: a handler runs undisturbed from one *)
(* await to the next, so each handler is one action per stretch of code    *)
(* between the awaits at which another handler may be observed.            *)
(***************************************************************************)
EXTENDS Naturals

CONSTANTS
    Device,        \* customers' devices, told apart by their MAC address
    Placeholder,   \* devices that report no MAC: all share 00:00:00:00:00:00
    MacForms,      \* how a request may spell a MAC: "upper", "lower"
    Session,       \* ids of rows of table sessions (one tenant)
    Txn,           \* ids of rows of table mpesa_transactions
    Request,       \* payment requests the backend may be serving at once
    Callback,      \* Daraja callbacks the backend may be serving at once
    DashboardPay,  \* TRUE: the operator also uses POST /mpesa/pay/session
    BridgeFaults,  \* TRUE: a call to the router bridge may fail
    MaxDeliveries, \* bound: callbacks Daraja posts for one transaction
    MaxCrashes,    \* bound: crashes of the backend process
    None

ASSUME PaymentAssumption ==
    /\ Placeholder \subseteq Device
    /\ MacForms \subseteq {"upper", "lower"}
    /\ DashboardPay \in BOOLEAN
    /\ BridgeFaults \in BOOLEAN
    /\ MaxDeliveries \in Nat
    /\ MaxCrashes \in Nat
    /\ None \notin Device \cup Session \cup Txn

VARIABLES
    \* Database, as committed
    status,     \* sessions.status; "none": the row does not exist yet
    owner,      \* sessions.mac_address
    due,        \* the sessions whose expires_at has passed
    ledger,     \* transactions.status of the session's dashboard transaction
    receipt,    \* transactions.mpesa_receipt, named by the M-Pesa transaction
    mpesa,      \* mpesa_transactions.status; "none": no committed row
    ref,        \* mpesa_transactions.reference_id: the session paid for
    processed,  \* the M-Pesa transactions with is_processed set
    \* Outside the database
    phone,      \* the customer's phone: the prompt of each transaction
    deliveries, \* callbacks Daraja has posted for each transaction
    router,     \* the sessions that have a hotspot user on the router
    \* Handlers in progress
    req, cb, job, desk,
    crashes

database == <<status, owner, due, ledger, receipt, mpesa, ref, processed>>
outside  == <<phone, deliveries, router>>
handlers == <<req, cb, job, desk>>
vars     == <<database, outside, handlers, crashes>>

-----------------------------------------------------------------------------
(* Types                                                                   *)

Live    == {"pending_payment", "active"}
Served  == {"active", "expired", "disconnected", "terminated"}
Status  == {"none", "pending_payment", "failed"} \cup Served
Answer  == {"paid", "declined"}

ReqState == [pc   : {"idle", "checked", "inserted", "accepted", "refused"},
             kind : {"portal", "dashboard"},
             dev  : Device \cup {None},
             sess : Session \cup {None},
             txn  : Txn \cup {None}]

CbState  == [pc     : {"idle", "begun", "provision", "commit"},
             txn    : Txn \cup {None},
             loaded : Status,      \* session.status as the handler read it
             booked : BOOLEAN]     \* a dashboard transaction was found

ReqIdle  == [pc |-> "idle", kind |-> "portal", dev |-> None, sess |-> None, txn |-> None]
CbIdle   == [pc |-> "idle", txn |-> None, loaded |-> "none", booked |-> FALSE]
JobIdle  == [todo |-> {}, done |-> {}]
DeskIdle == [targets |-> {}, to |-> "disconnected"]

TypeOK ==
    /\ status \in [Session -> Status]
    /\ owner \in [Session -> Device \cup {None}]
    /\ due \subseteq Session
    /\ ledger \in [Session -> {"none", "pending", "success"}]
    /\ receipt \in [Session -> Txn \cup {None}]
    /\ mpesa \in [Txn -> {"none", "processing", "success", "failed"}]
    /\ ref \in [Txn -> Session \cup {None}]
    /\ processed \subseteq Txn
    /\ phone \in [Txn -> {"none", "prompted"} \cup Answer]
    /\ deliveries \in [Txn -> 0..MaxDeliveries]
    /\ router \subseteq Session
    /\ req \in [Request -> ReqState]
    /\ cb \in [Callback -> CbState]
    /\ job \in [todo : SUBSET Session, done : SUBSET Session]
    /\ desk \in [targets : SUBSET Session, to : {"disconnected", "terminated"}]
    /\ crashes \in 0..MaxCrashes

Init ==
    /\ status = [s \in Session |-> "none"]
    /\ owner = [s \in Session |-> None]
    /\ due = {}
    /\ ledger = [s \in Session |-> "none"]
    /\ receipt = [s \in Session |-> None]
    /\ mpesa = [t \in Txn |-> "none"]
    /\ ref = [t \in Txn |-> None]
    /\ processed = {}
    /\ phone = [t \in Txn |-> "none"]
    /\ deliveries = [t \in Txn |-> 0]
    /\ router = {}
    /\ req = [r \in Request |-> ReqIdle]
    /\ cb = [c \in Callback |-> CbIdle]
    /\ job = JobIdle
    /\ desk = DeskIdle
    /\ crashes = 0

-----------------------------------------------------------------------------
(* The router bridge.                                                      *)

\* POST /users/create: the user is on the router afterwards, also when it was
\* there before.  A fault is only logged by the callers: nothing was done, or
\* it was done and the answer was lost.
AfterCreateUser(s) ==
    {router \cup {s}} \cup (IF BridgeFaults THEN {router} ELSE {})

\* POST /users/remove-by-tag: no user of the session is left.
AfterRemoveUser(s) ==
    {router \ {s}} \cup (IF BridgeFaults THEN {router} ELSE {})

-----------------------------------------------------------------------------
(* Selling a session: create_session_with_payment.                         *)

\* Mutant of BlocksDevice: an unpaid session does not block its device.
OnlyActiveBlocks(s) == status[s] = "active"

BlocksDevice(s) == status[s] \in Live

\* create_session looks for a live session of the same MAC.  Rows hold the
\* upper-case form, the query compares the form of the request, and the
\* placeholder is not looked up at all.
DeviceIsFree(d, form) ==
    \/ d \in Placeholder
    \/ form = "lower"
    \/ ~ \E s \in Session : owner[s] = d /\ BlocksDevice(s)

CheckDevice(r, d) ==
    /\ req[r].pc = "idle"
    /\ \E form \in MacForms : DeviceIsFree(d, form)
    /\ req' = [req EXCEPT ![r] = [ReqIdle EXCEPT !.pc = "checked", !.dev = d]]
    /\ UNCHANGED <<database, outside, cb, job, desk, crashes>>

InsertSession(r, s) ==
    /\ req[r].pc = "checked"
    /\ status[s] = "none"
    /\ status' = [status EXCEPT ![s] = "pending_payment"]
    /\ owner' = [owner EXCEPT ![s] = req[r].dev]
    /\ req' = [req EXCEPT ![r].pc = "inserted", ![r].sess = s]
    /\ UNCHANGED <<due, ledger, receipt, mpesa, ref, processed, outside,
                   cb, job, desk, crashes>>

\* POST /mpesa/pay/session prompts for any session the caller names, whatever
\* its status.
PayForSession(r, s) ==
    /\ DashboardPay
    /\ req[r].pc = "idle"
    /\ status[s] # "none"
    /\ req' = [req EXCEPT ![r] =
                  [ReqIdle EXCEPT !.pc = "inserted", !.kind = "dashboard", !.sess = s]]
    /\ UNCHANGED <<database, outside, cb, job, desk, crashes>>

\* No M-Pesa configuration, or not verified: the exception rolls back the
\* dashboard transaction, the session was committed before.
PushUnconfigured(r) ==
    /\ req[r].pc = "inserted"
    /\ req' = [req EXCEPT ![r] = ReqIdle]
    /\ UNCHANGED <<database, outside, cb, job, desk, crashes>>

Unused(t) ==
    /\ mpesa[t] = "none"
    /\ phone[t] = "none"
    /\ \A q \in Request : req[q].txn # t

\* The STK push.  Daraja accepts it, refuses it, or accepts it and the answer
\* does not arrive: the prompt is on the phone and the backend has no
\* CheckoutRequestID for it.
PushPrompt(r, t) ==
    /\ req[r].pc = "inserted"
    /\ Unused(t)
    /\ \/ /\ phone' = [phone EXCEPT ![t] = "prompted"]
          /\ \E pc \in {"accepted", "refused"} :
                req' = [req EXCEPT ![r].pc = pc, ![r].txn = t]
       \/ /\ req' = [req EXCEPT ![r].pc = "refused", ![r].txn = t]
          /\ UNCHANGED phone
    /\ UNCHANGED <<database, deliveries, router, cb, job, desk, crashes>>

\* Mutant of BookSale: the dashboard transaction is not in the commit.
BookNothing(r) == ledger

\* The dashboard transaction that create_session_with_payment had added.
BookSale(r) ==
    IF req[r].kind = "portal"
    THEN [ledger EXCEPT ![req[r].sess] = "pending"] ELSE ledger

\* initiate_session_payment commits the M-Pesa transaction and, with it, the
\* dashboard transaction.
CommitPush(r) ==
    /\ req[r].pc \in {"accepted", "refused"}
    /\ mpesa' = [mpesa EXCEPT ![req[r].txn] =
                    IF req[r].pc = "accepted" THEN "processing" ELSE "failed"]
    /\ ref' = [ref EXCEPT ![req[r].txn] = req[r].sess]
    /\ ledger' = BookSale(r)
    /\ req' = [req EXCEPT ![r] = ReqIdle]
    /\ UNCHANGED <<status, owner, due, receipt, processed, outside,
                   cb, job, desk, crashes>>

-----------------------------------------------------------------------------
(* The customer and Daraja.                                                *)

\* The customer enters the PIN, refuses, or lets the prompt time out.
AnswerPrompt(t) ==
    /\ phone[t] = "prompted"
    /\ \E a \in Answer : phone' = [phone EXCEPT ![t] = a]
    /\ UNCHANGED <<database, deliveries, router, handlers, crashes>>

\* Daraja may post the callback of an answered prompt, and post it again.
\* Nothing makes it do so: a callback may be lost.
CanDeliver(t) == phone[t] \in Answer /\ deliveries[t] < MaxDeliveries

Deliver(t) ==
    /\ CanDeliver(t)
    /\ deliveries' = [deliveries EXCEPT ![t] = @ + 1]

-----------------------------------------------------------------------------
(* The callback: process_callback and _handle_session_paid.                *)

\* Mutant of AwaitsResult: is_processed is not looked at.
HasCheckoutId(t) == mpesa[t] = "processing" \/ t \in processed

\* A committed row has the CheckoutRequestID and is not processed: only a push
\* that Daraja accepted leaves an id, and processing takes it out of
\* "processing".
AwaitsResult(t) == mpesa[t] = "processing"

\* No row has the CheckoutRequestID, or the row is already processed: nothing
\* is done, and Daraja is told "Accepted" all the same.
CallbackIgnored(t) ==
    /\ Deliver(t)
    /\ ~ AwaitsResult(t)
    /\ UNCHANGED <<database, phone, router, handlers, crashes>>

CallbackBegin(c, t) ==
    /\ cb[c].pc = "idle"
    /\ Deliver(t)
    /\ AwaitsResult(t)
    /\ cb' = [cb EXCEPT ![c] = [CbIdle EXCEPT !.pc = "begun", !.txn = t]]
    /\ UNCHANGED <<database, phone, router, req, job, desk, crashes>>

\* Mutant of AfterLoad: the result code is not looked at.
AlwaysProvision(t) == "provision"

\* ResultCode "0" goes on to the router, any other straight to the commit.
AfterLoad(t) == IF phone[t] = "paid" THEN "provision" ELSE "commit"

\* The handler reads the session and its dashboard transaction.
CallbackLoad(c) ==
    LET t == cb[c].txn
    IN
    /\ cb[c].pc = "begun"
    /\ cb' = [cb EXCEPT ![c].pc = AfterLoad(t),
                        ![c].loaded = status[ref[t]],
                        ![c].booked = ledger[ref[t]] # "none"]
    /\ UNCHANGED <<database, outside, req, job, desk, crashes>>

CallbackProvision(c) ==
    /\ cb[c].pc = "provision"
    /\ router' \in AfterCreateUser(ref[cb[c].txn])
    /\ cb' = [cb EXCEPT ![c].pc = "commit"]
    /\ UNCHANGED <<database, phone, deliveries, req, job, desk, crashes>>

\* Mutant of TxnResult: a payment counts only when the router took the user.
ProvisionedResult(t) ==
    IF phone[t] = "paid" /\ ref[t] \in router THEN "success" ELSE "failed"

TxnResult(t) == IF phone[t] = "paid" THEN "success" ELSE "failed"

\* Mutants of SessionResult: a payment that comes after expires_at is turned
\* down; the result code is not looked at; the session is given the status of
\* the transaction.
InTimeResult(t)  == IF phone[t] = "paid" /\ ref[t] \notin due THEN "active" ELSE "failed"
AlwaysActive(t)  == "active"
StatusMixedUp(t) == TxnResult(t)

SessionResult(t) == IF phone[t] = "paid" THEN "active" ELSE "failed"

\* Mutant of BooksReceipt: a failed payment is booked as well.
BooksAnyResult(c) == cb[c].booked

BooksReceipt(c) == cb[c].booked /\ phone[cb[c].txn] = "paid"

\* One commit writes everything the handler changed.  The ORM leaves a column
\* alone whose new value equals the one it had loaded.
CallbackCommit(c) ==
    LET t == cb[c].txn
        s == ref[t]
    IN
    /\ cb[c].pc = "commit"
    /\ mpesa' = [mpesa EXCEPT ![t] = TxnResult(t)]
    /\ processed' = processed \cup {t}
    /\ status' = IF cb[c].loaded = SessionResult(t) THEN status
                 ELSE [status EXCEPT ![s] = SessionResult(t)]
    /\ IF BooksReceipt(c)
       THEN /\ ledger' = [ledger EXCEPT ![s] = "success"]
            /\ receipt' = [receipt EXCEPT ![s] = t]
       ELSE UNCHANGED <<ledger, receipt>>
    /\ cb' = [cb EXCEPT ![c] = CbIdle]
    /\ UNCHANGED <<owner, due, ref, outside, req, job, desk, crashes>>

\* Any exception rolls everything back except what the router has done; the
\* answer to Daraja is still "Accepted".
CallbackRollback(c) ==
    /\ cb[c].pc # "idle"
    /\ cb' = [cb EXCEPT ![c] = CbIdle]
    /\ UNCHANGED <<database, outside, req, job, desk, crashes>>

-----------------------------------------------------------------------------
(* The end of a session.                                                   *)

\* expires_at, set when the session is created, passes.
Elapse(s) ==
    /\ status[s] # "none"
    /\ s \notin due
    /\ due' = due \cup {s}
    /\ UNCHANGED <<status, owner, ledger, receipt, mpesa, ref, processed,
                   outside, handlers, crashes>>

\* Mutants of IsOver: the query does not look at expires_at; it looks only at
\* the sessions the router still knows.
IsActive(s)       == status[s] = "active"
IsOverOnRouter(s) == status[s] = "active" /\ s \in due /\ s \in router

IsOver(s) == status[s] = "active" /\ s \in due

ExpirySelect ==
    LET over == {s \in Session : IsOver(s)}
    IN
    /\ job = JobIdle
    /\ over # {}
    /\ job' = [job EXCEPT !.todo = over]
    /\ UNCHANGED <<database, outside, req, cb, desk, crashes>>

\* A failed removal is logged and the session is marked all the same.
ExpiryRemove(s) ==
    /\ s \in job.todo
    /\ router' \in AfterRemoveUser(s)
    /\ job' = [todo |-> job.todo \ {s}, done |-> job.done \cup {s}]
    /\ UNCHANGED <<database, phone, deliveries, req, cb, desk, crashes>>

\* The single commit at the end of the sweep: the rows were loaded "active",
\* so "expired" is written whatever they hold by now.
ExpiryCommit ==
    /\ job.todo = {}
    /\ job.done # {}
    /\ status' = [s \in Session |-> IF s \in job.done THEN "expired" ELSE status[s]]
    /\ job' = JobIdle
    /\ UNCHANGED <<owner, due, ledger, receipt, mpesa, ref, processed,
                   outside, req, cb, desk, crashes>>

\* The operator's "terminate" of one active session, and the sweep over the
\* active sessions when the tenant is locked.  Neither tells the router.
TerminateLoad(s) ==
    /\ desk = DeskIdle
    /\ status[s] = "active"
    /\ desk' = [targets |-> {s}, to |-> "disconnected"]
    /\ UNCHANGED <<database, outside, req, cb, job, crashes>>

LockLoad ==
    LET active == {s \in Session : status[s] = "active"}
    IN
    /\ desk = DeskIdle
    /\ active # {}
    /\ desk' = [targets |-> active, to |-> "terminated"]
    /\ UNCHANGED <<database, outside, req, cb, job, crashes>>

DeskCommit ==
    /\ desk # DeskIdle
    /\ status' = [s \in Session |-> IF s \in desk.targets THEN desk.to ELSE status[s]]
    /\ desk' = DeskIdle
    /\ UNCHANGED <<owner, due, ledger, receipt, mpesa, ref, processed,
                   outside, req, cb, job, crashes>>

\* The process dies: every handler in progress is lost with its open
\* database transaction.  Daraja, the phone and the router go on.
Crash ==
    /\ crashes < MaxCrashes
    /\ crashes' = crashes + 1
    /\ req' = [r \in Request |-> ReqIdle]
    /\ cb' = [c \in Callback |-> CbIdle]
    /\ job' = JobIdle
    /\ desk' = DeskIdle
    /\ UNCHANGED <<database, outside>>

-----------------------------------------------------------------------------
RequestStep(r) ==
    \/ \E s \in Session : InsertSession(r, s)
    \/ \E t \in Txn : PushPrompt(r, t)
    \/ PushUnconfigured(r)
    \/ CommitPush(r)

RequestNext(r) ==
    \/ \E d \in Device : CheckDevice(r, d)
    \/ \E s \in Session : PayForSession(r, s)
    \/ RequestStep(r)

CallbackStep(c) ==
    CallbackLoad(c) \/ CallbackProvision(c) \/ CallbackCommit(c)

CallbackNext(c) ==
    \/ \E t \in Txn : CallbackBegin(c, t)
    \/ CallbackStep(c)
    \/ CallbackRollback(c)

ExpiryNext ==
    \/ ExpirySelect
    \/ \E s \in Session : ExpiryRemove(s)
    \/ ExpiryCommit

DeskNext ==
    \/ \E s \in Session : TerminateLoad(s)
    \/ LockLoad
    \/ DeskCommit

Environment ==
    \/ \E t \in Txn : AnswerPrompt(t) \/ CallbackIgnored(t)
    \/ \E s \in Session : Elapse(s)
    \/ Crash

Next ==
    \/ \E r \in Request : RequestNext(r)
    \/ \E c \in Callback : CallbackNext(c)
    \/ ExpiryNext
    \/ DeskNext
    \/ Environment

Spec == Init /\ [][Next]_vars

\* The scheduler starts the expiry job every minute and the event loop runs a
\* started job to its end; nothing else is assumed to happen.
FairSpec == Spec /\ WF_vars(ExpiryNext)

\* The most the backend and the phone can be asked for: every started handler
\* runs to its end and every prompt is answered or times out.
EventLoopSpec ==
    /\ FairSpec
    /\ \A r \in Request : WF_vars(RequestStep(r))
    /\ \A c \in Callback : WF_vars(CallbackStep(c))
    /\ \A t \in Txn : WF_vars(AnswerPrompt(t))

-----------------------------------------------------------------------------
(* Properties.                                                             *)

Paid(s) == \E t \in Txn : ref[t] = s /\ phone[t] = "paid"

\* Nobody gets service for nothing: a session that has been active, or that
\* has a user on the router, was paid for on the customer's phone, whatever
\* the order in which requests, callbacks, crashes and the expiry job ran.
NoServiceWithoutPayment ==
    \A s \in Session : status[s] \in Served \/ s \in router => Paid(s)

\* The sale implements PaidAccess: every step of every handler, seen as a
\* change of the paid sessions and of those with access, is a payment, the
\* grant of access to one paid session, a loss of access, or nothing.
PA == INSTANCE PaidAccess WITH
        paid   <- {s \in Session : Paid(s)},
        access <- {s \in Session : status[s] = "active" \/ s \in router}

ImplementsPaidAccess == PA!Spec

\* The sale implements MpesaPayment: whatever requests, repeated callbacks and
\* crashes do, a transaction is committed once, has the outcome of the phone it
\* was sent to, and keeps it.
MP == INSTANCE MpesaPayment WITH prompt <- phone, outcome <- mpesa

ImplementsMpesaPayment == MP!Spec

\* A receipt on the dashboard ledger is that of a successful M-Pesa
\* transaction of the same session, and a ledger entry is "success" exactly
\* when it carries one.
ReceiptsAreReal ==
    \A s \in Session :
        /\ ledger[s] = "success" <=> receipt[s] # None
        /\ receipt[s] # None =>
              ref[receipt[s]] = s /\ mpesa[receipt[s]] = "success"

\* t is the only prompt the backend has committed for its session.
OnlyPrompt(t) == \A u \in Txn : ref[u] = ref[t] => u = t

\* A session's one payment is the receipt of its ledger entry, when it has one.
PaymentIsBooked ==
    \A t \in Txn :
        mpesa[t] = "success" /\ OnlyPrompt(t) /\ ledger[ref[t]] # "none"
        => receipt[ref[t]] = t

\* The ledger entry of a portal sale is committed with the sale's transaction,
\* by a function that does not know of it, and stays.
SaleIsEntered ==
    [][/\ \A r \in Request :
            /\ req[r].kind = "portal"
            /\ req[r].pc \in {"accepted", "refused"}
            /\ ref'[req[r].txn] # ref[req[r].txn]
            => ledger'[req[r].sess] # "none"
       /\ \A s \in Session : ledger[s] # "none" => ledger'[s] # "none"]_vars

\* No revenue of the portal is lost between the two tables: every portal sale
\* that is prompted for is in the ledger, which the monthly invoice is computed
\* from, and its payment becomes the entry's receipt, unless the operator
\* prompted for the same session as well.
RevenueIsRecorded == []PaymentIsBooked /\ SaleIsEntered

\* The check of create_session: a device never holds two live sessions.
OneLiveSessionPerDevice ==
    \A s1, s2 \in Session :
        /\ s1 # s2
        /\ status[s1] \in Live
        /\ status[s2] \in Live
        /\ owner[s1] = owner[s2]
        => owner[s1] \in Placeholder

\* Served one request and one callback at a time, the sale implements
\* DeviceLease: a device has one session at a time, and a session that failed,
\* expired or was terminated is never live again, whatever callback comes late.
DL == INSTANCE DeviceLease WITH
        holder <- owner,
        ended  <- {s \in Session : status[s] \notin Live \cup {"none"}}

ImplementsDeviceLease == DL!Spec

\* A session reported "failed" is one no payment went through for, unless it
\* was prompted for twice.
FailedIsUnpaid ==
    \A t \in Txn : mpesa[t] = "success" /\ OnlyPrompt(t) => status[ref[t]] # "failed"

\* An expired session has no user left on the router.
ExpiredIsOffRouter ==
    \A s \in Session : status[s] = "expired" => s \notin router

\* The time a customer bought is not cut short by the expiry job: a user
\* leaves the router, and a session becomes "expired", after expires_at.
NotCutShort ==
    \A s \in Session : status[s] = "expired" \/ s \in job.todo \cup job.done => s \in due

\* The outcome of a processed transaction is final: no repeated callback, late
\* commit or crash changes it.
ProcessedIsFinal ==
    [][\A t \in processed : t \in processed' /\ mpesa'[t] = mpesa[t]]_vars

\* A callback for a transaction that is already processed changes nothing.
DuplicateIsNoOp ==
    [][\A c \in Callback :
          cb[c].txn \in processed /\ CallbackCommit(c) => UNCHANGED database]_vars

\* The expiry job takes every active session whose time is over out of
\* "active".
DueSessionsEnd ==
    \A s \in Session : (status[s] = "active" /\ s \in due) ~> (status[s] # "active")

\* A session does not wait for its payment forever.
PendingIsResolved ==
    \A s \in Session :
        (status[s] = "pending_payment") ~> (status[s] # "pending_payment")
=============================================================================
