-------------------------- MODULE PlatformInvoice --------------------------
(***************************************************************************)
(* What one ISP owes the platform, and how it pays:                        *)
(*   - the scheduler's monthly invoice and daily overdue sweep, which      *)
(*     locks the tenant;                                                   *)
(*   - the administrator's invoice page, whose buttons write the tenant's  *)
(*     label (tenants.invoice_status) and this month's invoice, or fail;   *)
(*   - the ISP's pages: the invoice list with its payment dialog, the      *)
(*     billing page, and the overlay that covers a paused dashboard;       *)
(*   - the M-Pesa callback, which settles the invoice and lifts the lock.  *)
(* A handler holds the rows it loaded while it waits: it writes a column   *)
(* only when the new value differs from the one it loaded (the ORM's unit  *)
(* of work), so each handler keeps what it has seen until it commits.      *)
(***************************************************************************)
EXTENDS Naturals

CONSTANTS
    Today,       \* this month; the earlier ones are 1..Today - 1
    Txn,         \* ids of M-Pesa transactions
    Clerk,       \* administrator's requests and jobs served at once
    MaxDesk,     \* bound: requests of the administrator's page and jobs
    Platform,    \* reference of a payment that names the tenant, no invoice
    None

Month == 1..Today

ASSUME InvoiceAssumption ==
    /\ Today \in Nat \ {0}
    /\ MaxDesk \in Nat
    /\ Platform \notin Month
    /\ None \notin Month \cup Txn \cup {Platform}

VARIABLES
    \* Database, as committed
    inv,      \* invoices.status of each month; "none": no invoice
    past,     \* the months whose invoice is past its due_date
    receipt,  \* invoices.mpesa_receipt, named by its transaction
    locked,   \* tenants.is_locked
    label,    \* tenants.invoice_status
    mpesa,    \* mpesa_transactions.status
    ref,      \* mpesa_transactions.reference_id
    \* Outside
    prompt,   \* the payer's phone
    \* Handlers in progress
    cb, sweep, desk, ops,
    \* Pages
    dialog,   \* the payment dialog of the invoice page
    overlay   \* the paused overlay of the dashboard's layout

debt     == <<inv, past, receipt, locked, label>>
payments == <<mpesa, ref, prompt>>
backend  == <<cb, sweep, desk, ops>>
pages    == <<dialog, overlay>>
vars     == <<debt, payments, backend, pages>>

-----------------------------------------------------------------------------
(* Types                                                                   *)

InvoiceStatus == {"none", "sent", "due", "overdue", "paid"}
Label         == {"active", "pending", "overdue", "paused"}
DeskOp        == {"idle", "markPaid", "create", "monthly",
                  "active", "overdue", "paused"}

CbState      == [pc : {"none", "loaded", "done"},
                 seen : InvoiceStatus, locked : BOOLEAN]
SweepState   == [pc : {"idle", "listed", "loaded"}, list : SUBSET Month,
                 marks : SUBSET Month, locked : BOOLEAN, label : Label]
DeskState    == [op : DeskOp, seen : InvoiceStatus, locked : BOOLEAN, label : Label]
DialogState  == [step : {"closed", "confirm", "phone", "waiting", "success", "failed"},
                 inv : Month \cup {None}, checkout : Txn \cup {None},
                 asked : SUBSET Txn]
OverlayState == [paused : BOOLEAN, state : {"idle", "sent", "completed", "failed"},
                 checkout : Txn \cup {None}]

CbIdle      == [pc |-> "none", seen |-> "none", locked |-> FALSE]
SweepIdle   == [pc |-> "idle", list |-> {}, marks |-> {}, locked |-> FALSE, label |-> "active"]
DeskIdle    == [op |-> "idle", seen |-> "none", locked |-> FALSE, label |-> "active"]
DialogShut  == [step |-> "closed", inv |-> None, checkout |-> None, asked |-> {}]
OverlayOf(l) == [paused |-> l = "paused", state |-> "idle", checkout |-> None]

TypeOK ==
    /\ inv \in [Month -> InvoiceStatus]
    /\ past \subseteq Month
    /\ receipt \in [Month -> Txn \cup {None}]
    /\ locked \in BOOLEAN
    /\ label \in Label
    /\ mpesa \in [Txn -> {"none", "processing", "success", "failed"}]
    /\ ref \in [Txn -> Month \cup {Platform, None}]
    /\ prompt \in [Txn -> {"none", "prompted", "paid", "declined"}]
    /\ cb \in [Txn -> CbState]
    /\ sweep \in SweepState
    /\ desk \in [Clerk -> DeskState]
    /\ ops \in 0..MaxDesk
    /\ dialog \in DialogState
    /\ overlay \in OverlayState

\* Any month may have been invoiced; the earlier due dates have passed.
Init ==
    /\ \E made \in SUBSET Month :
          /\ inv = [m \in Month |-> IF m \in made THEN "sent" ELSE "none"]
          /\ past = made \ {Today}
    /\ receipt = [m \in Month |-> None]
    /\ locked = FALSE
    /\ label = "active"
    /\ mpesa = [t \in Txn |-> "none"]
    /\ ref = [t \in Txn |-> None]
    /\ prompt = [t \in Txn |-> "none"]
    /\ cb = [t \in Txn |-> CbIdle]
    /\ sweep = SweepIdle
    /\ desk = [c \in Clerk |-> DeskIdle]
    /\ ops = 0
    /\ dialog = DialogShut
    /\ overlay = OverlayOf("active")

\* A column after a commit that assigned it `new` having loaded it as `seen`.
Flush(seen, new, current) == IF seen = new THEN current ELSE new

-----------------------------------------------------------------------------
(* Time, the phone and Daraja.                                             *)

\* The calendar: an invoice passes its due date.
DueDatePasses(m) ==
    /\ inv[m] # "none" /\ m \notin past
    /\ past' = past \cup {m}
    /\ UNCHANGED <<inv, receipt, locked, label, payments, backend, pages>>

\* The payer answers the prompt; Daraja posts the outcome, at any time after.
AnswerPrompt(t, a) ==
    /\ prompt[t] = "prompted"
    /\ prompt' = [prompt EXCEPT ![t] = a]
    /\ UNCHANGED <<debt, mpesa, ref, backend, pages>>

-----------------------------------------------------------------------------
(* The callback handler: process_callback, _handle_invoice_paid,           *)
(* process_invoice_payment and unlock_tenant_account.                      *)

\* process_callback finds the row by the CheckoutRequestID, not yet processed.
Finds(t) == cb[t].pc = "none" /\ mpesa[t] = "processing"

\* A declined payment touches the transaction only.
CallbackDeclined(t) ==
    /\ Finds(t) /\ prompt[t] = "declined"
    /\ mpesa' = [mpesa EXCEPT ![t] = "failed"]
    /\ cb' = [cb EXCEPT ![t].pc = "done"]
    /\ UNCHANGED <<debt, ref, prompt, sweep, desk, ops, pages>>

\* Mutant: no payment finds its invoice.
AlwaysRaises(t) ==
    /\ Finds(t) /\ prompt[t] = "paid"
    /\ cb' = [cb EXCEPT ![t].pc = "done"]
    /\ UNCHANGED <<debt, payments, sweep, desk, ops, pages>>

\* The reference of a platform payment is the tenant's id: no invoice has it,
\* process_invoice_payment raises and the handler rolls everything back.
CallbackRaises(t) ==
    /\ Finds(t) /\ prompt[t] = "paid" /\ ref[t] \notin Month
    /\ cb' = [cb EXCEPT ![t].pc = "done"]
    /\ UNCHANGED <<debt, payments, sweep, desk, ops, pages>>

\* Mutant: the result code is not looked at.
AnyResultLoads(t) ==
    /\ Finds(t) /\ prompt[t] \in {"paid", "declined"} /\ ref[t] \in Month
    /\ cb' = [cb EXCEPT ![t] = [pc |-> "loaded", seen |-> inv[ref[t]], locked |-> locked]]
    /\ UNCHANGED <<debt, payments, sweep, desk, ops, pages>>

\* The invoice and the tenant are loaded before anything is written.
CallbackLoads(t) ==
    /\ Finds(t) /\ prompt[t] = "paid" /\ ref[t] \in Month
    /\ cb' = [cb EXCEPT ![t] = [pc |-> "loaded", seen |-> inv[ref[t]], locked |-> locked]]
    /\ UNCHANGED <<debt, payments, sweep, desk, ops, pages>>

\* A paid invoice is left alone.  Otherwise it is settled, and a tenant that
\* was loaded as locked is unlocked and labelled active; one that was not
\* keeps the label it has.
Settle(t) ==
    LET m == ref[t] IN
    IF cb[t].seen = "paid" THEN UNCHANGED <<inv, receipt, locked, label>>
    ELSE /\ inv' = [inv EXCEPT ![m] = "paid"]
         /\ receipt' = [receipt EXCEPT ![m] = t]
         /\ locked' = IF cb[t].locked THEN FALSE ELSE locked
         /\ label' = IF cb[t].locked THEN "active" ELSE label

CallbackCommits(t) ==
    /\ cb[t].pc = "loaded"
    /\ Settle(t)
    /\ mpesa' = [mpesa EXCEPT ![t] = "success"]
    /\ cb' = [cb EXCEPT ![t].pc = "done"]
    /\ UNCHANGED <<past, ref, prompt, sweep, desk, ops, pages>>

-----------------------------------------------------------------------------
(* The daily sweep: check_overdue_invoices and lock_tenant_account.        *)

Unsettled(m) == inv[m] \notin {"none", "paid"}

\* Mutant: the sweep overlooks the invoices it has only sent.
SweepListDue ==
    /\ sweep.pc = "idle"
    /\ LET list == {m \in past : inv[m] \in {"due", "overdue"}} IN
       /\ list # {}
       /\ sweep' = [SweepIdle EXCEPT !.pc = "listed", !.list = list,
                                     !.marks = {m \in list : inv[m] # "overdue"}]
    /\ UNCHANGED <<debt, payments, cb, desk, ops, pages>>

\* The unpaid invoices past their due date; those not yet OVERDUE get marked.
SweepList ==
    /\ sweep.pc = "idle"
    /\ LET list == {m \in past : Unsettled(m)} IN
       /\ list # {}
       /\ sweep' = [SweepIdle EXCEPT !.pc = "listed", !.list = list,
                                     !.marks = {m \in list : inv[m] # "overdue"}]
    /\ UNCHANGED <<debt, payments, cb, desk, ops, pages>>

SweepLoad ==
    /\ sweep.pc = "listed"
    /\ sweep' = [sweep EXCEPT !.pc = "loaded", !.locked = locked, !.label = label]
    /\ UNCHANGED <<debt, payments, cb, desk, ops, pages>>

\* The first invoice of an unlocked tenant: the lock commits with its mark.
SweepLock(m) ==
    /\ sweep.pc = "loaded" /\ ~sweep.locked /\ m \in sweep.list
    /\ inv' = IF m \in sweep.marks THEN [inv EXCEPT ![m] = "overdue"] ELSE inv
    /\ label' = Flush(sweep.label, "overdue", label)
    /\ locked' = TRUE
    /\ sweep' = [sweep EXCEPT !.locked = TRUE, !.label = "overdue", !.marks = @ \ {m}]
    /\ UNCHANGED <<past, receipt, payments, cb, desk, ops, pages>>

\* The last commit writes the other marks, over whatever happened meanwhile.
SweepEnd ==
    /\ sweep.pc = "loaded" /\ sweep.locked
    /\ inv' = [m \in Month |-> IF m \in sweep.marks THEN "overdue" ELSE inv[m]]
    /\ label' = Flush(sweep.label, "overdue", label)
    /\ sweep' = SweepIdle
    /\ UNCHANGED <<past, receipt, locked, payments, cb, desk, ops, pages>>

-----------------------------------------------------------------------------
(* The administrator's page and the monthly job.                           *)

\* The buttons of a row that shows label l.
RowButtons(l) ==
    CASE l = "active"  -> {"overdue"}
      [] l = "pending" -> {"markPaid"}
      [] l = "overdue" -> {"markPaid", "paused", "active"}
      [] l = "paused"  -> {"markPaid", "active"}

\* The page fetches its rows when it is opened and after its own requests: the
\* label it shows may be any the tenant has had.
Offered == UNION {RowButtons(l) : l \in Label} \cup {"create", "monthly"}

\* A request, or the job of the 26th, loads the tenant and this month's
\* invoice.  An invoice that exists is not created again.
DeskBegin(c, op) ==
    /\ desk[c].op = "idle" /\ ops < MaxDesk
    /\ op \in Offered
    /\ op \in {"create", "monthly"} => inv[Today] = "none"
    /\ desk' = [desk EXCEPT ![c] = [op |-> op, seen |-> inv[Today],
                                    locked |-> locked, label |-> label]]
    /\ ops' = ops + 1
    /\ UNCHANGED <<debt, payments, cb, sweep, pages>>

\* The invoice's date columns have no time zone and the driver refuses a time
\* that has one: a transaction that writes such a time to an invoice, a creation
\* by the administrator or mark-paid of a month that is invoiced, is rolled back
\* with what it wrote to the tenant.
DeskRollsBack(c) ==
    /\ \/ desk[c].op = "create"
       \/ desk[c].op = "markPaid" /\ desk[c].seen # "none"
    /\ UNCHANGED <<inv, past, locked, label>>

\* mark-paid of a month without an invoice: tenant active and unlocked.
MarkPaid(c) ==
    /\ desk[c].op = "markPaid" /\ desk[c].seen = "none"
    /\ label' = Flush(desk[c].label, "active", label)
    /\ locked' = Flush(desk[c].locked, FALSE, locked)
    /\ UNCHANGED <<inv, past>>

\* Mutant: the label is written to the invoice without status_map.
SetStatusUnmapped(c) ==
    /\ desk[c].op \in {"active", "overdue", "paused"}
    /\ label' = Flush(desk[c].label, desk[c].op, label)
    /\ inv' = IF desk[c].seen = "none" THEN inv ELSE [inv EXCEPT ![Today] = desk[c].op]
    /\ UNCHANGED <<locked, past>>

\* status: the label, and this month's invoice by status_map; no lock.
SetStatus(c) ==
    LET to == CASE desk[c].op = "active"  -> "paid"
                [] desk[c].op = "overdue" -> "overdue"
                [] desk[c].op = "paused"  -> "due"
                [] OTHER -> "none" IN
    /\ desk[c].op \in {"active", "overdue", "paused"}
    /\ label' = Flush(desk[c].label, desk[c].op, label)
    /\ inv' = IF desk[c].seen = "none" THEN inv
              ELSE [inv EXCEPT ![Today] = Flush(desk[c].seen, to, @)]
    /\ UNCHANGED <<locked, past>>

\* create_monthly_invoice: the unique constraint refuses a second invoice of the
\* month.
CreateInvoice(c) ==
    /\ desk[c].op = "monthly"
    /\ inv' = [inv EXCEPT ![Today] = IF @ = "none" THEN "sent" ELSE @]
    /\ UNCHANGED <<label, locked, past>>

DeskCommit(c) ==
    /\ DeskRollsBack(c) \/ MarkPaid(c) \/ SetStatus(c) \/ CreateInvoice(c)
    /\ desk' = [desk EXCEPT ![c] = DeskIdle]
    /\ UNCHANGED <<receipt, payments, cb, sweep, ops, pages>>

-----------------------------------------------------------------------------
(* Paying: POST /mpesa/pay/invoice and /mpesa/pay/platform-invoice.        *)
(* Neither looks at the invoice's status or at other payments of it.       *)

\* A push that Daraja refused, or accepted while its answer was lost (the prompt
\* is on the phone), is committed as failed, without a CheckoutRequestID.
StkPush(t, r, ok) ==
    /\ mpesa[t] = "none"
    /\ mpesa' = [mpesa EXCEPT ![t] = IF ok THEN "processing" ELSE "failed"]
    /\ \E p \in (IF ok THEN {"prompted"} ELSE {"none", "prompted"}) :
          prompt' = [prompt EXCEPT ![t] = p]
    /\ ref' = [ref EXCEPT ![t] = r]

\* A screen is reachable unless the paused overlay covers the dashboard.
Usable == ~overlay.paused

\* What the overlay offers: the phone form, and "Resend" or "Try again".
PayFormShown == overlay.paused /\ overlay.state = "idle"
ResetShown   == overlay.paused /\ overlay.state \in {"sent", "failed"}

\* The billing page fetches the current invoice when it is opened: it may be
\* showing any invoice there is.
Billed(m) == inv[m] # "none"

\* It offers "Make Payment", or "Pay Next Invoice" for a paid one: its dialog
\* pays the invoice that is shown.
MakePaymentShown(m) == Usable /\ Billed(m)

\* That dialog sends the prompt and does not follow the payment.
BillingPay(t, m, ok) ==
    /\ MakePaymentShown(m)
    /\ StkPush(t, m, ok)
    /\ UNCHANGED <<debt, backend, pages>>

-----------------------------------------------------------------------------
(* The payment dialog.                                                     *)

\* The list of invoices, fetched when the page or its filter changes.  Every
\* invoice is payable when it is made, and the list may be as old as that.
Payable(m) == inv[m] # "none"

\* "Pay" in the row of an invoice.
OpenDialog(m) ==
    /\ Usable /\ dialog.step = "closed" /\ Payable(m)
    /\ dialog' = [DialogShut EXCEPT !.step = "confirm", !.inv = m]
    /\ UNCHANGED <<debt, payments, backend, overlay>>

Continue ==
    /\ dialog.step = "confirm"
    /\ dialog' = [dialog EXCEPT !.step = "phone"]
    /\ UNCHANGED <<debt, payments, backend, overlay>>

Back ==
    /\ dialog.step = "phone"
    /\ dialog' = [dialog EXCEPT !.step = "confirm"]
    /\ UNCHANGED <<debt, payments, backend, overlay>>

\* handleInitiate: the prompt is sent; the dialog waits for its outcome, or
\* stays where it is when the answer is a failure or is lost.
Initiate(t, ok, answered) ==
    /\ dialog.step = "phone"
    /\ StkPush(t, dialog.inv, ok)
    /\ dialog' = IF ok /\ answered THEN [dialog EXCEPT !.step = "waiting", !.checkout = t]
                 ELSE dialog
    /\ UNCHANGED <<debt, backend, overlay>>

\* Every two seconds a poll leaves; a processing answer changes nothing.
Poll ==
    /\ dialog.step = "waiting" /\ dialog.checkout \notin dialog.asked
    /\ dialog' = [dialog EXCEPT !.asked = @ \cup {dialog.checkout}]
    /\ UNCHANGED <<debt, payments, backend, overlay>>

PollAnswer(t) ==
    /\ t \in dialog.asked /\ mpesa[t] \in {"success", "failed"}
    /\ dialog' = [dialog EXCEPT !.asked = @ \ {t}, !.step = mpesa[t]]
    /\ UNCHANGED <<debt, payments, backend, overlay>>

\* Ninety seconds without an outcome.
PollTimeout ==
    /\ dialog.step = "waiting"
    /\ dialog' = [dialog EXCEPT !.step = "failed"]
    /\ UNCHANGED <<debt, payments, backend, overlay>>

TryAgain ==
    /\ dialog.step = "failed"
    /\ dialog' = [dialog EXCEPT !.step = "phone", !.checkout = None]
    /\ UNCHANGED <<debt, payments, backend, overlay>>

\* Mutant: the polls of a closed dialog reach the next one.
CloseKeepsPolls ==
    /\ dialog.step # "closed"
    /\ dialog' = [DialogShut EXCEPT !.asked = dialog.asked]
    /\ UNCHANGED <<debt, payments, backend, overlay>>

\* stopAndClose, from every step, or the timer that closes a dialog three
\* seconds after its success: what is still under way finds no dialog.
CloseDialog ==
    /\ dialog.step # "closed"
    /\ dialog' = DialogShut
    /\ UNCHANGED <<debt, payments, backend, overlay>>

-----------------------------------------------------------------------------
(* The paused overlay of the dashboard's layout.                           *)

\* The layout asks /auth/me when it is mounted, and never again.
LoadDashboard ==
    /\ overlay # OverlayOf(label)
    /\ overlay' = OverlayOf(label)
    /\ dialog' = DialogShut
    /\ UNCHANGED <<debt, payments, backend>>

\* doStkPush: while the request is under way nothing can be pressed.
OverlayPay(t, ok, answered) ==
    /\ PayFormShown
    /\ StkPush(t, Platform, ok)
    /\ overlay' = IF ok /\ answered THEN [overlay EXCEPT !.state = "sent", !.checkout = t]
                  ELSE [overlay EXCEPT !.state = "failed"]
    /\ UNCHANGED <<debt, backend, dialog>>

\* A poll every three seconds, for as long as the outcome is unknown.
OverlayPoll ==
    LET outcome == mpesa[overlay.checkout] IN
    /\ overlay.state = "sent" /\ outcome \in {"success", "failed"}
    /\ overlay' = [overlay EXCEPT !.state = IF outcome = "success" THEN "completed" ELSE "failed"]
    /\ UNCHANGED <<debt, payments, backend, dialog>>

\* "Resend" after a minute, "Try again" after a failure.
OverlayReset ==
    /\ ResetShown
    /\ overlay' = [overlay EXCEPT !.state = "idle", !.checkout = None]
    /\ UNCHANGED <<debt, payments, backend, dialog>>

-----------------------------------------------------------------------------

Callback(t) ==
    CallbackDeclined(t) \/ CallbackRaises(t) \/ CallbackLoads(t) \/ CallbackCommits(t)

Sweep == SweepList \/ SweepLoad \/ SweepEnd \/ \E m \in Month : SweepLock(m)

Desk == \E c \in Clerk : DeskCommit(c) \/ \E op \in DeskOp : DeskBegin(c, op)

World ==
    \/ \E m \in Month : DueDatePasses(m)
    \/ \E t \in Txn, a \in {"paid", "declined"} : AnswerPrompt(t, a)

Pay == \E t \in Txn, ok \in BOOLEAN :
    \/ \E m \in Month : BillingPay(t, m, ok)
    \/ \E answered \in BOOLEAN : Initiate(t, ok, answered) \/ OverlayPay(t, ok, answered)

Page ==
    \/ \E m \in Month : OpenDialog(m)
    \/ Continue \/ Back \/ Poll \/ PollTimeout \/ TryAgain \/ CloseDialog
    \/ LoadDashboard \/ OverlayPoll \/ OverlayReset
    \/ \E t \in Txn : PollAnswer(t)

Next == World \/ Sweep \/ Desk \/ Pay \/ Page \/ \E t \in Txn : Callback(t)

Spec == Init /\ [][Next]_vars

\* The sweep runs every day and finishes.  The pages, the people and Daraja owe
\* nothing, not even a callback.
FairSpec == Spec /\ WF_vars(Sweep)

-----------------------------------------------------------------------------
(* Properties                                                              *)

\* An invoice carries the receipt of a payment only if the payer entered the
\* PIN for that very invoice, whichever of its prompts was answered, however
\* the callbacks and the sweep interleave (process_invoice_payment).
ReceiptIsReal ==
    \A m \in Month : receipt[m] # None =>
        LET t == receipt[m] IN
        ref[t] = m /\ prompt[t] = "paid" /\ mpesa[t] = "success"

\* "Payment Confirmed" in the dialog means that a payment of the invoice the
\* dialog is about has succeeded, also when polls of other dialogs are late.
DialogTellsTruth ==
    dialog.step = "success" =>
        \E t \in Txn : ref[t] = dialog.inv /\ mpesa[t] = "success"

\* What a served callback leaves is what the payer did: failed for a prompt that
\* was declined, success for an invoice that was paid, also when the push, the
\* sweep and the administrator come in between.  A platform payment, whose
\* callback is rolled back, stays without an outcome.
OutcomeIsThePayers ==
    \A t \in Txn : cb[t].pc = "done" =>
        /\ mpesa[t] = "failed" <=> prompt[t] = "declined"
        /\ ref[t] \in Month => (mpesa[t] = "success" <=> prompt[t] = "paid")

\* The invoices' payments implement MpesaPayment, like those of the hotspot
\* sale: no order of pushes, callbacks and the sweep gives a payment another
\* outcome than the payer's, or a second one.
MP == INSTANCE MpesaPayment WITH outcome <- mpesa

ImplementsMpesaPayment == MP!Spec

\* An unpaid invoice past its due date locks its tenant sooner or later, unless
\* it is settled first: the sweep cannot miss it for ever, although it works on
\* rows it read earlier and the administrator and the callbacks race with it.
OverdueIsLocked ==
    \A m \in Month : (m \in past /\ Unsettled(m)) ~> (locked \/ ~Unsettled(m))

\* The overlay of a paused dashboard says "Reactivate by paying below": who
\* pays there, and whose callback has been served, is reactivated.
PayingReactivates ==
    \A t \in Txn : (ref[t] = Platform /\ prompt[t] = "paid" /\ cb[t].pc = "done")
                      ~> (label # "paused")

=============================================================================
