------------------------ MODULE PlatformInvoiceProofs ------------------------
(***************************************************************************)
(* Proofs about PlatformInvoice, for any number of months, transactions    *)
(* and clerks.                                                             *)
(***************************************************************************)
EXTENDS PlatformInvoice, TLAPS

-----------------------------------------------------------------------------
(* The inductive invariant.                                                *)

\* What the callback of a transaction has done follows what its payer did, and
\* a transaction that is not in the database has neither.
TxnInv ==
    \A t \in Txn :
        /\ mpesa[t] = "none" => prompt[t] = "none" /\ cb[t].pc = "none"
        /\ mpesa[t] = "success" => cb[t].pc = "done" /\ prompt[t] = "paid"
        /\ cb[t].pc = "loaded" =>
              mpesa[t] = "processing" /\ prompt[t] = "paid" /\ ref[t] \in Month
        /\ cb[t].pc = "done" =>
              /\ prompt[t] \in {"paid", "declined"}
              /\ mpesa[t] = "failed" <=> prompt[t] = "declined"
              /\ ref[t] \in Month => (mpesa[t] = "success" <=> prompt[t] = "paid")

\* What the dialog polls, and what it waits for, are payments of its invoice.
DialogInv ==
    /\ \A t \in dialog.asked : mpesa[t] # "none" /\ ref[t] = dialog.inv
    /\ dialog.step = "waiting" =>
          /\ dialog.checkout \in Txn
          /\ mpesa[dialog.checkout] # "none" /\ ref[dialog.checkout] = dialog.inv
    /\ DialogTellsTruth

IInv == TypeOK /\ TxnInv /\ DialogInv /\ ReceiptIsReal

-----------------------------------------------------------------------------
(* The steps, sorted by what they change.                                  *)

Push == \E t \in Txn, r \in Month \cup {Platform, None}, ok \in BOOLEAN : StkPush(t, r, ok)

\* Steps that leave the payments and their callbacks alone.
Elsewhere == UNCHANGED <<mpesa, ref, prompt, cb>>

PaymentStep ==
    \/ \E t \in Txn, a \in {"paid", "declined"} : AnswerPrompt(t, a)
    \/ \E t \in Txn : Callback(t)
    \/ Push /\ UNCHANGED <<debt, cb>>

\* Every step is one of a payment, or leaves the payments alone.
LEMMA Sorted ==
    ASSUME TypeOK, [Next]_vars
    PROVE  PaymentStep \/ Elsewhere
<1> USE DEF Elsewhere, PaymentStep, payments, backend, debt, pages
<1>1. CASE World
  BY <1>1 DEF World, DueDatePasses
<1>2. CASE Sweep
  BY <1>2 DEF Sweep, SweepList, SweepLoad, SweepEnd, SweepLock
<1>3. CASE Desk
  BY <1>3 DEF Desk, DeskCommit, DeskBegin
<1>4. CASE Pay
  <2>1. ASSUME NEW t \in Txn, NEW ok \in BOOLEAN, NEW m \in Month, BillingPay(t, m, ok)
        PROVE  PaymentStep
    BY <2>1 DEF BillingPay, Push
  <2>2. ASSUME NEW t \in Txn, NEW ok \in BOOLEAN, NEW b \in BOOLEAN, Initiate(t, ok, b)
        PROVE  PaymentStep
    <3>1. dialog.inv \in Month \cup {Platform, None}
      BY DEF TypeOK, DialogState
    <3> QED
      BY <2>2, <3>1 DEF Initiate, Push
  <2>3. ASSUME NEW t \in Txn, NEW ok \in BOOLEAN, NEW b \in BOOLEAN, OverlayPay(t, ok, b)
        PROVE  PaymentStep
    BY <2>3 DEF OverlayPay, Push
  <2> QED
    BY <1>4, <2>1, <2>2, <2>3 DEF Pay
<1>5. CASE Page
  BY <1>5 DEF Page, OpenDialog, Continue, Back, Poll, PollTimeout, TryAgain, CloseDialog,
              LoadDashboard, OverlayPoll, OverlayReset, PollAnswer
<1>6. CASE \E t \in Txn : Callback(t)
  BY <1>6
<1>7. CASE UNCHANGED vars
  BY <1>7 DEF vars
<1> QED
  BY <1>1, <1>2, <1>3, <1>4, <1>5, <1>6, <1>7 DEF Next

-----------------------------------------------------------------------------
(* Types.                                                                  *)

\* The initial state satisfies the invariant.
LEMMA InitIInv == Init => IInv
<1> USE InvoiceAssumption
<1> SUFFICES ASSUME Init PROVE IInv
  OBVIOUS
<1>1. TypeOK
  <2>1. inv \in [Month -> InvoiceStatus] /\ past \subseteq Month
    <3>1. PICK made \in SUBSET Month :
            /\ inv = [m \in Month |-> IF m \in made THEN "sent" ELSE "none"]
            /\ past = made \ {Today}
      BY DEF Init
    <3> QED
      BY <3>1 DEF InvoiceStatus
  <2>2. CbIdle \in CbState /\ SweepIdle \in SweepState /\ DeskIdle \in DeskState
    BY DEF CbIdle, CbState, SweepIdle, SweepState, DeskIdle, DeskState, DeskOp, InvoiceStatus, Label
  <2>3. DialogShut \in DialogState /\ OverlayOf("active") \in OverlayState
    BY DEF DialogShut, DialogState, OverlayOf, OverlayState
  <2>4. ops \in 0..MaxDesk /\ label \in Label
    BY DEF Init, InvoiceAssumption, Label
  <2> QED
    BY <2>1, <2>2, <2>3, <2>4 DEF Init, TypeOK
<1>2. TxnInv
  BY DEF Init, TxnInv, CbIdle
<1>3. DialogInv /\ ReceiptIsReal
  BY DEF Init, DialogInv, DialogTellsTruth, DialogShut, ReceiptIsReal
<1> QED
  BY <1>1, <1>2, <1>3 DEF IInv

\* A column keeps its type through a commit.
LEMMA Flushed ==
    ASSUME NEW S, NEW seen, NEW new \in S, NEW current \in S
    PROVE  Flush(seen, new, current) \in S
BY DEF Flush

\* The records the steps build.
LEMMA DialogMoves ==
    ASSUME NEW d \in DialogState, NEW t \in Txn,
           NEW st \in {"confirm", "phone", "waiting", "success", "failed"}
    PROVE  /\ [d EXCEPT !.step = st] \in DialogState
           /\ [d EXCEPT !.step = st, !.checkout = t] \in DialogState
           /\ [d EXCEPT !.step = st, !.checkout = None] \in DialogState
           /\ [d EXCEPT !.asked = @ \cup {t}] \in DialogState
           /\ [d EXCEPT !.asked = @ \ {t}, !.step = st] \in DialogState
BY DEF DialogState

\* The records the sweep builds.
LEMMA SweepMoves ==
    ASSUME NEW w \in SweepState, NEW m, NEW b \in BOOLEAN, NEW l \in Label
    PROVE  /\ [w EXCEPT !.pc = "loaded", !.locked = b, !.label = l] \in SweepState
           /\ [w EXCEPT !.locked = TRUE, !.label = "overdue", !.marks = @ \ {m}] \in SweepState
BY DEF SweepState, Label

\* The steps of the world, the payments and the callbacks keep the types.
LEMMA TypeOKPayments ==
    ASSUME TypeOK, TxnInv
    PROVE  /\ \A m \in Month : DueDatePasses(m) => TypeOK'
           /\ \A t \in Txn, a \in {"paid", "declined"} : AnswerPrompt(t, a) => TypeOK'
           /\ \A t \in Txn : Callback(t) => TypeOK'
<1> USE InvoiceAssumption DEF TypeOK, debt, payments, backend, pages
<1>1. ASSUME NEW m \in Month, DueDatePasses(m) PROVE TypeOK'
  BY <1>1 DEF DueDatePasses
<1>2. ASSUME NEW t \in Txn, NEW a \in {"paid", "declined"}, AnswerPrompt(t, a) PROVE TypeOK'
  BY <1>2 DEF AnswerPrompt
<1>3. ASSUME NEW t \in Txn, CallbackDeclined(t) PROVE TypeOK'
  BY <1>3 DEF CallbackDeclined, CbState
<1>4. ASSUME NEW t \in Txn, CallbackRaises(t) PROVE TypeOK'
  BY <1>4 DEF CallbackRaises, CbState
<1>5. ASSUME NEW t \in Txn, CallbackLoads(t) PROVE TypeOK'
  BY <1>5 DEF CallbackLoads, CbState
<1>6. ASSUME NEW t \in Txn, CallbackCommits(t) PROVE TypeOK'
  <2>1. ref[t] \in Month
    BY <1>6 DEF CallbackCommits, TxnInv
  <2>2. inv' \in [Month -> InvoiceStatus] /\ receipt' \in [Month -> Txn \cup {None}]
    <3>1. \/ UNCHANGED <<inv, receipt>>
          \/ inv' = [inv EXCEPT ![ref[t]] = "paid"] /\ receipt' = [receipt EXCEPT ![ref[t]] = t]
      BY <1>6 DEF CallbackCommits, Settle
    <3> QED
      BY <2>1, <3>1 DEF InvoiceStatus
  <2>3. locked' \in BOOLEAN /\ label' \in Label
    <3>1. locked' \in {locked, FALSE} /\ label' \in {label, "active"}
      BY <1>6 DEF CallbackCommits, Settle
    <3> QED
      BY <3>1 DEF Label
  <2>4. cb' \in [Txn -> CbState] /\ mpesa' \in [Txn -> {"none", "processing", "success", "failed"}]
    BY <1>6 DEF CallbackCommits, CbState
  <2> QED
    BY <1>6, <2>2, <2>3, <2>4 DEF CallbackCommits
<1> QED
  BY <1>1, <1>2, <1>3, <1>4, <1>5, <1>6 DEF Callback

\* So do the sweep and the administrator's requests.
LEMMA TypeOKBackend ==
    ASSUME TypeOK
    PROVE  (Sweep => TypeOK') /\ (Desk => TypeOK')
<1> USE InvoiceAssumption DEF TypeOK, debt, payments, backend, pages
<1>1. ASSUME SweepList PROVE TypeOK'
  BY <1>1 DEF SweepList, SweepState, SweepIdle, Label
<1>2. ASSUME SweepLoad PROVE TypeOK'
  <2>1. sweep' \in SweepState
    BY <1>2, SweepMoves DEF SweepLoad
  <2> QED
    BY <1>2, <2>1 DEF SweepLoad
<1>3. ASSUME NEW m \in Month, SweepLock(m) PROVE TypeOK'
  <2>1. sweep' \in SweepState
    BY <1>3, SweepMoves DEF SweepLock, Label
  <2>2. inv' \in [Month -> InvoiceStatus] /\ label' \in Label
    BY <1>3, Flushed DEF SweepLock, InvoiceStatus, Label
  <2> QED
    BY <1>3, <2>1, <2>2 DEF SweepLock
<1>4. ASSUME SweepEnd PROVE TypeOK'
  <2>1. inv' \in [Month -> InvoiceStatus] /\ label' \in Label
    BY <1>4, Flushed, ZenonT(40) DEF SweepEnd, InvoiceStatus, Label
  <2>2. sweep' \in SweepState
    BY <1>4 DEF SweepEnd, SweepIdle, SweepState, Label
  <2> QED
    BY <1>4, <2>1, <2>2 DEF SweepEnd
<1>5. ASSUME NEW c \in Clerk, NEW op \in DeskOp, DeskBegin(c, op) PROVE TypeOK'
  <2>1. Today \in Month
    BY DEF Month
  <2>2. desk' \in [Clerk -> DeskState] /\ ops' \in 0..MaxDesk
    BY <1>5, <2>1 DEF DeskBegin, DeskState
  <2> QED
    BY <1>5, <2>2 DEF DeskBegin
<1>6. ASSUME NEW c \in Clerk, DeskCommit(c) PROVE TypeOK'
  <2>1. /\ Today \in Month
        /\ desk[c].label \in Label /\ desk[c].locked \in BOOLEAN
    BY DEF Month, DeskState
  <2>2. desk' \in [Clerk -> DeskState]
    BY <1>6 DEF DeskCommit, DeskState, DeskIdle, DeskOp, InvoiceStatus, Label
  <2>3. /\ inv' \in [Month -> InvoiceStatus] /\ label' \in Label /\ locked' \in BOOLEAN
        /\ past' = past
    <3>1. CASE MarkPaid(c)
      BY <2>1, <3>1 DEF MarkPaid, Flush, InvoiceStatus, Label
    <3>2. CASE SetStatus(c)
      BY <2>1, <3>2 DEF SetStatus, Flush, InvoiceStatus, Label
    <3>3. CASE CreateInvoice(c)
      BY <2>1, <3>3 DEF CreateInvoice, InvoiceStatus, Label
    <3>4. CASE DeskRollsBack(c)
      BY <2>1, <3>4 DEF DeskRollsBack
    <3> QED
      BY <1>6, <3>1, <3>2, <3>3, <3>4 DEF DeskCommit
  <2> QED
    BY <1>6, <2>2, <2>3 DEF DeskCommit
<1> QED
  BY <1>1, <1>2, <1>3, <1>4, <1>5, <1>6 DEF Sweep, Desk

\* A push keeps the types of the payments.
LEMMA TypeOKPush ==
    ASSUME TypeOK, NEW t \in Txn, NEW r \in Month \cup {Platform, None}, NEW ok \in BOOLEAN,
           StkPush(t, r, ok)
    PROVE  /\ mpesa' \in [Txn -> {"none", "processing", "success", "failed"}]
           /\ ref' \in [Txn -> Month \cup {Platform, None}]
           /\ prompt' \in [Txn -> {"none", "prompted", "paid", "declined"}]
BY DEF StkPush, TypeOK

\* And so do the pages.
LEMMA TypeOKPages ==
    ASSUME TypeOK, DialogInv
    PROVE  (Pay => TypeOK') /\ (Page => TypeOK')
<1> USE InvoiceAssumption DEF TypeOK, debt, payments, backend, pages
<1>1. ASSUME NEW t \in Txn, NEW ok \in BOOLEAN, NEW m \in Month, BillingPay(t, m, ok) PROVE TypeOK'
  BY <1>1, TypeOKPush DEF BillingPay
<1>2. ASSUME NEW t \in Txn, NEW ok \in BOOLEAN, NEW b \in BOOLEAN, Initiate(t, ok, b) PROVE TypeOK'
  <2>1. dialog.inv \in Month \cup {Platform, None}
    BY DEF DialogState
  <2>2. dialog' \in DialogState
    BY <1>2, DialogMoves DEF Initiate
  <2> QED
    BY <1>2, <2>1, <2>2, TypeOKPush DEF Initiate
<1>3. ASSUME NEW t \in Txn, NEW ok \in BOOLEAN, NEW b \in BOOLEAN, OverlayPay(t, ok, b) PROVE TypeOK'
  <2>1. overlay' \in OverlayState
    <3>1. /\ [overlay EXCEPT !.state = "sent", !.checkout = t] \in OverlayState
          /\ [overlay EXCEPT !.state = "failed"] \in OverlayState
      BY DEF OverlayState
    <3> QED
      BY <1>3, <3>1 DEF OverlayPay
  <2> QED
    BY <1>3, <2>1, TypeOKPush DEF OverlayPay
<1>4. ASSUME NEW m \in Month, OpenDialog(m) PROVE TypeOK'
  BY <1>4 DEF OpenDialog, DialogState, DialogShut
<1>5. ASSUME Continue \/ Back \/ PollTimeout \/ TryAgain PROVE TypeOK'
  <2>1. \A d \in DialogState : [d EXCEPT !.step = "phone", !.checkout = None] \in DialogState
    BY DEF DialogState
  <2>2. \A d \in DialogState, st \in {"confirm", "phone", "failed"} :
            [d EXCEPT !.step = st] \in DialogState
    BY DEF DialogState
  <2>3. dialog' \in DialogState
    BY <1>5, <2>1, <2>2 DEF Continue, Back, PollTimeout, TryAgain
  <2> QED
    BY <1>5, <2>3 DEF Continue, Back, PollTimeout, TryAgain
<1>6. ASSUME Poll PROVE TypeOK'
  <2>1. dialog' \in DialogState
    BY <1>6, DialogMoves DEF Poll, DialogInv
  <2> QED
    BY <1>6, <2>1 DEF Poll
<1>7. ASSUME NEW t \in Txn, PollAnswer(t) PROVE TypeOK'
  <2>1. dialog' \in DialogState
    BY <1>7, DialogMoves DEF PollAnswer
  <2> QED
    BY <1>7, <2>1 DEF PollAnswer
<1>8. ASSUME CloseDialog PROVE TypeOK'
  BY <1>8 DEF CloseDialog, DialogShut, DialogState
<1>9. ASSUME LoadDashboard PROVE TypeOK'
  <2>1. DialogShut \in DialogState /\ OverlayOf(label) \in OverlayState
    BY DEF DialogShut, DialogState, OverlayOf, OverlayState
  <2> QED
    BY <1>9, <2>1 DEF LoadDashboard
<1>10. ASSUME OverlayPoll \/ OverlayReset PROVE TypeOK'
  <2>1. \A st \in {"idle", "completed", "failed"} :
           /\ [overlay EXCEPT !.state = st] \in OverlayState
           /\ [overlay EXCEPT !.state = st, !.checkout = None] \in OverlayState
    BY DEF OverlayState
  <2>2. overlay' \in OverlayState
    BY <1>10, <2>1 DEF OverlayPoll, OverlayReset
  <2> QED
    BY <1>10, <2>2 DEF OverlayPoll, OverlayReset
<1> QED
  BY <1>1, <1>2, <1>3, <1>4, <1>5, <1>6, <1>7, <1>8, <1>9, <1>10 DEF Pay, Page

\* Every step keeps every variable within its type.
LEMMA TypeOKStep == IInv /\ [Next]_vars => TypeOK'
<1> SUFFICES ASSUME IInv, [Next]_vars PROVE TypeOK'
  OBVIOUS
<1>1. CASE UNCHANGED vars
  BY <1>1 DEF IInv, TypeOK, vars, debt, payments, backend, pages
<1>2. CASE Next
  BY <1>2, TypeOKPayments, TypeOKBackend, TypeOKPages DEF Next, World, IInv
<1> QED
  BY <1>1, <1>2


-----------------------------------------------------------------------------
(* Payments.                                                               *)

\* What the steps of payments do to the records of TxnInv.
LEMMA TxnInvStep == IInv /\ [Next]_vars => TxnInv'
<1> SUFFICES ASSUME IInv, [Next]_vars PROVE TxnInv'
  OBVIOUS
<1>0. TypeOK /\ TxnInv
  BY DEF IInv
<1> USE DEF TxnInv
<1>1. ASSUME NEW t \in Txn, NEW a \in {"paid", "declined"}, AnswerPrompt(t, a) PROVE TxnInv'
  BY <1>0, <1>1 DEF AnswerPrompt, TypeOK, backend
<1>2. ASSUME NEW t \in Txn, CallbackDeclined(t) PROVE TxnInv'
  BY <1>0, <1>2 DEF CallbackDeclined, Finds, TypeOK, CbState
<1>3. ASSUME NEW t \in Txn, CallbackRaises(t) PROVE TxnInv'
  BY <1>0, <1>3 DEF CallbackRaises, Finds, TypeOK, CbState, payments
<1>4. ASSUME NEW t \in Txn, CallbackLoads(t) PROVE TxnInv'
  BY <1>0, <1>4 DEF CallbackLoads, Finds, TypeOK, CbState, payments
<1>5. ASSUME NEW t \in Txn, CallbackCommits(t) PROVE TxnInv'
  BY <1>0, <1>5 DEF CallbackCommits, TypeOK, CbState
<1>6. ASSUME NEW t \in Txn, NEW r \in Month \cup {Platform, None}, NEW ok \in BOOLEAN,
             StkPush(t, r, ok), UNCHANGED <<debt, cb>>
      PROVE  TxnInv'
  BY <1>0, <1>6 DEF StkPush, TypeOK
<1>7. CASE Elsewhere
  BY <1>0, <1>7 DEF Elsewhere
<1> QED
  BY <1>0, <1>1, <1>2, <1>3, <1>4, <1>5, <1>6, <1>7, Sorted DEF PaymentStep, Push, Callback

\* No step takes a transaction out of the database, changes what it is for, or
\* takes its success back.
LEMMA Lasting ==
    ASSUME IInv, [Next]_vars, NEW t \in Txn, mpesa[t] # "none"
    PROVE  /\ mpesa'[t] # "none" /\ ref'[t] = ref[t]
           /\ mpesa[t] = "success" => mpesa'[t] = "success"
           /\ prompt[t] = "paid" => prompt'[t] = "paid"
<1>0. TypeOK /\ TxnInv
  BY DEF IInv
<1>1. ASSUME NEW u \in Txn, NEW a \in {"paid", "declined"}, AnswerPrompt(u, a)
      PROVE  UNCHANGED <<mpesa, ref>> /\ (prompt[t] = "paid" => prompt'[t] = "paid")
  BY <1>0, <1>1 DEF AnswerPrompt, TypeOK
<1>2. ASSUME NEW u \in Txn, Callback(u)
      PROVE  /\ UNCHANGED <<ref, prompt>> /\ mpesa'[t] # "none"
             /\ mpesa[t] = "success" => mpesa'[t] = "success"
  BY <1>0, <1>2 DEF Callback, CallbackDeclined, CallbackRaises, CallbackLoads, CallbackCommits,
                    Finds, TypeOK, payments
<1>3. ASSUME NEW u \in Txn, NEW r \in Month \cup {Platform, None}, NEW ok \in BOOLEAN,
             StkPush(u, r, ok)
      PROVE  mpesa'[t] = mpesa[t] /\ ref'[t] = ref[t] /\ prompt'[t] = prompt[t]
  BY <1>0, <1>3 DEF StkPush, TypeOK
<1> QED
  BY <1>0, <1>1, <1>2, <1>3, Sorted DEF PaymentStep, Push, Elsewhere

-----------------------------------------------------------------------------
(* Receipts.                                                               *)

\* A receipt is written by the commit of a callback only, for its own payment.
LEMMA ReceiptWritten ==
    ASSUME IInv, [Next]_vars
    PROVE  \/ receipt' = receipt
           \/ \E t \in Txn : /\ CallbackCommits(t) /\ ref[t] \in Month
                             /\ receipt' = [receipt EXCEPT ![ref[t]] = t]
<1> USE DEF debt, payments, backend, pages
<1>1. CASE World
  BY <1>1 DEF World, DueDatePasses, AnswerPrompt
<1>2. CASE Sweep
  BY <1>2 DEF Sweep, SweepList, SweepLoad, SweepEnd, SweepLock
<1>3. CASE Desk
  BY <1>3 DEF Desk, DeskCommit, DeskBegin
<1>4. CASE Pay
  BY <1>4 DEF Pay, BillingPay, Initiate, OverlayPay
<1>5. CASE Page
  BY <1>5 DEF Page, OpenDialog, Continue, Back, Poll, PollTimeout, TryAgain, CloseDialog,
              LoadDashboard, OverlayPoll, OverlayReset, PollAnswer
<1>6. ASSUME NEW t \in Txn, Callback(t)
      PROVE  \/ receipt' = receipt
             \/ CallbackCommits(t) /\ ref[t] \in Month /\ receipt' = [receipt EXCEPT ![ref[t]] = t]
  <2>1. CASE CallbackCommits(t)
    BY <2>1 DEF CallbackCommits, Settle, IInv, TxnInv
  <2>2. CASE ~CallbackCommits(t)
    BY <1>6, <2>2 DEF Callback, CallbackDeclined, CallbackRaises, CallbackLoads
  <2> QED
    BY <2>1, <2>2
<1>7. CASE UNCHANGED vars
  BY <1>7 DEF vars
<1> QED
  BY <1>1, <1>2, <1>3, <1>4, <1>5, <1>6, <1>7 DEF Next

\* A receipt stays the one of the payment.
LEMMA ReceiptStep == IInv /\ [Next]_vars => ReceiptIsReal'
<1> SUFFICES ASSUME IInv, [Next]_vars, NEW m \in Month, receipt'[m] # None
             PROVE  LET t == receipt'[m] IN
                    ref'[t] = m /\ prompt'[t] = "paid" /\ mpesa'[t] = "success"
  BY DEF ReceiptIsReal
<1>0. TypeOK /\ TxnInv /\ ReceiptIsReal
  BY DEF IInv
<1>1. ASSUME receipt'[m] = receipt[m]
      PROVE  LET t == receipt'[m] IN
             ref'[t] = m /\ prompt'[t] = "paid" /\ mpesa'[t] = "success"
  <2>1. receipt[m] \in Txn
    BY <1>0, <1>1 DEF TypeOK
  <2> QED
    BY <1>0, <1>1, <2>1, Lasting DEF ReceiptIsReal
<1>2. ASSUME NEW t \in Txn, CallbackCommits(t), ref[t] = m, receipt'[m] = t
      PROVE  ref'[t] = m /\ prompt'[t] = "paid" /\ mpesa'[t] = "success"
  BY <1>0, <1>2 DEF CallbackCommits, TypeOK, TxnInv
<1> QED
  BY <1>0, <1>1, <1>2, ReceiptWritten DEF TypeOK

-----------------------------------------------------------------------------
(* The dialog.                                                             *)

\* The parts of DialogInv survive when the dialog does not change.
LEMMA DialogRests ==
    ASSUME IInv, [Next]_vars, dialog' = dialog
    PROVE  DialogInv'
<1>0. TypeOK /\ DialogInv
  BY DEF IInv
<1>1. dialog.asked \subseteq Txn
  BY <1>0 DEF TypeOK, DialogState
<1>2. \A t \in Txn : mpesa[t] = "success" => mpesa[t] # "none"
  OBVIOUS
<1> QED
  BY <1>0, <1>1, <1>2, Lasting DEF DialogInv, DialogTellsTruth

\* The dialog keeps to what it was told.
LEMMA DialogStep == IInv /\ [Next]_vars => DialogInv'
<1> SUFFICES ASSUME IInv, [Next]_vars PROVE DialogInv'
  OBVIOUS
<1>0. TypeOK /\ DialogInv
  BY DEF IInv
<1>A. dialog.asked \subseteq Txn /\ dialog \in DialogState
  BY <1>0 DEF TypeOK, DialogState
<1> USE DEF debt, payments, backend, pages
<1>1. CASE dialog' = DialogShut
  BY <1>1 DEF DialogShut, DialogInv, DialogTellsTruth
<1>2. ASSUME NEW m \in Month, OpenDialog(m) PROVE DialogInv'
  BY <1>2 DEF OpenDialog, DialogShut, DialogInv, DialogTellsTruth
<1>3. ASSUME Continue \/ Back \/ PollTimeout \/ TryAgain PROVE DialogInv'
  <2>1. /\ UNCHANGED <<mpesa, ref>>
        /\ dialog'.asked = dialog.asked /\ dialog'.inv = dialog.inv
        /\ dialog'.step \notin {"waiting", "success"}
    BY <1>3, <1>A DEF Continue, Back, PollTimeout, TryAgain, DialogState
  <2> QED
    BY <1>0, <2>1 DEF DialogInv, DialogTellsTruth
<1>4. ASSUME NEW t \in Txn, NEW ok \in BOOLEAN, NEW b \in BOOLEAN, Initiate(t, ok, b)
      PROVE  DialogInv'
  <2>1. CASE dialog' = dialog
    BY <2>1, DialogRests
  <2>2. CASE ok /\ b
    <3>1. /\ dialog'.asked = dialog.asked /\ dialog'.inv = dialog.inv
          /\ dialog'.step = "waiting" /\ dialog'.checkout = t
      BY <1>4, <1>A, <2>2 DEF Initiate, DialogState
    <3>2. mpesa'[t] = "processing" /\ ref'[t] = dialog.inv
      BY <1>0, <1>4, <2>2 DEF Initiate, StkPush, TypeOK
    <3> QED
      BY <1>0, <1>A, <3>1, <3>2, Lasting DEF DialogInv, DialogTellsTruth
  <2> QED
    BY <1>4, <2>1, <2>2 DEF Initiate
<1>5. ASSUME Poll PROVE DialogInv'
  <2>1. /\ UNCHANGED <<mpesa, ref>>
        /\ dialog'.asked = dialog.asked \cup {dialog.checkout}
        /\ dialog'.inv = dialog.inv /\ dialog'.step = dialog.step
        /\ dialog'.checkout = dialog.checkout /\ dialog.step = "waiting"
    BY <1>5, <1>A DEF Poll, DialogState
  <2> QED
    BY <1>0, <2>1 DEF DialogInv, DialogTellsTruth
<1>6. ASSUME NEW t \in Txn, PollAnswer(t) PROVE DialogInv'
  <2>1. /\ UNCHANGED <<mpesa, ref>>
        /\ dialog'.asked \subseteq dialog.asked /\ t \in dialog.asked
        /\ dialog'.inv = dialog.inv /\ dialog'.step = mpesa[t]
        /\ mpesa[t] \in {"success", "failed"}
    BY <1>6, <1>A DEF PollAnswer, DialogState
  <2> QED
    BY <1>0, <2>1 DEF DialogInv, DialogTellsTruth
<1>7. CASE World \/ Sweep \/ Desk
  <2>1. dialog' = dialog
    BY <1>7 DEF World, DueDatePasses, AnswerPrompt, Sweep, SweepList, SweepLoad, SweepEnd,
                SweepLock, Desk, DeskCommit, DeskBegin
  <2> QED
    BY <2>1, DialogRests
<1>8. CASE \E t \in Txn : Callback(t)
  <2>1. dialog' = dialog
    BY <1>8 DEF Callback, CallbackDeclined, CallbackRaises, CallbackLoads, CallbackCommits
  <2> QED
    BY <2>1, DialogRests
<1>9. CASE Pay
  <2>1. ASSUME NEW t \in Txn, NEW ok \in BOOLEAN, NEW m \in Month, BillingPay(t, m, ok)
        PROVE  dialog' = dialog
    BY <2>1 DEF BillingPay
  <2>2. ASSUME NEW t \in Txn, NEW ok \in BOOLEAN, NEW b \in BOOLEAN, OverlayPay(t, ok, b)
        PROVE  dialog' = dialog
    BY <2>2 DEF OverlayPay
  <2> QED
    BY <1>4, <1>9, <2>1, <2>2, DialogRests DEF Pay
<1>10. CASE OverlayPoll \/ OverlayReset \/ UNCHANGED vars
  <2>1. dialog' = dialog
    BY <1>10 DEF OverlayPoll, OverlayReset, vars
  <2> QED
    BY <2>1, DialogRests
<1>11. CASE CloseDialog \/ LoadDashboard
  BY <1>1, <1>11 DEF CloseDialog, LoadDashboard
<1> QED
  BY <1>2, <1>3, <1>5, <1>6, <1>7, <1>8, <1>9, <1>10, <1>11 DEF Next, Page

-----------------------------------------------------------------------------
(* Theorems.                                                               *)

\* The invariant holds in every reachable state.
THEOREM Invariance == Spec => []IInv
<1>1. IInv /\ [Next]_vars => IInv'
  BY TypeOKStep, TxnInvStep, DialogStep, ReceiptStep DEF IInv
<1> QED
  BY InitIInv, <1>1, PTL DEF Spec

\* Every variable keeps its type (the columns and the states of the pages).
THEOREM TypeCorrect == Spec => []TypeOK
<1>1. IInv => TypeOK
  BY DEF IInv
<1> QED
  BY Invariance, <1>1, PTL

\* process_invoice_payment: a receipt is one the payer paid for that invoice.
THEOREM ReceiptsAreReal == Spec => []ReceiptIsReal
<1>1. IInv => ReceiptIsReal
  BY DEF IInv
<1> QED
  BY Invariance, <1>1, PTL

\* PaymentDialog: a confirmation is for a payment of the invoice shown.
THEOREM DialogIsTruthful == Spec => []DialogTellsTruth
<1>1. IInv => DialogTellsTruth
  BY DEF IInv, DialogInv
<1> QED
  BY Invariance, <1>1, PTL

\* process_callback: a served callback leaves what the payer did.
THEOREM OutcomesAreReal == Spec => []OutcomeIsThePayers
<1>1. IInv => OutcomeIsThePayers
  BY DEF IInv, TxnInv, OutcomeIsThePayers
<1> QED
  BY Invariance, <1>1, PTL

-----------------------------------------------------------------------------
(* The payments of invoices implement MpesaPayment.                        *)

\* A push commits the row of a transaction that had none.
LEMMA PushRecords ==
    ASSUME IInv, NEW t \in Txn, NEW r, NEW ok \in BOOLEAN, StkPush(t, r, ok)
    PROVE  MP!Next
<1>1. mpesa[t] = "none" /\ prompt[t] = "none" /\ prompt \in [Txn -> {"none", "prompted", "paid", "declined"}]
  BY DEF StkPush, IInv, TxnInv, TypeOK
<1>2. CASE ok
  <2>1. /\ mpesa' = [mpesa EXCEPT ![t] = "processing"]
        /\ prompt' = [prompt EXCEPT ![t] = "prompted"]
    BY <1>2 DEF StkPush
  <2>2. prompt'[t] # "none"
    BY <1>1, <2>1
  <2> QED
    BY <1>1, <2>1, <2>2 DEF MP!Record, MP!Next
<1>3. CASE ~ ok
  <2>1. /\ mpesa' = [mpesa EXCEPT ![t] = "failed"]
        /\ \/ prompt' = [prompt EXCEPT ![t] = "none"]
           \/ prompt' = [prompt EXCEPT ![t] = "prompted"]
    BY <1>3 DEF StkPush
  <2>2. prompt' = prompt \/ prompt' = [prompt EXCEPT ![t] = "prompted"]
    BY <1>1, <2>1
  <2> QED
    BY <1>1, <2>1, <2>2 DEF MP!Record, MP!Next
<1> QED
  BY <1>2, <1>3

\* Every step is a step of one payment or changes none.
LEMMA MPStep == IInv /\ [Next]_vars => [MP!Next]_<<prompt, mpesa>>
<1> SUFFICES ASSUME IInv, [Next]_vars PROVE [MP!Next]_<<prompt, mpesa>>
  OBVIOUS
<1>0. TypeOK /\ TxnInv
  BY DEF IInv
<1>1. ASSUME NEW t \in Txn, NEW a \in {"paid", "declined"}, AnswerPrompt(t, a)
      PROVE  MP!Next
  BY <1>1 DEF AnswerPrompt, MP!Answer, MP!Next
<1>2. ASSUME NEW t \in Txn, CallbackDeclined(t) PROVE MP!Next
  BY <1>2 DEF CallbackDeclined, Finds, MP!Settle, MP!Next
<1>3. ASSUME NEW t \in Txn, CallbackCommits(t) PROVE MP!Next
  BY <1>0, <1>3 DEF CallbackCommits, TxnInv, MP!Settle, MP!Next
<1>4. ASSUME NEW t \in Txn, CallbackRaises(t) \/ CallbackLoads(t)
      PROVE  UNCHANGED <<prompt, mpesa>>
  BY <1>4 DEF CallbackRaises, CallbackLoads, payments
<1>5. CASE Push
  BY <1>5, PushRecords DEF Push
<1>6. CASE Elsewhere
  BY <1>6 DEF Elsewhere
<1> QED
  BY <1>0, <1>1, <1>2, <1>3, <1>4, <1>5, <1>6, Sorted DEF PaymentStep, Callback

\* ImplementsMpesaPayment: whichever of an invoice's prompts are answered, and
\* however pushes, callbacks and the sweep interleave, every payment has the
\* outcome of its payer and keeps it.
THEOREM PaymentsImplementMpesaPayment == Spec => ImplementsMpesaPayment
<1>1. Init => MP!Init
  BY DEF Init, MP!Init
<1> QED
  BY <1>1, MPStep, Invariance, PTL DEF Spec, ImplementsMpesaPayment, MP!Spec
=============================================================================
