------------------------ MODULE HotspotPaymentProofs ------------------------
(***************************************************************************)
(* Proofs about HotspotPayment, for every set of devices, sessions,        *)
(* transactions and handlers and every bound.                              *)
(***************************************************************************)
EXTENDS HotspotPayment, TLAPS

-----------------------------------------------------------------------------
(* The inductive invariant.                                                *)

Pushing(r)  == req[r].pc \in {"inserted", "accepted", "refused"}
Answered(r) == req[r].pc \in {"accepted", "refused"}

\* A request works on a session that exists and a transaction that is its own
\* and not yet in the database; the ledger entry of a portal sale is still to
\* be written.
RequestInv ==
    /\ \A r \in Request :
        /\ Pushing(r) => /\ req[r].sess \in Session
                         /\ status[req[r].sess] # "none"
                         /\ req[r].kind = "portal" => ledger[req[r].sess] = "none"
        /\ Answered(r) => /\ req[r].txn \in Txn
                          /\ mpesa[req[r].txn] = "none"
    /\ \A q, r \in Request :
        q # r =>
        /\ Answered(q) /\ Answered(r) => req[q].txn # req[r].txn
        /\ /\ Pushing(q) /\ req[q].kind = "portal"
           /\ Pushing(r) /\ req[r].kind = "portal"
           => req[q].sess # req[r].sess

\* A committed transaction is for an existing session, for good, and a
\* processed one has the outcome of the phone.
TxnInv ==
    \A t \in Txn :
        /\ mpesa[t] = "none" => ref[t] = None
        /\ mpesa[t] # "none" => ref[t] \in Session /\ status[ref[t]] # "none"
        /\ mpesa[t] = "success" => t \in processed
        /\ t \in processed => phone[t] \in Answer /\ mpesa[t] = TxnResult(t)

CallbackInv ==
    \A c \in Callback :
        cb[c].pc # "idle" =>
        /\ cb[c].txn \in Txn
        /\ mpesa[cb[c].txn] # "none"
        /\ phone[cb[c].txn] \in Answer
        /\ cb[c].pc = "provision" => phone[cb[c].txn] = "paid"
        /\ cb[c].booked => ledger[ref[cb[c].txn]] # "none"

\* The sessions the expiry job and the desk hold in memory are paid as well.
AccessInv ==
    /\ NoServiceWithoutPayment
    /\ \A s \in job.todo \cup job.done \cup desk.targets : Paid(s)

LedgerInv ==
    /\ ReceiptsAreReal
    /\ \A s \in Session : status[s] = "none" => ledger[s] = "none"

IInv ==
    /\ TypeOK
    /\ RequestInv
    /\ TxnInv
    /\ CallbackInv
    /\ AccessInv
    /\ LedgerInv

-----------------------------------------------------------------------------
(* Initial states, and types.                                              *)

\* The initial state satisfies the invariant.
LEMMA InitIInv == Init => IInv
<1> USE PaymentAssumption
<1> SUFFICES ASSUME Init PROVE IInv
  OBVIOUS
<1>1. TypeOK
  BY DEF Init, TypeOK, ReqIdle, ReqState, CbIdle, CbState, JobIdle, DeskIdle,
         Status, Served, Answer
<1>2. RequestInv
  BY DEF Init, RequestInv, Pushing, Answered, ReqIdle
<1>3. TxnInv
  BY DEF Init, TxnInv
<1>4. CallbackInv
  BY DEF Init, CallbackInv, CbIdle
<1>5. AccessInv
  BY DEF Init, AccessInv, NoServiceWithoutPayment, Served, JobIdle, DeskIdle
<1>6. LedgerInv
  BY DEF Init, LedgerInv, ReceiptsAreReal
<1> QED
  BY <1>1, <1>2, <1>3, <1>4, <1>5, <1>6 DEF IInv

\* The two updates of a handler's local state that set several fields at once.
LEMMA Inserted ==
    ASSUME NEW q \in ReqState, NEW s \in Session
    PROVE  [q EXCEPT !.pc = "inserted", !.sess = s] \in ReqState
BY DEF ReqState

\* What a callback has read.
LEMMA Loaded ==
    ASSUME NEW q \in CbState, NEW t, NEW l \in Status, NEW b \in BOOLEAN
    PROVE  [q EXCEPT !.pc = AfterLoad(t), !.loaded = l, !.booked = b] \in CbState
BY DEF CbState, AfterLoad

\* Every step keeps every variable within its type.
LEMMA TypeOKStep == IInv /\ [Next]_vars => TypeOK'
<1> USE PaymentAssumption
    DEF TypeOK, vars, database, outside, handlers
<1> SUFFICES ASSUME IInv, [Next]_vars PROVE TypeOK'
  OBVIOUS
<1>0. TypeOK
  BY DEF IInv
<1>A. \A c \in Callback : cb[c].pc # "idle" => ref[cb[c].txn] \in Session
  BY DEF IInv, CallbackInv, TxnInv
<1>1. ASSUME NEW r \in Request, NEW d \in Device, CheckDevice(r, d) PROVE TypeOK'
  BY <1>0, <1>1 DEF CheckDevice, ReqState, ReqIdle
<1>2. ASSUME NEW r \in Request, NEW s \in Session, InsertSession(r, s) PROVE TypeOK'
  <2>1. req' \in [Request -> ReqState]
    <3>1. [req[r] EXCEPT !.pc = "inserted", !.sess = s] \in ReqState
      BY <1>0, Inserted
    <3> QED
      BY <1>0, <1>2, <3>1 DEF InsertSession
  <2>2. status' \in [Session -> Status] /\ owner' \in [Session -> Device \cup {None}]
    BY <1>0, <1>2 DEF InsertSession, Status, ReqState
  <2> QED
    BY <1>0, <1>2, <2>1, <2>2 DEF InsertSession
<1>3. ASSUME NEW r \in Request, NEW s \in Session, PayForSession(r, s) PROVE TypeOK'
  BY <1>0, <1>3 DEF PayForSession, ReqState, ReqIdle
<1>4. ASSUME NEW r \in Request, PushUnconfigured(r) PROVE TypeOK'
  BY <1>0, <1>4 DEF PushUnconfigured, ReqState, ReqIdle
<1>5. ASSUME NEW r \in Request, NEW t \in Txn, PushPrompt(r, t) PROVE TypeOK'
  BY <1>0, <1>5, SMTT(30) DEF PushPrompt, ReqState, ReqIdle
<1>6. ASSUME NEW r \in Request, CommitPush(r) PROVE TypeOK'
  BY <1>0, <1>6 DEF CommitPush, BookSale, ReqState, ReqIdle
<1>7. ASSUME NEW t \in Txn, AnswerPrompt(t) PROVE TypeOK'
  BY <1>0, <1>7 DEF AnswerPrompt, Answer
<1>8. ASSUME NEW t \in Txn, CallbackIgnored(t) PROVE TypeOK'
  BY <1>0, <1>8 DEF CallbackIgnored, Deliver, CanDeliver
<1>9. ASSUME NEW c \in Callback, NEW t \in Txn, CallbackBegin(c, t) PROVE TypeOK'
  <2>1. cb' \in [Callback -> CbState]
    BY <1>0, <1>9 DEF CallbackBegin, CbState, CbIdle, Status, Served
  <2>2. deliveries' \in [Txn -> 0..MaxDeliveries]
    BY <1>0, <1>9 DEF CallbackBegin, Deliver, CanDeliver
  <2> QED
    BY <1>0, <1>9, <2>1, <2>2 DEF CallbackBegin, Deliver
<1>10. ASSUME NEW c \in Callback, CallbackLoad(c) PROVE TypeOK'
  <2> DEFINE t == cb[c].txn
  <2>1. status[ref[t]] \in Status
    BY <1>0, <1>A, <1>10 DEF CallbackLoad
  <2>2. cb' \in [Callback -> CbState]
    <3>1. [cb[c] EXCEPT !.pc = AfterLoad(t), !.loaded = status[ref[t]],
                        !.booked = ledger[ref[t]] # "none"] \in CbState
      BY <1>0, <2>1, Loaded
    <3> QED
      BY <1>0, <1>10, <3>1 DEF CallbackLoad
  <2> QED
    BY <1>0, <1>10, <2>2 DEF CallbackLoad
<1>11. ASSUME NEW c \in Callback, CallbackProvision(c) PROVE TypeOK'
  <2>1. cb' \in [Callback -> CbState]
    BY <1>0, <1>11 DEF CallbackProvision, CbState
  <2>2. router' \subseteq Session
    BY <1>0, <1>A, <1>11 DEF CallbackProvision, AfterCreateUser
  <2> QED
    BY <1>0, <1>11, <2>1, <2>2 DEF CallbackProvision
<1>12. ASSUME NEW c \in Callback, CallbackCommit(c) PROVE TypeOK'
  <2>1. cb' \in [Callback -> CbState]
    BY <1>0, <1>12 DEF CallbackCommit, CbState, CbIdle, Status, Served
  <2>2. status' \in [Session -> Status]
    BY <1>0, <1>12 DEF CallbackCommit, SessionResult, Status, Served
  <2>3. mpesa' \in [Txn -> {"none", "processing", "success", "failed"}]
    BY <1>0, <1>12 DEF CallbackCommit, TxnResult
  <2> QED
    BY <1>0, <1>12, <2>1, <2>2, <2>3 DEF CallbackCommit
<1>13. ASSUME NEW c \in Callback, CallbackRollback(c) PROVE TypeOK'
  BY <1>0, <1>13 DEF CallbackRollback, CbState, CbIdle, Status, Served
<1>14. ASSUME NEW s \in Session, Elapse(s) PROVE TypeOK'
  BY <1>0, <1>14 DEF Elapse
<1>15. CASE ExpiryNext
  BY <1>0, <1>15 DEF ExpiryNext, ExpirySelect, IsOver, ExpiryRemove, AfterRemoveUser, ExpiryCommit,
          JobIdle, Status, Served
<1>16. CASE DeskNext
  BY <1>0, <1>16 DEF DeskNext, TerminateLoad, LockLoad, DeskCommit, DeskIdle, Status, Served
<1>17. CASE Crash
  BY <1>0, <1>17 DEF Crash, ReqState, ReqIdle, CbState, CbIdle, JobIdle, DeskIdle, Status, Served
<1>18. CASE UNCHANGED vars
  BY <1>0, <1>18
<1> QED
  BY <1>0, <1>1, <1>2, <1>3, <1>4, <1>5, <1>6, <1>7, <1>8, <1>9, <1>10, <1>11, <1>12,
     <1>13, <1>14, <1>15, <1>16, <1>17, <1>18
  DEF Next, RequestNext, RequestStep, CallbackNext, CallbackStep, Environment

-----------------------------------------------------------------------------
(* What every step leaves alone.                                           *)

\* An answered prompt keeps its answer, and a transaction keeps the session
\* it is for.  A step takes no session and no M-Pesa row away.
LEMMA Stable ==
    IInv /\ [Next]_vars =>
        /\ \A t \in Txn : phone[t] \in Answer => phone'[t] = phone[t]
        /\ \A t \in Txn : mpesa[t] # "none" => ref'[t] = ref[t] /\ mpesa'[t] # "none"
        /\ \A s \in Session : status[s] # "none" => status'[s] # "none"
        /\ \A s \in Session : ledger[s] # "none" => ledger'[s] # "none"
<1> SUFFICES ASSUME IInv, [Next]_vars
    PROVE /\ \A t \in Txn : phone[t] \in Answer => phone'[t] = phone[t]
          /\ \A t \in Txn : mpesa[t] # "none" => ref'[t] = ref[t] /\ mpesa'[t] # "none"
          /\ \A s \in Session : status[s] # "none" => status'[s] # "none"
          /\ \A s \in Session : ledger[s] # "none" => ledger'[s] # "none"
  OBVIOUS
<1> USE DEF IInv, TypeOK, database, outside, handlers, vars
<1>1. ASSUME NEW r \in Request, RequestNext(r)
      PROVE /\ \A t \in Txn : phone[t] \in Answer => phone'[t] = phone[t]
            /\ \A t \in Txn : mpesa[t] # "none" => ref'[t] = ref[t] /\ mpesa'[t] # "none"
            /\ \A s \in Session : status[s] # "none" => status'[s] # "none"
            /\ \A s \in Session : ledger[s] # "none" => ledger'[s] # "none"
  <2>1. CASE \E d \in Device : CheckDevice(r, d)
    BY <2>1 DEF CheckDevice
  <2>2. CASE \E s \in Session : InsertSession(r, s)
    BY <2>2 DEF InsertSession
  <2>3. CASE \E s \in Session : PayForSession(r, s)
    BY <2>3 DEF PayForSession
  <2>4. CASE PushUnconfigured(r)
    BY <2>4 DEF PushUnconfigured
  <2>5. CASE \E t \in Txn : PushPrompt(r, t)
    BY <2>5 DEF PushPrompt, Unused, Answer
  <2>6. CASE CommitPush(r)
    BY <2>6 DEF CommitPush, BookSale, RequestInv, Pushing, Answered
  <2> QED
    BY <1>1, <2>1, <2>2, <2>3, <2>4, <2>5, <2>6 DEF RequestNext, RequestStep
<1>2. ASSUME NEW c \in Callback, CallbackNext(c)
      PROVE /\ \A t \in Txn : phone[t] \in Answer => phone'[t] = phone[t]
            /\ \A t \in Txn : mpesa[t] # "none" => ref'[t] = ref[t] /\ mpesa'[t] # "none"
            /\ \A s \in Session : status[s] # "none" => status'[s] # "none"
            /\ \A s \in Session : ledger[s] # "none" => ledger'[s] # "none"
  <2>1. CASE \E t \in Txn : CallbackBegin(c, t)
    BY <2>1 DEF CallbackBegin, Deliver
  <2>2. CASE CallbackLoad(c)
    BY <2>2 DEF CallbackLoad
  <2>3. CASE CallbackProvision(c)
    BY <2>3 DEF CallbackProvision
  <2>4. CASE CallbackCommit(c)
    BY <2>4 DEF CallbackCommit, TxnResult, SessionResult, BooksReceipt
  <2>5. CASE CallbackRollback(c)
    BY <2>5 DEF CallbackRollback
  <2> QED
    BY <1>2, <2>1, <2>2, <2>3, <2>4, <2>5 DEF CallbackNext, CallbackStep
<1>3. CASE ExpiryNext
  BY <1>3 DEF ExpiryNext, ExpirySelect, ExpiryRemove, ExpiryCommit
<1>4. CASE DeskNext
  BY <1>4 DEF DeskNext, TerminateLoad, LockLoad, DeskCommit
<1>5. CASE Environment
  BY <1>5 DEF Environment, AnswerPrompt, CallbackIgnored, Deliver, Elapse, Crash, Answer
<1>6. CASE UNCHANGED vars
  BY <1>6
<1> QED
  BY <1>1, <1>2, <1>3, <1>4, <1>5, <1>6 DEF Next

\* A session that was paid for stays paid.
LEMMA PaidStable ==
    ASSUME IInv, [Next]_vars, NEW s \in Session, Paid(s)
    PROVE  Paid(s)'
<1>1. PICK t \in Txn : ref[t] = s /\ phone[t] = "paid"
  BY DEF Paid
<1>2. mpesa[t] # "none"
  BY <1>1, PaymentAssumption DEF IInv, TxnInv
<1>3. ref'[t] = s /\ phone'[t] = "paid"
  BY <1>1, <1>2, Stable DEF Answer
<1> QED
  BY <1>3 DEF Paid

-----------------------------------------------------------------------------
(* Each part of the invariant is preserved.                                *)

\* RequestInv: requests keep to existing sessions and to transactions of
\* their own.
LEMMA RequestInvStep == IInv /\ [Next]_vars => RequestInv'
<1> SUFFICES ASSUME IInv, [Next]_vars PROVE RequestInv'
  OBVIOUS
<1> USE DEF Pushing, Answered, database, outside, handlers, vars
<1>0. TypeOK /\ RequestInv /\ TxnInv /\ CallbackInv /\ LedgerInv
  BY DEF IInv
<1>1. ASSUME NEW r \in Request, NEW d \in Device, CheckDevice(r, d) PROVE RequestInv'
  BY <1>0, <1>1 DEF CheckDevice, RequestInv, TypeOK, ReqIdle
<1>2. ASSUME NEW r \in Request, NEW s \in Session, InsertSession(r, s) PROVE RequestInv'
  BY <1>0, <1>2 DEF InsertSession, RequestInv, TypeOK, ReqState, LedgerInv
<1>3. ASSUME NEW r \in Request, NEW s \in Session, PayForSession(r, s) PROVE RequestInv'
  BY <1>0, <1>3 DEF PayForSession, RequestInv, TypeOK, ReqIdle
<1>4. ASSUME NEW r \in Request, PushUnconfigured(r) PROVE RequestInv'
  BY <1>0, <1>4 DEF PushUnconfigured, RequestInv, TypeOK, ReqIdle
<1>5. ASSUME NEW r \in Request, NEW t \in Txn, PushPrompt(r, t) PROVE RequestInv'
  BY <1>0, <1>5 DEF PushPrompt, Unused, RequestInv, TypeOK, ReqState
<1>6. ASSUME NEW r \in Request, CommitPush(r) PROVE RequestInv'
  BY <1>0, <1>6 DEF CommitPush, BookSale, RequestInv, TypeOK, ReqIdle
<1>7. ASSUME NEW c \in Callback, CallbackCommit(c) PROVE RequestInv'
  BY <1>0, <1>7 DEF CallbackCommit, BooksReceipt, SessionResult, TxnResult, RequestInv,
                    CallbackInv, TxnInv, TypeOK
<1>8. ASSUME NEW c \in Callback, CallbackNext(c), ~ CallbackCommit(c) PROVE RequestInv'
  BY <1>0, <1>8, ZenonT(40) DEF CallbackNext, CallbackStep, CallbackBegin, CallbackLoad,
                    CallbackProvision, CallbackRollback, RequestInv
<1>9. CASE ExpiryNext
  BY <1>0, <1>9 DEF ExpiryNext, ExpirySelect, ExpiryRemove, ExpiryCommit, RequestInv, TypeOK
<1>10. CASE DeskNext
  BY <1>0, <1>10 DEF DeskNext, TerminateLoad, LockLoad, DeskCommit, RequestInv, TypeOK
<1>11. CASE Crash
  BY <1>0, <1>11 DEF Crash, RequestInv, ReqIdle
<1>12. CASE \E t \in Txn : AnswerPrompt(t) \/ CallbackIgnored(t)
  BY <1>0, <1>12 DEF AnswerPrompt, CallbackIgnored, RequestInv
<1>13. CASE \E s \in Session : Elapse(s)
  BY <1>0, <1>13 DEF Elapse, RequestInv
<1>14. CASE UNCHANGED vars
  BY <1>0, <1>14 DEF RequestInv
<1> QED
  BY <1>1, <1>2, <1>3, <1>4, <1>5, <1>6, <1>7, <1>8, <1>9, <1>10, <1>11, <1>12, <1>13, <1>14
  DEF Next, RequestNext, RequestStep, CallbackNext, CallbackStep, Environment

\* TxnInv: a committed transaction keeps to its session and its outcome.
LEMMA TxnInvStep == IInv /\ [Next]_vars => TxnInv'
<1> SUFFICES ASSUME IInv, [Next]_vars PROVE TxnInv'
  OBVIOUS
<1> USE DEF TxnResult, database, outside, handlers, vars
<1>0. TypeOK /\ RequestInv /\ TxnInv /\ CallbackInv
  BY DEF IInv
<1>1. ASSUME NEW r \in Request, CommitPush(r) PROVE TxnInv'
  BY <1>0, <1>1, PaymentAssumption
  DEF CommitPush, RequestInv, Pushing, Answered, TxnInv, TypeOK
<1>2. ASSUME NEW c \in Callback, CallbackCommit(c) PROVE TxnInv'
  BY <1>0, <1>2 DEF CallbackCommit, SessionResult, CallbackInv, TxnInv, TypeOK
<1>3. ASSUME NEW r \in Request, RequestNext(r), ~ CommitPush(r) PROVE TxnInv'
  <2>1. CASE \E s \in Session : InsertSession(r, s)
    BY <1>0, <2>1 DEF InsertSession, TxnInv, TypeOK
  <2>2. CASE \E t \in Txn : PushPrompt(r, t)
    BY <1>0, <2>2 DEF PushPrompt, Unused, Answer, TxnInv, TypeOK
  <2>3. CASE \/ \E d \in Device : CheckDevice(r, d)
             \/ \E s \in Session : PayForSession(r, s)
             \/ PushUnconfigured(r)
    BY <1>0, <2>3 DEF CheckDevice, PayForSession, PushUnconfigured, TxnInv
  <2> QED
    BY <1>3, <2>1, <2>2, <2>3 DEF RequestNext, RequestStep
<1>4. ASSUME NEW c \in Callback, CallbackNext(c), ~ CallbackCommit(c) PROVE TxnInv'
  BY <1>0, <1>4 DEF CallbackNext, CallbackStep, CallbackBegin, Deliver, CallbackLoad,
                    CallbackProvision, CallbackRollback, TxnInv
<1>5. CASE ExpiryNext
  BY <1>0, <1>5 DEF ExpiryNext, ExpirySelect, ExpiryRemove, ExpiryCommit, TxnInv, TypeOK
<1>6. CASE DeskNext
  BY <1>0, <1>6 DEF DeskNext, TerminateLoad, LockLoad, DeskCommit, TxnInv, TypeOK
<1>7. CASE Environment
  BY <1>0, <1>7 DEF Environment, AnswerPrompt, CallbackIgnored, Deliver, Elapse, Crash,
                    Answer, TxnInv, TypeOK
<1>8. CASE UNCHANGED vars
  BY <1>0, <1>8 DEF TxnInv
<1> QED
  BY <1>1, <1>2, <1>3, <1>4, <1>5, <1>6, <1>7, <1>8 DEF Next

\* CallbackInv: a callback handler works on a committed, answered transaction.
LEMMA CallbackInvStep == IInv /\ [Next]_vars => CallbackInv'
<1> SUFFICES ASSUME IInv, [Next]_vars PROVE CallbackInv'
  OBVIOUS
<1> USE DEF database, outside, handlers, vars
<1>0. TypeOK /\ TxnInv /\ CallbackInv
  BY DEF IInv
<1>1. ASSUME NEW c \in Callback, cb'[c] = cb[c], cb[c].pc # "idle"
      PROVE  /\ cb'[c].txn \in Txn
             /\ mpesa'[cb'[c].txn] # "none"
             /\ phone'[cb'[c].txn] = phone[cb[c].txn]
             /\ cb'[c].booked => ledger'[ref'[cb'[c].txn]] # "none"
  BY <1>0, <1>1, Stable DEF CallbackInv, TxnInv
<1>2. ASSUME cb' = cb PROVE CallbackInv'
  BY <1>0, <1>1, <1>2 DEF CallbackInv
<1>3. ASSUME NEW c \in Callback, NEW t \in Txn, CallbackBegin(c, t) PROVE CallbackInv'
  BY <1>0, <1>3 DEF CallbackBegin, Deliver, CanDeliver, AwaitsResult, CbIdle, CallbackInv, TypeOK
<1>4. ASSUME NEW c \in Callback, CallbackLoad(c) PROVE CallbackInv'
  <2>1. /\ cb'[c].pc = AfterLoad(cb[c].txn) /\ cb'[c].txn = cb[c].txn
        /\ cb'[c].booked <=> ledger[ref[cb[c].txn]] # "none"
        /\ \A d \in Callback \ {c} : cb'[d] = cb[d]
    BY <1>0, <1>4 DEF CallbackLoad, TypeOK, CbState
  <2>2. UNCHANGED <<database, outside, req>> /\ cb[c].pc = "begun"
    BY <1>4 DEF CallbackLoad
  <2> QED
    BY <1>0, <2>1, <2>2 DEF AfterLoad, CallbackInv
<1>5. ASSUME NEW c \in Callback, CallbackProvision(c) PROVE CallbackInv'
  BY <1>0, <1>5 DEF CallbackProvision, CallbackInv, TypeOK, CbState
<1>6. ASSUME NEW c \in Callback, CallbackCommit(c) \/ CallbackRollback(c) PROVE CallbackInv'
  <2>1. cb' = [cb EXCEPT ![c] = CbIdle]
    BY <1>6 DEF CallbackCommit, CallbackRollback
  <2>2. phone' = phone
    BY <1>6 DEF CallbackCommit, CallbackRollback
  <2>3. SUFFICES ASSUME NEW d \in Callback, cb'[d].pc # "idle"
        PROVE  /\ cb'[d].txn \in Txn
               /\ mpesa'[cb'[d].txn] # "none"
               /\ phone'[cb'[d].txn] \in Answer
               /\ cb'[d].pc = "provision" => phone'[cb'[d].txn] = "paid"
               /\ cb'[d].booked => ledger'[ref'[cb'[d].txn]] # "none"
    BY DEF CallbackInv
  <2>4. cb'[d] = cb[d]
    BY <1>0, <2>1, <2>3 DEF CbIdle, TypeOK
  <2> QED
    BY <1>0, <1>1, <2>2, <2>3, <2>4 DEF CallbackInv
<1>7. CASE Crash
  BY <1>0, <1>7 DEF Crash, CallbackInv, CbIdle
<1>8. CASE \/ \E r \in Request : RequestNext(r)
           \/ ExpiryNext
           \/ DeskNext
           \/ \E t \in Txn : AnswerPrompt(t) \/ CallbackIgnored(t)
           \/ \E s \in Session : Elapse(s)
           \/ UNCHANGED vars
  <2>1. cb' = cb
    BY <1>8 DEF RequestNext, RequestStep, CheckDevice, InsertSession, PayForSession,
                PushUnconfigured, PushPrompt, CommitPush, ExpiryNext, ExpirySelect,
                ExpiryRemove, ExpiryCommit, DeskNext, TerminateLoad, LockLoad, DeskCommit,
                AnswerPrompt, CallbackIgnored, Elapse
  <2> QED
    BY <1>2, <2>1
<1> QED
  BY <1>3, <1>4, <1>5, <1>6, <1>7, <1>8 DEF Next, CallbackNext, CallbackStep, Environment

\* AccessInv: access is only ever given to a session that was paid for.
LEMMA AccessInvStep == IInv /\ [Next]_vars => AccessInv'
<1> SUFFICES ASSUME IInv, [Next]_vars PROVE AccessInv'
  OBVIOUS
<1> USE DEF database, outside, handlers, vars
<1>0. TypeOK /\ TxnInv /\ CallbackInv /\ AccessInv
  BY DEF IInv
<1>1. \A s \in Session : Paid(s) => Paid(s)'
  BY PaidStable
<1> DEFINE Known(s) == \/ status[s] \in Served
                       \/ s \in router
                       \/ s \in job.todo \cup job.done \cup desk.targets
<1>2. \A s \in Session : Known(s) => Paid(s)
  BY <1>0 DEF AccessInv, NoServiceWithoutPayment
<1>3. SUFFICES \A s \in Session : Known(s)' => Known(s) \/ Paid(s)'
  <2>1. \A s \in Session : Known(s)' => Paid(s)'
    BY <1>1, <1>2, <1>3
  <2>2. job' \in [todo : SUBSET Session, done : SUBSET Session] /\ desk'.targets \subseteq Session
    BY TypeOKStep DEF TypeOK
  <2> QED
    BY <2>1, <2>2 DEF AccessInv, NoServiceWithoutPayment
<1>4. ASSUME NEW c \in Callback, CallbackProvision(c)
      PROVE  \A s \in Session : Known(s)' => Known(s) \/ Paid(s)'
  <2>1. Paid(ref[cb[c].txn])'
    BY <1>0, <1>4 DEF CallbackProvision, CallbackInv, Paid
  <2> QED
    BY <1>4, <2>1 DEF CallbackProvision, AfterCreateUser
<1>5. ASSUME NEW c \in Callback, CallbackCommit(c)
      PROVE  \A s \in Session : Known(s)' => Known(s) \/ Paid(s)'
  <2>1. ASSUME NEW s \in Session, s = ref[cb[c].txn], phone[cb[c].txn] = "paid"
        PROVE  Paid(s)'
    BY <1>0, <1>5, <2>1 DEF CallbackCommit, CallbackInv, Paid
  <2> QED
    BY <1>0, <1>5, <2>1 DEF CallbackCommit, SessionResult, Served, TypeOK
<1>6. CASE ExpiryNext
  BY <1>0, <1>6 DEF ExpiryNext, ExpirySelect, IsOver, ExpiryRemove, AfterRemoveUser,
                    ExpiryCommit, JobIdle, Served, TypeOK
<1>7. CASE DeskNext
  BY <1>0, <1>7 DEF DeskNext, TerminateLoad, LockLoad, DeskCommit, DeskIdle, Served, TypeOK
<1>8. CASE Crash
  BY <1>8 DEF Crash, JobIdle, DeskIdle
<1>9. ASSUME NEW r \in Request, NEW s \in Session, InsertSession(r, s)
      PROVE  \A x \in Session : Known(x)' => Known(x) \/ Paid(x)'
  BY <1>0, <1>9 DEF InsertSession, Served, TypeOK
<1>10. ASSUME status' = status, router' = router, job' = job, desk' = desk
       PROVE  \A s \in Session : Known(s)' => Known(s) \/ Paid(s)'
  BY <1>10
<1>11. CASE \/ \E r \in Request : \/ \E d \in Device : CheckDevice(r, d)
                                  \/ \E s \in Session : PayForSession(r, s)
                                  \/ PushUnconfigured(r)
                                  \/ \E t \in Txn : PushPrompt(r, t)
                                  \/ CommitPush(r)
            \/ \E c \in Callback : \/ \E t \in Txn : CallbackBegin(c, t)
                                   \/ CallbackLoad(c)
                                   \/ CallbackRollback(c)
            \/ \E t \in Txn : AnswerPrompt(t) \/ CallbackIgnored(t)
            \/ \E s \in Session : Elapse(s)
            \/ UNCHANGED vars
  <2>1. status' = status /\ router' = router /\ job' = job /\ desk' = desk
    BY <1>11 DEF CheckDevice, PayForSession, PushUnconfigured, PushPrompt, CommitPush,
                 CallbackBegin, Deliver, CallbackLoad, CallbackRollback, AnswerPrompt,
                 CallbackIgnored, Elapse
  <2> QED
    BY <1>10, <2>1
<1> QED
  BY <1>4, <1>5, <1>6, <1>7, <1>8, <1>9, <1>11
  DEF Next, RequestNext, RequestStep, CallbackNext, CallbackStep, Environment

\* LedgerInv: a receipt is written only by the commit that makes its
\* transaction a success, and no later commit changes the transaction.
LEMMA LedgerInvStep == IInv /\ [Next]_vars => LedgerInv'
<1> SUFFICES ASSUME IInv, [Next]_vars PROVE LedgerInv'
  OBVIOUS
<1> USE PaymentAssumption DEF LedgerInv, ReceiptsAreReal, database, outside, handlers, vars
<1>0. TypeOK /\ RequestInv /\ TxnInv /\ CallbackInv /\ LedgerInv
  BY DEF IInv
<1>1. ASSUME NEW r \in Request, CommitPush(r) PROVE LedgerInv'
  <2> DEFINE x == req[r].sess
             t == req[r].txn
  <2>1. x \in Session /\ status[x] # "none" /\ t \in Txn /\ mpesa[t] = "none"
    BY <1>0, <1>1 DEF CommitPush, RequestInv, Pushing, Answered
  <2>2. \A u \in Txn : mpesa[u] = "success" => ref'[u] = ref[u] /\ mpesa'[u] = "success"
    BY <1>0, <1>1, <2>1 DEF CommitPush, TypeOK
  <2>3. ledger' = ledger \/ (ledger[x] = "none" /\ ledger' = [ledger EXCEPT ![x] = "pending"])
    BY <1>0, <1>1, <2>1 DEF CommitPush, BookSale, RequestInv, Pushing
  <2>4. receipt' = receipt /\ status' = status
    BY <1>1 DEF CommitPush
  <2> QED
    BY <1>0, <2>1, <2>2, <2>3, <2>4 DEF TypeOK
<1>2. ASSUME NEW c \in Callback, CallbackCommit(c) PROVE LedgerInv'
  <2> DEFINE t == cb[c].txn
             x == ref[t]
  <2>1. t \in Txn /\ x \in Session /\ status[x] # "none"
    BY <1>0, <1>2 DEF CallbackCommit, CallbackInv, TxnInv
  <2>2. mpesa' = [mpesa EXCEPT ![t] = TxnResult(t)] /\ ref' = ref
    BY <1>2 DEF CallbackCommit
  <2>3. \A u \in Txn : mpesa[u] = "success" => mpesa'[u] = "success"
    BY <1>0, <2>1, <2>2 DEF TxnInv, TypeOK
  <2>4. status'[x] # "none" /\ \A s \in Session : s # x => status'[s] = status[s]
    BY <1>0, <1>2, <2>1 DEF CallbackCommit, SessionResult, TypeOK
  <2>5. CASE BooksReceipt(c)
    <3>1. mpesa'[t] = "success"
      BY <1>0, <2>1, <2>2, <2>5 DEF BooksReceipt, TxnResult, TypeOK
    <3>2. ledger' = [ledger EXCEPT ![x] = "success"] /\ receipt' = [receipt EXCEPT ![x] = t]
      BY <1>2, <2>5 DEF CallbackCommit
    <3> QED
      BY <1>0, <2>1, <2>2, <2>3, <2>4, <3>1, <3>2 DEF TypeOK
  <2>6. CASE ~ BooksReceipt(c)
    <3>1. ledger' = ledger /\ receipt' = receipt
      BY <1>2, <2>6 DEF CallbackCommit
    <3> QED
      BY <1>0, <2>1, <2>2, <2>3, <2>4, <3>1 DEF TypeOK
  <2> QED
    BY <2>5, <2>6
<1>3. ASSUME UNCHANGED <<ledger, receipt, mpesa, ref>> PROVE LedgerInv'
  BY <1>0, <1>3, Stable
<1>4. CASE \/ \E r \in Request : RequestNext(r) /\ ~ CommitPush(r)
           \/ \E c \in Callback : CallbackNext(c) /\ ~ CallbackCommit(c)
           \/ ExpiryNext
           \/ DeskNext
           \/ Environment
           \/ UNCHANGED vars
  <2>1. UNCHANGED <<ledger, receipt, mpesa, ref>>
    BY <1>4 DEF RequestNext, RequestStep, CheckDevice, InsertSession, PayForSession,
                PushUnconfigured, PushPrompt, CallbackNext, CallbackStep, CallbackBegin,
                Deliver, CallbackLoad, CallbackProvision, CallbackRollback,
                ExpiryNext, ExpirySelect, ExpiryRemove, ExpiryCommit,
                DeskNext, TerminateLoad, LockLoad, DeskCommit,
                Environment, AnswerPrompt, CallbackIgnored, Elapse, Crash
  <2> QED
    BY <1>3, <2>1
<1> QED
  BY <1>1, <1>2, <1>4 DEF Next

-----------------------------------------------------------------------------
(* The theorems.                                                           *)

\* Every step of the sale preserves the inductive invariant.
LEMMA IInvStep == IInv /\ [Next]_vars => IInv'
BY TypeOKStep, RequestInvStep, TxnInvStep, CallbackInvStep, AccessInvStep, LedgerInvStep DEF IInv

\* The inductive invariant holds in every reachable state, however requests,
\* callbacks, the jobs, the desk and crashes interleave.
THEOREM Invariance == Spec => []IInv
BY InitIInv, IInvStep, PTL DEF Spec

\* Every variable keeps its type: no handler writes a status, a session or a
\* transaction that is not one, whatever it had read before its awaits.
THEOREM TypeCorrect == Spec => []TypeOK
<1>1. IInv => TypeOK
  BY DEF IInv
<1> QED
  BY <1>1, Invariance, PTL

\* NoServiceWithoutPayment holds of every interleaving: what has been active,
\* or is on the router, was paid for on the customer's phone.
THEOREM AccessIsPaid == Spec => []NoServiceWithoutPayment
<1>1. IInv => NoServiceWithoutPayment
  BY DEF IInv, AccessInv
<1> QED
  BY <1>1, Invariance, PTL

\* ReceiptsAreReal holds of every interleaving: process_callback never books
\* a receipt that is not a successful payment of the same session.
THEOREM LedgerIsReal == Spec => []ReceiptsAreReal
<1>1. IInv => ReceiptsAreReal
  BY DEF IInv, LedgerInv
<1> QED
  BY <1>1, Invariance, PTL

\* ProcessedIsFinal: no step, a repeated callback's commit included, changes
\* the outcome of a processed transaction or forgets that it is processed.
THEOREM OutcomeIsFinal == Spec => ProcessedIsFinal
<1>1. IInv /\ [Next]_vars => [\A t \in processed : t \in processed' /\ mpesa'[t] = mpesa[t]]_vars
  <2> SUFFICES ASSUME IInv, [Next]_vars, NEW t \in processed
               PROVE  t \in processed' /\ mpesa'[t] = mpesa[t]
    OBVIOUS
  <2> USE DEF database, outside, handlers, vars
  <2>0. /\ TypeOK /\ RequestInv /\ TxnInv /\ CallbackInv
        /\ t \in Txn
    BY DEF IInv, TypeOK
  <2>1. mpesa[t] = TxnResult(t)
    BY <2>0 DEF TxnInv
  <2>2. ASSUME NEW r \in Request, CommitPush(r)
        PROVE  t \in processed' /\ mpesa'[t] = mpesa[t]
    <3>1. req[r].txn # t
      BY <2>0, <2>1, <2>2 DEF CommitPush, RequestInv, Answered, TxnResult
    <3> QED
      BY <2>0, <2>2, <3>1 DEF CommitPush, TypeOK
  <2>3. ASSUME NEW c \in Callback, CallbackCommit(c)
        PROVE  t \in processed' /\ mpesa'[t] = mpesa[t]
    BY <2>0, <2>1, <2>3 DEF CallbackCommit, TypeOK
  <2>4. CASE \/ \E r \in Request : RequestNext(r) /\ ~ CommitPush(r)
             \/ \E c \in Callback : CallbackNext(c) /\ ~ CallbackCommit(c)
             \/ ExpiryNext
             \/ DeskNext
             \/ Environment
             \/ UNCHANGED vars
    BY <2>4 DEF RequestNext, RequestStep, CheckDevice, InsertSession, PayForSession,
                PushUnconfigured, PushPrompt, CallbackNext, CallbackStep, CallbackBegin,
                Deliver, CallbackLoad, CallbackProvision, CallbackRollback,
                ExpiryNext, ExpirySelect, ExpiryRemove, ExpiryCommit,
                DeskNext, TerminateLoad, LockLoad, DeskCommit,
                Environment, AnswerPrompt, CallbackIgnored, Elapse, Crash
  <2> QED
    BY <2>2, <2>3, <2>4 DEF Next
<1> QED
  BY <1>1, Invariance, PTL DEF Spec, ProcessedIsFinal

-----------------------------------------------------------------------------
(* The sale implements PaidAccess.                                         *)

PaidSet   == {s \in Session : Paid(s)}
AccessSet == {s \in Session : status[s] = "active" \/ s \in router}

\* A step that pays for nothing and gives no access is a loss of access.
LEMMA RevokeStep ==
    ASSUME PaidSet' = PaidSet, AccessSet' \subseteq AccessSet
    PROVE  PA!Next
<1>1. AccessSet' = AccessSet \ (AccessSet \ AccessSet')
  OBVIOUS
<1>2. (AccessSet \ AccessSet') \in SUBSET Session
  BY DEF AccessSet
<1>3. \E S \in SUBSET Session : PA!Revoke(S)
  BY <1>1, <1>2 DEF PA!Revoke, PaidSet, AccessSet
<1> QED
  BY <1>3 DEF PA!Next

\* A step that leaves the phones and the sessions of the transactions alone
\* pays for nothing.
LEMMA SamePaid ==
    ASSUME phone' = phone, ref' = ref
    PROVE  PaidSet' = PaidSet
BY DEF PaidSet, Paid

\* Only an answer on the phone, and the commit of a push that was answered
\* before it, can make a session paid; each concerns one transaction.
LEMMA OnePaid ==
    ASSUME IInv, [Next]_vars, NEW t \in Txn, NEW s \in Session, ref'[t] = s,
           AccessSet' = AccessSet,
           \A u \in Txn : u # t => phone'[u] = phone[u] /\ ref'[u] = ref[u],
           phone'[t] = phone[t] \/ ref'[t] = ref[t]
    PROVE  [PA!Next]_<<PaidSet, AccessSet>>
<1>1. \A x \in Session : x # s => (Paid(x)' <=> Paid(x))
  <2>1. ASSUME NEW x \in Session, x # s, Paid(x)' PROVE Paid(x)
    BY <2>1 DEF Paid
  <2> QED
    BY <2>1, PaidStable
<1>2. CASE Paid(s)'
  <2>1. PaidSet' = PaidSet \cup {s}
    BY <1>1, <1>2 DEF PaidSet
  <2>2. PA!Pay(s)
    BY <2>1 DEF PA!Pay, PaidSet, AccessSet
  <2> QED
    BY <2>2 DEF PA!Next
<1>3. CASE ~ Paid(s)'
  <2>1. ~ Paid(s)
    BY <1>3, PaidStable
  <2>2. PaidSet' = PaidSet
    BY <1>1, <1>3, <2>1 DEF PaidSet
  <2> QED
    BY <2>2
<1> QED
  BY <1>2, <1>3

\* A step that gives one paid session access is a grant.
LEMMA GrantStep ==
    ASSUME NEW s \in Session, Paid(s), PaidSet' = PaidSet,
           AccessSet' = AccessSet \cup {s}
    PROVE  PA!Next
<1>1. PA!Grant(s)
  BY DEF PA!Grant, PaidSet, AccessSet
<1> QED
  BY <1>1 DEF PA!Next

\* Every step of the sale is a step of PaidAccess or changes nothing it sees.
LEMMA PAStep == IInv /\ [Next]_vars => [PA!Next]_<<PaidSet, AccessSet>>
<1> SUFFICES ASSUME IInv, [Next]_vars PROVE [PA!Next]_<<PaidSet, AccessSet>>
  OBVIOUS
<1> USE DEF database, outside, handlers, vars
<1>0. TypeOK /\ RequestInv /\ TxnInv /\ CallbackInv /\ AccessInv
  BY DEF IInv
<1>1. ASSUME PaidSet' = PaidSet, AccessSet' = AccessSet
      PROVE  [PA!Next]_<<PaidSet, AccessSet>>
  BY <1>1
<1>2. ASSUME NEW r \in Request, CommitPush(r) PROVE [PA!Next]_<<PaidSet, AccessSet>>
  <2>1. /\ req[r].txn \in Txn
        /\ req[r].sess \in Session
        /\ ref' = [ref EXCEPT ![req[r].txn] = req[r].sess]
        /\ phone' = phone /\ status' = status /\ router' = router
    BY <1>0, <1>2 DEF CommitPush, RequestInv, Pushing, Answered
  <2>2. AccessSet' = AccessSet
    BY <2>1 DEF AccessSet
  <2>3. ref'[req[r].txn] = req[r].sess
    BY <1>0, <2>1 DEF TypeOK
  <2>4. \A u \in Txn : u # req[r].txn => phone'[u] = phone[u] /\ ref'[u] = ref[u]
    BY <1>0, <2>1 DEF TypeOK
  <2>5. ASSUME NEW t \in Txn, NEW s \in Session, t = req[r].txn, s = req[r].sess
        PROVE  [PA!Next]_<<PaidSet, AccessSet>>
    BY <2>1, <2>2, <2>3, <2>4, <2>5, OnePaid
  <2> QED
    BY <2>1, <2>5
<1>3. ASSUME NEW t \in Txn, AnswerPrompt(t) PROVE [PA!Next]_<<PaidSet, AccessSet>>
  <2>1. /\ ref' = ref /\ status' = status /\ router' = router
        /\ \A u \in Txn : u # t => phone'[u] = phone[u]
    BY <1>0, <1>3 DEF AnswerPrompt, TypeOK
  <2>2. AccessSet' = AccessSet
    BY <2>1 DEF AccessSet
  <2>3. CASE ref[t] \in Session
    BY <2>1, <2>2, <2>3, OnePaid
  <2>4. CASE ref[t] \notin Session
    <3>1. \A s \in Session : Paid(s)' <=> Paid(s)
      BY <2>1, <2>4 DEF Paid
    <3> QED
      BY <1>1, <2>2, <3>1 DEF PaidSet
  <2> QED
    BY <2>3, <2>4
<1>4. ASSUME NEW c \in Callback, CallbackProvision(c)
      PROVE  [PA!Next]_<<PaidSet, AccessSet>>
  <2> DEFINE s == ref[cb[c].txn]
  <2>1. s \in Session /\ Paid(s)
    BY <1>0, <1>4 DEF CallbackProvision, CallbackInv, TxnInv, Paid
  <2>2. PaidSet' = PaidSet
    BY <1>4, SamePaid DEF CallbackProvision
  <2>3. CASE router' = router \cup {s}
    <3>1. AccessSet' = AccessSet \cup {s}
      BY <1>4, <2>1, <2>3 DEF CallbackProvision, AccessSet
    <3> QED
      BY <2>1, <2>2, <3>1, GrantStep
  <2>4. CASE router' = router
    BY <1>1, <1>4, <2>2, <2>4 DEF CallbackProvision, AccessSet
  <2> QED
    BY <1>4, <2>3, <2>4 DEF CallbackProvision, AfterCreateUser
<1>5. ASSUME NEW c \in Callback, CallbackCommit(c)
      PROVE  [PA!Next]_<<PaidSet, AccessSet>>
  <2> DEFINE t == cb[c].txn
             s == ref[t]
  <2>1. t \in Txn /\ s \in Session
    BY <1>0, <1>5 DEF CallbackCommit, CallbackInv, TxnInv
  <2>2. PaidSet' = PaidSet
    BY <1>5, SamePaid DEF CallbackCommit
  <2>3. router' = router
    BY <1>5 DEF CallbackCommit
  <2>4. CASE status' = status
    BY <1>1, <2>2, <2>3, <2>4 DEF AccessSet
  <2>5. CASE status' = [status EXCEPT ![s] = "active"] /\ phone[t] = "paid"
    <3>1. AccessSet' = AccessSet \cup {s}
      BY <1>0, <2>1, <2>3, <2>5 DEF AccessSet, TypeOK
    <3>2. Paid(s)
      BY <2>1, <2>5 DEF Paid
    <3> QED
      BY <2>1, <2>2, <3>1, <3>2, GrantStep
  <2>6. CASE status' = [status EXCEPT ![s] = "failed"]
    <3>1. AccessSet' \subseteq AccessSet
      BY <1>0, <2>1, <2>3, <2>6 DEF AccessSet, TypeOK
    <3> QED
      BY <2>2, <3>1, RevokeStep
  <2> QED
    BY <1>5, <2>4, <2>5, <2>6 DEF CallbackCommit, SessionResult
<1>6. ASSUME phone' = phone, ref' = ref, AccessSet' \subseteq AccessSet
      PROVE  [PA!Next]_<<PaidSet, AccessSet>>
  BY <1>6, SamePaid, RevokeStep
<1>7. CASE ExpiryNext
  <2>1. phone' = phone /\ ref' = ref
    BY <1>7 DEF ExpiryNext, ExpirySelect, ExpiryRemove, ExpiryCommit
  <2>2. AccessSet' \subseteq AccessSet
    BY <1>0, <1>7 DEF ExpiryNext, ExpirySelect, ExpiryRemove, ExpiryCommit, AfterRemoveUser,
                      AccessSet, TypeOK
  <2> QED
    BY <1>6, <2>1, <2>2
<1>8. CASE DeskNext
  <2>1. phone' = phone /\ ref' = ref
    BY <1>8 DEF DeskNext, TerminateLoad, LockLoad, DeskCommit
  <2>2. AccessSet' \subseteq AccessSet
    BY <1>0, <1>8 DEF DeskNext, TerminateLoad, LockLoad, DeskCommit, AccessSet, TypeOK
  <2> QED
    BY <1>6, <2>1, <2>2
<1>9. ASSUME NEW r \in Request, NEW x \in Session, InsertSession(r, x)
      PROVE  [PA!Next]_<<PaidSet, AccessSet>>
  <2>1. phone' = phone /\ ref' = ref /\ AccessSet' \subseteq AccessSet
    BY <1>0, <1>9 DEF InsertSession, AccessSet, TypeOK
  <2> QED
    BY <1>6, <2>1
<1>10. ASSUME NEW r \in Request, NEW t \in Txn, PushPrompt(r, t)
       PROVE  [PA!Next]_<<PaidSet, AccessSet>>
  <2>1. AccessSet' = AccessSet /\ ref' = ref
    BY <1>10 DEF PushPrompt, AccessSet
  <2>2. \A u \in Txn : phone'[u] = "paid" <=> phone[u] = "paid"
    BY <1>0, <1>10 DEF PushPrompt, Unused, TypeOK
  <2>3. PaidSet' = PaidSet
    BY <2>1, <2>2 DEF PaidSet, Paid
  <2> QED
    BY <1>1, <2>1, <2>3
<1>11. CASE \/ \E r \in Request : \/ \E d \in Device : CheckDevice(r, d)
                                  \/ \E s \in Session : PayForSession(r, s)
                                  \/ PushUnconfigured(r)
            \/ \E c \in Callback : \/ \E t \in Txn : CallbackBegin(c, t)
                                   \/ CallbackLoad(c)
                                   \/ CallbackRollback(c)
            \/ \E t \in Txn : CallbackIgnored(t)
            \/ \E s \in Session : Elapse(s)
            \/ Crash
            \/ UNCHANGED vars
  <2>1. phone' = phone /\ ref' = ref /\ status' = status /\ router' = router
    BY <1>11 DEF CheckDevice, PayForSession, PushUnconfigured, CallbackBegin, Deliver,
                 CallbackLoad, CallbackRollback, CallbackIgnored, Elapse, Crash
  <2>2. AccessSet' = AccessSet
    BY <2>1 DEF AccessSet
  <2> QED
    BY <1>1, <2>1, <2>2, SamePaid
<1> QED
  BY <1>2, <1>3, <1>4, <1>5, <1>7, <1>8, <1>9, <1>10, <1>11
  DEF Next, RequestNext, RequestStep, CallbackNext, CallbackStep, Environment

\* ImplementsPaidAccess: whatever the order of requests, callbacks, expiry,
\* locks and crashes, the sale gives access only to the paid, one session at
\* a time, and never takes a payment back.
THEOREM SaleImplementsPaidAccess == Spec => ImplementsPaidAccess
<1>1. Init => PA!Init
  BY DEF Init, PA!Init, Paid
<1>2. IInv /\ [Next]_vars =>
        [PA!Next]_<<{s \in Session : Paid(s)},
                    {s \in Session : status[s] = "active" \/ s \in router}>>
  BY PAStep DEF PaidSet, AccessSet
<1> QED
  BY <1>1, <1>2, Invariance, PTL DEF Spec, ImplementsPaidAccess, PA!Spec

-----------------------------------------------------------------------------
(* The sale implements MpesaPayment.                                       *)

\* A push that Daraja accepted is on the phone, and a callback works on a
\* transaction that waits for its result or has got it from another delivery.
MatchInv ==
    /\ \A r \in Request : req[r].pc = "accepted" => phone[req[r].txn] # "none"
    /\ \A c \in Callback : cb[c].pc # "idle" =>
            mpesa[cb[c].txn] = "processing" \/ cb[c].txn \in processed

\* MatchInv is preserved: a push works on a transaction of its own, which no
\* callback can be about before it is committed.
LEMMA MatchInvStep == IInv /\ MatchInv /\ [Next]_vars => MatchInv'
<1> SUFFICES ASSUME IInv, MatchInv, [Next]_vars PROVE MatchInv'
  OBVIOUS
<1> USE DEF MatchInv, database, outside, handlers, vars
<1>0. TypeOK /\ RequestInv /\ CallbackInv
  BY DEF IInv
<1>1. ASSUME NEW r \in Request, NEW d \in Device, CheckDevice(r, d) PROVE MatchInv'
  BY <1>0, <1>1 DEF CheckDevice, ReqIdle, TypeOK
<1>2. ASSUME NEW r \in Request, NEW s \in Session,
             InsertSession(r, s) \/ PayForSession(r, s)
      PROVE  MatchInv'
  <2>1. req'[r].pc = "inserted" /\ \A q \in Request \ {r} : req'[q] = req[q]
    <3>1. CASE InsertSession(r, s)
      BY <1>0, <3>1 DEF InsertSession, TypeOK, ReqState
    <3>2. CASE PayForSession(r, s)
      BY <1>0, <3>2 DEF PayForSession, ReqIdle, TypeOK
    <3> QED
      BY <1>2, <3>1, <3>2
  <2>2. UNCHANGED <<phone, cb, mpesa, processed>>
    BY <1>2 DEF InsertSession, PayForSession
  <2> QED
    BY <2>1, <2>2
<1>3. ASSUME NEW r \in Request, PushUnconfigured(r) PROVE MatchInv'
  BY <1>0, <1>3 DEF PushUnconfigured, ReqIdle, TypeOK
<1>4. ASSUME NEW r \in Request, NEW t \in Txn, PushPrompt(r, t) PROVE MatchInv'
  <2>1. UNCHANGED <<cb, mpesa, processed>>
    BY <1>4 DEF PushPrompt
  <2>2. PICK pc \in {"accepted", "refused"} :
            /\ req' = [req EXCEPT ![r].pc = pc, ![r].txn = t]
            /\ \/ phone' = [phone EXCEPT ![t] = "prompted"]
               \/ pc = "refused" /\ phone' = phone
    BY <1>4 DEF PushPrompt
  <2>3. /\ req'[r].pc = pc /\ req'[r].txn = t
        /\ \A q \in Request \ {r} : req'[q] = req[q]
    BY <1>0, <2>2 DEF TypeOK, ReqState
  <2>4. /\ \A u \in Txn : phone[u] # "none" => phone'[u] # "none"
        /\ pc = "accepted" => phone'[t] # "none"
    BY <1>0, <2>2 DEF TypeOK
  <2> QED
    BY <1>0, <2>1, <2>3, <2>4 DEF RequestInv, Answered
<1>5. ASSUME NEW r \in Request, CommitPush(r) PROVE MatchInv'
  <2>1. /\ UNCHANGED <<phone, cb, processed>>
        /\ mpesa[req[r].txn] = "none"
        /\ \A t \in Txn : t # req[r].txn => mpesa'[t] = mpesa[t]
    BY <1>0, <1>5 DEF CommitPush, RequestInv, Answered, TypeOK
  <2>2. req'[r].pc = "idle" /\ \A q \in Request \ {r} : req'[q] = req[q]
    BY <1>0, <1>5 DEF CommitPush, ReqIdle, TypeOK
  <2> QED
    BY <1>0, <2>1, <2>2 DEF CallbackInv
<1>6. ASSUME NEW c \in Callback, NEW t \in Txn, CallbackBegin(c, t) PROVE MatchInv'
  BY <1>0, <1>6 DEF CallbackBegin, AwaitsResult, CbIdle, TypeOK
<1>7. ASSUME NEW c \in Callback, CallbackLoad(c) \/ CallbackProvision(c) PROVE MatchInv'
  <2>1. UNCHANGED <<phone, req, mpesa, processed>> /\ cb[c].pc # "idle"
    BY <1>7 DEF CallbackLoad, CallbackProvision
  <2>2. cb'[c].txn = cb[c].txn /\ \A d \in Callback \ {c} : cb'[d] = cb[d]
    <3>1. CASE CallbackLoad(c)
      BY <1>0, <3>1 DEF CallbackLoad, TypeOK, CbState
    <3>2. CASE CallbackProvision(c)
      BY <1>0, <3>2 DEF CallbackProvision, TypeOK, CbState
    <3> QED
      BY <1>7, <3>1, <3>2
  <2> QED
    BY <2>1, <2>2
<1>8. ASSUME NEW c \in Callback, CallbackCommit(c) PROVE MatchInv'
  <2>1. UNCHANGED <<phone, req>> /\ processed' = processed \cup {cb[c].txn}
    BY <1>8 DEF CallbackCommit
  <2>2. \A t \in Txn : t # cb[c].txn => mpesa'[t] = mpesa[t]
    BY <1>0, <1>8 DEF CallbackCommit, TypeOK
  <2>3. cb'[c].pc = "idle" /\ \A d \in Callback \ {c} : cb'[d] = cb[d]
    BY <1>0, <1>8 DEF CallbackCommit, CbIdle, TypeOK
  <2> QED
    BY <1>0, <2>1, <2>2, <2>3 DEF CallbackInv
<1>9. ASSUME NEW c \in Callback, CallbackRollback(c) PROVE MatchInv'
  BY <1>0, <1>9 DEF CallbackRollback, CbIdle, TypeOK
<1>10. ASSUME NEW t \in Txn, AnswerPrompt(t) PROVE MatchInv'
  <2>1. UNCHANGED <<req, cb, mpesa, processed>>
    BY <1>10 DEF AnswerPrompt
  <2>2. \A u \in Txn : phone[u] # "none" => phone'[u] # "none"
    BY <1>0, <1>10 DEF AnswerPrompt, Answer, TypeOK
  <2> QED
    BY <1>0, <2>1, <2>2 DEF RequestInv, Answered
<1>11. CASE Crash
  BY <1>11 DEF Crash, ReqIdle, CbIdle
<1>12. CASE \/ ExpiryNext
            \/ DeskNext
            \/ \E t \in Txn : CallbackIgnored(t)
            \/ \E s \in Session : Elapse(s)
            \/ UNCHANGED vars
  <2>1. UNCHANGED <<phone, req, cb, mpesa, processed>>
    BY <1>12 DEF ExpiryNext, ExpirySelect, ExpiryRemove, ExpiryCommit, DeskNext,
                 TerminateLoad, LockLoad, DeskCommit, CallbackIgnored, Elapse
  <2> QED
    BY <2>1
<1> QED
  BY <1>1, <1>2, <1>3, <1>4, <1>5, <1>6, <1>7, <1>8, <1>9, <1>10, <1>11, <1>12
  DEF Next, RequestNext, RequestStep, CallbackNext, CallbackStep, Environment

\* Every step of the sale is a step of one payment or changes none.
LEMMA MPStep == IInv /\ MatchInv /\ [Next]_vars => [MP!Next]_<<phone, mpesa>>
<1> SUFFICES ASSUME IInv, MatchInv, [Next]_vars PROVE [MP!Next]_<<phone, mpesa>>
  OBVIOUS
<1> USE DEF database, outside, handlers, vars
<1>0. TypeOK /\ RequestInv /\ TxnInv /\ CallbackInv
  BY DEF IInv
<1>1. ASSUME NEW r \in Request, NEW t \in Txn, PushPrompt(r, t)
      PROVE  [MP!Next]_<<phone, mpesa>>
  <2>1. CASE phone' = [phone EXCEPT ![t] = "prompted"]
    <3>1. MP!SendPrompt(t)
      BY <1>1, <2>1 DEF PushPrompt, Unused, MP!SendPrompt
    <3> QED
      BY <3>1 DEF MP!Next
  <2>2. CASE phone' = phone
    BY <1>1, <2>2 DEF PushPrompt
  <2> QED
    BY <1>1, <2>1, <2>2 DEF PushPrompt
<1>2. ASSUME NEW r \in Request, CommitPush(r) PROVE [MP!Next]_<<phone, mpesa>>
  <2> DEFINE t == req[r].txn
             o == IF req[r].pc = "accepted" THEN "processing" ELSE "failed"
  <2>1. /\ t \in Txn
        /\ mpesa[t] = "none"
        /\ phone' = phone
        /\ mpesa' = [mpesa EXCEPT ![t] = o]
    BY <1>0, <1>2 DEF CommitPush, RequestInv, Answered
  <2>2. o = "processing" => phone'[t] # "none"
    BY <2>1 DEF MatchInv
  <2>3. MP!Record(t)
    BY <2>1, <2>2 DEF MP!Record
  <2> QED
    BY <2>1, <2>3 DEF MP!Next
<1>3. ASSUME NEW t \in Txn, AnswerPrompt(t) PROVE [MP!Next]_<<phone, mpesa>>
  <2>1. MP!Answer(t)
    BY <1>3 DEF AnswerPrompt, Answer, MP!Answer
  <2> QED
    BY <2>1 DEF MP!Next
<1>4. ASSUME NEW c \in Callback, CallbackCommit(c) PROVE [MP!Next]_<<phone, mpesa>>
  <2> DEFINE t == cb[c].txn
  <2>1. /\ t \in Txn
        /\ phone[t] \in Answer
        /\ phone' = phone
        /\ mpesa' = [mpesa EXCEPT ![t] = TxnResult(t)]
    BY <1>0, <1>4 DEF CallbackCommit, CallbackInv
  <2>2. CASE mpesa[t] = "processing"
    <3>1. MP!Settle(t)
      BY <2>1, <2>2 DEF TxnResult, Answer, MP!Settle
    <3> QED
      BY <2>1, <3>1 DEF MP!Next
  <2>3. CASE t \in processed
    BY <1>0, <2>1, <2>3 DEF TxnInv, TypeOK
  <2> QED
    BY <1>4, <2>2, <2>3 DEF CallbackCommit, MatchInv
<1>5. CASE \/ \E r \in Request : \/ \E d \in Device : CheckDevice(r, d)
                                 \/ \E s \in Session : InsertSession(r, s)
                                 \/ \E s \in Session : PayForSession(r, s)
                                 \/ PushUnconfigured(r)
           \/ \E c \in Callback : \/ \E t \in Txn : CallbackBegin(c, t)
                                  \/ CallbackLoad(c)
                                  \/ CallbackProvision(c)
                                  \/ CallbackRollback(c)
           \/ ExpiryNext
           \/ DeskNext
           \/ \E t \in Txn : CallbackIgnored(t)
           \/ \E s \in Session : Elapse(s)
           \/ Crash
           \/ UNCHANGED vars
  BY <1>5 DEF CheckDevice, InsertSession, PayForSession, PushUnconfigured, CallbackBegin,
              CallbackLoad, CallbackProvision, CallbackRollback, ExpiryNext, ExpirySelect,
              ExpiryRemove, ExpiryCommit, DeskNext, TerminateLoad, LockLoad, DeskCommit,
              CallbackIgnored, Elapse, Crash
<1> QED
  BY <1>1, <1>2, <1>3, <1>4, <1>5
  DEF Next, RequestNext, RequestStep, CallbackNext, CallbackStep, Environment

\* ImplementsMpesaPayment: with overlapping and repeated callbacks, lost
\* answers and crashes, a transaction is committed once, becomes a success
\* only when its customer paid, and keeps its outcome.
THEOREM SaleImplementsMpesaPayment == Spec => ImplementsMpesaPayment
<1>1. Init => MP!Init
  BY DEF Init, MP!Init
<1>2. Init => MatchInv
  BY DEF Init, MatchInv, ReqIdle, CbIdle
<1> QED
  BY <1>1, <1>2, MatchInvStep, MPStep, Invariance, PTL
  DEF Spec, ImplementsMpesaPayment, MP!Spec

-----------------------------------------------------------------------------
(* The expiry job.                                                         *)

\* NotCutShort is preserved: the sweep's query looks at expires_at, and time
\* does not go back.
LEMMA NotCutShortStep == IInv /\ NotCutShort /\ [Next]_vars => NotCutShort'
<1> SUFFICES ASSUME IInv, NotCutShort, [Next]_vars PROVE NotCutShort'
  OBVIOUS
<1> USE DEF database, outside, handlers, vars
<1>0. TypeOK
  BY DEF IInv
<1> DEFINE Late == {s \in Session : status[s] = "expired" \/ s \in job.todo \cup job.done}
<1>1. Late \subseteq due
  BY DEF NotCutShort
<1>2. SUFFICES due \subseteq due' /\ Late' \subseteq Late \cup due'
  BY <1>1 DEF NotCutShort
<1>3. CASE ExpiryNext
  <2>1. due' = due
    BY <1>3 DEF ExpiryNext, ExpirySelect, ExpiryRemove, ExpiryCommit
  <2>2. CASE ExpirySelect
    BY <2>2 DEF ExpirySelect, IsOver, JobIdle
  <2>3. CASE \E s \in Session : ExpiryRemove(s)
    BY <2>3 DEF ExpiryRemove
  <2>4. CASE ExpiryCommit
    BY <1>0, <2>4 DEF ExpiryCommit, JobIdle, TypeOK
  <2> QED
    BY <1>3, <2>1, <2>2, <2>3, <2>4 DEF ExpiryNext
<1>4. CASE \E c \in Callback : CallbackCommit(c)
  BY <1>0, <1>4 DEF CallbackCommit, SessionResult, TypeOK
<1>5. CASE \E r \in Request, s \in Session : InsertSession(r, s)
  BY <1>0, <1>5 DEF InsertSession, TypeOK
<1>6. CASE DeskNext
  BY <1>0, <1>6 DEF DeskNext, TerminateLoad, LockLoad, DeskCommit, TypeOK
<1>7. CASE Crash
  BY <1>7 DEF Crash, JobIdle
<1>8. CASE \E s \in Session : Elapse(s)
  BY <1>8 DEF Elapse
<1>9. CASE \/ \E r \in Request : \/ \E d \in Device : CheckDevice(r, d)
                                 \/ \E s \in Session : PayForSession(r, s)
                                 \/ PushUnconfigured(r)
                                 \/ \E t \in Txn : PushPrompt(r, t)
                                 \/ CommitPush(r)
           \/ \E c \in Callback : \/ \E t \in Txn : CallbackBegin(c, t)
                                  \/ CallbackLoad(c)
                                  \/ CallbackProvision(c)
                                  \/ CallbackRollback(c)
           \/ \E t \in Txn : AnswerPrompt(t) \/ CallbackIgnored(t)
           \/ UNCHANGED vars
  <2>1. status' = status /\ job' = job /\ due' = due
    BY <1>9 DEF CheckDevice, PayForSession, PushUnconfigured, PushPrompt, CommitPush,
                CallbackBegin, CallbackLoad, CallbackProvision, CallbackRollback,
                AnswerPrompt, CallbackIgnored
  <2> QED
    BY <2>1
<1> QED
  BY <1>3, <1>4, <1>5, <1>6, <1>7, <1>8, <1>9
  DEF Next, RequestNext, RequestStep, CallbackNext, CallbackStep, Environment

\* NotCutShort: no interleaving of the sweep with callbacks, locks and crashes
\* makes it end a session, or take its user off the router, before its time.
THEOREM TimeIsKept == Spec => []NotCutShort
<1>1. Init => NotCutShort
  BY DEF Init, NotCutShort, JobIdle
<1> QED
  BY <1>1, NotCutShortStep, Invariance, PTL DEF Spec

-----------------------------------------------------------------------------
(* The one prompt of a session, whoever asked for it.                      *)

\* A callback that goes on to the commit of a session's one payment has found
\* the ledger entry, if there is one; a failed session has a prompt that was
\* declined.
SaleInv ==
    /\ \A c \in Callback :
        /\ cb[c].pc \in {"provision", "commit"}
        /\ phone[cb[c].txn] = "paid"
        /\ OnlyPrompt(cb[c].txn)
        /\ ledger[ref[cb[c].txn]] # "none"
        => cb[c].booked
    /\ \A s \in Session :
        status[s] = "failed" => \E t \in Txn : ref[t] = s /\ phone[t] = "declined"
    /\ PaymentIsBooked

\* A committed prompt that is the only one after the commit of another was so
\* before, and its session's ledger entry is left alone.
LEMMA OtherPrompt ==
    ASSUME IInv, NEW r \in Request, CommitPush(r), NEW t \in Txn, mpesa[t] # "none", OnlyPrompt(t)'
    PROVE  OnlyPrompt(t) /\ ref'[t] = ref[t] /\ ledger'[ref[t]] = ledger[ref[t]]
<1>0. TypeOK /\ RequestInv /\ TxnInv
  BY DEF IInv
<1>1. /\ req[r].txn \in Txn /\ mpesa[req[r].txn] = "none" /\ ref[req[r].txn] = None
      /\ ref[t] \in Session /\ ref[t] # None
  BY <1>0, PaymentAssumption DEF CommitPush, RequestInv, Answered, TxnInv
<1>2. ref' = [ref EXCEPT ![req[r].txn] = req[r].sess] /\ t # req[r].txn
  BY <1>1 DEF CommitPush
<1>3. \A u \in Txn : ref'[u] = IF u = req[r].txn THEN req[r].sess ELSE ref[u]
  BY <1>0, <1>2 DEF TypeOK
<1>4. req[r].sess # ref[t]
  BY <1>1, <1>2, <1>3 DEF OnlyPrompt
<1>5. OnlyPrompt(t)
  BY <1>1, <1>2, <1>3 DEF OnlyPrompt
<1>6. ledger'[ref[t]] = ledger[ref[t]]
  BY <1>0, <1>1, <1>4 DEF CommitPush, BookSale, TypeOK
<1> QED
  BY <1>2, <1>3, <1>5, <1>6

\* SaleInv is preserved.
LEMMA SaleInvStep == IInv /\ SaleInv /\ [Next]_vars => SaleInv'
<1> SUFFICES ASSUME IInv, SaleInv, [Next]_vars PROVE SaleInv'
  OBVIOUS
<1> USE PaymentAssumption
    DEF PaymentIsBooked, database, outside, handlers, vars
<1>0. TypeOK /\ RequestInv /\ TxnInv /\ CallbackInv
  BY DEF IInv
<1>1. ASSUME NEW r \in Request,
             \/ \E d \in Device : CheckDevice(r, d)
             \/ \E s \in Session : PayForSession(r, s)
             \/ PushUnconfigured(r)
      PROVE  SaleInv'
  <2>1. UNCHANGED <<database, phone, cb>>
    BY <1>1 DEF CheckDevice, PayForSession, PushUnconfigured
  <2> QED
    BY <2>1 DEF SaleInv, OnlyPrompt
<1>2. ASSUME NEW r \in Request, NEW s \in Session, InsertSession(r, s) PROVE SaleInv'
  BY <1>0, <1>2 DEF InsertSession, SaleInv, TypeOK, OnlyPrompt
<1>3. ASSUME NEW r \in Request, NEW t \in Txn, PushPrompt(r, t) PROVE SaleInv'
  BY <1>0, <1>3 DEF PushPrompt, Unused, SaleInv, CallbackInv, Answer, TxnInv, TypeOK, OnlyPrompt
<1>4. ASSUME NEW r \in Request, CommitPush(r) PROVE SaleInv'
  <2>1. \A t \in Txn : mpesa[t] # "none" /\ OnlyPrompt(t)'
          => OnlyPrompt(t) /\ ref'[t] = ref[t] /\ ledger'[ref[t]] = ledger[ref[t]]
    BY <1>4, OtherPrompt
  <2>2. UNCHANGED <<status, receipt, phone, cb>>
    BY <1>4 DEF CommitPush
  <2>3. \A t \in Txn : mpesa'[t] = "success" => mpesa[t] = "success"
    BY <1>0, <1>4 DEF CommitPush, TypeOK
  <2>4. \A t \in Txn : mpesa[t] # "none" => ref'[t] = ref[t]
    BY <1>0, <1>4 DEF CommitPush, RequestInv, Answered, TypeOK
  <2>5. \A t \in Txn : ref[t] \in Session => mpesa[t] # "none"
    BY <1>0 DEF TxnInv
  <2>6. PaymentIsBooked'
    BY <2>1, <2>2, <2>3 DEF SaleInv
  <2>7. \A c \in Callback : cb[c].pc # "idle" => cb[c].txn \in Txn /\ mpesa[cb[c].txn] # "none"
    BY <1>0 DEF CallbackInv
  <2>8. ASSUME NEW c \in Callback, cb[c].pc \in {"provision", "commit"}, phone[cb[c].txn] = "paid",
               NEW t \in Txn, t = cb[c].txn, OnlyPrompt(t)', ledger'[ref'[t]] # "none"
        PROVE  cb[c].booked
    <3>1. OnlyPrompt(t) /\ ledger[ref[t]] # "none"
      BY <2>1, <2>7, <2>8
    <3> QED
      BY <2>8, <3>1 DEF SaleInv
  <2>9. ASSUME NEW s \in Session, status[s] = "failed"
        PROVE  \E t \in Txn : ref'[t] = s /\ phone[t] = "declined"
    BY <2>4, <2>5, <2>9 DEF SaleInv
  <2>10. \A c \in Callback : OnlyPrompt(cb[c].txn)' <=> \A t \in {cb[c].txn} : OnlyPrompt(t)'
    BY <2>2 DEF OnlyPrompt
  <2> QED
    BY <2>2, <2>6, <2>7, <2>8, <2>9, <2>10 DEF SaleInv
<1>5. ASSUME NEW t \in Txn, AnswerPrompt(t) PROVE SaleInv'
  BY <1>0, <1>5 DEF AnswerPrompt, CallbackInv, Answer, SaleInv, TypeOK, OnlyPrompt
<1>6. ASSUME NEW c \in Callback, CallbackLoad(c) PROVE SaleInv'
  <2>1. /\ cb'[c].pc = AfterLoad(cb[c].txn) /\ cb'[c].txn = cb[c].txn
        /\ cb'[c].booked <=> ledger[ref[cb[c].txn]] # "none"
        /\ \A d \in Callback \ {c} : cb'[d] = cb[d]
    BY <1>0, <1>6 DEF CallbackLoad, TypeOK, CbState
  <2>2. UNCHANGED <<database, outside, req>>
    BY <1>6 DEF CallbackLoad
  <2> QED
    BY <2>1, <2>2 DEF SaleInv, OnlyPrompt
<1>7. ASSUME NEW c \in Callback, CallbackCommit(c) PROVE SaleInv'
  <2> DEFINE t == cb[c].txn
             s == ref[t]
  <2>1. /\ t \in Txn /\ s \in Session /\ phone[t] \in Answer
        /\ UNCHANGED <<ref, phone>>
        /\ \A d \in Callback \ {c} : cb'[d] = cb[d]
        /\ cb'[c].pc = "idle"
    BY <1>0, <1>7 DEF CallbackCommit, CallbackInv, TxnInv, CbIdle, TypeOK
  <2>2. \A u \in Txn : OnlyPrompt(u)' <=> OnlyPrompt(u)
    BY <2>1 DEF OnlyPrompt
  <2>3. \A x \in Session : ledger'[x] # "none" <=> ledger[x] # "none"
    BY <1>0, <1>7, <2>1 DEF CallbackCommit, BooksReceipt, CallbackInv, TypeOK
  <2>4. \A x \in Session :
          status'[x] = "failed" => status[x] = "failed" \/ (x = s /\ phone[t] = "declined")
    <3>1. status \in [Session -> Status] /\ (phone[t] = "paid" \/ phone[t] = "declined")
      BY <1>0, <2>1 DEF TypeOK, Answer
    <3>2. status' = status \/ status' = [status EXCEPT ![s] = SessionResult(t)]
      BY <1>7 DEF CallbackCommit
    <3>3. SessionResult(t) = "failed" => phone[t] = "declined"
      BY <3>1 DEF SessionResult
    <3> QED
      BY <2>1, <3>1, <3>2, <3>3
  <2>5. ASSUME NEW u \in Txn, mpesa'[u] = "success", OnlyPrompt(u), ledger[ref[u]] # "none"
        PROVE  receipt'[ref[u]] = u
    <3>1. ref[u] \in Session
      BY <1>0, <1>7, <2>1, <2>5 DEF CallbackCommit, TxnInv, TypeOK
    <3>2. CASE u = t
      <4>1. phone[t] = "paid"
        BY <1>0, <1>7, <2>1, <2>5, <3>2 DEF CallbackCommit, TxnResult, TypeOK
      <4>2. BooksReceipt(c)
        BY <1>7, <2>5, <3>2, <4>1 DEF SaleInv, BooksReceipt, CallbackCommit
      <4> QED
        BY <1>0, <1>7, <2>1, <3>2, <4>2 DEF CallbackCommit, TypeOK
    <3>3. CASE u # t
      <4>1. mpesa[u] = "success" /\ ref[u] # s
        BY <1>0, <1>7, <2>1, <2>5, <3>3 DEF CallbackCommit, OnlyPrompt, TypeOK
      <4>2. receipt'[ref[u]] = receipt[ref[u]]
        BY <1>0, <1>7, <3>1, <4>1 DEF CallbackCommit, TypeOK
      <4> QED
        BY <2>5, <4>1, <4>2 DEF SaleInv
    <3> QED
      BY <3>2, <3>3
  <2>6. \A u \in Txn : mpesa'[u] = "success" => ref[u] \in Session
    BY <1>0, <1>7, <2>1 DEF CallbackCommit, TxnInv, TypeOK
  <2>7. PaymentIsBooked'
    BY <2>1, <2>2, <2>3, <2>5, <2>6
  <2>8. \A d \in Callback : cb[d].pc # "idle" => cb[d].txn \in Txn /\ ref[cb[d].txn] \in Session
    BY <1>0 DEF CallbackInv, TxnInv
  <2> QED
    BY <2>1, <2>2, <2>3, <2>4, <2>7, <2>8 DEF SaleInv
<1>8. ASSUME NEW c \in Callback, NEW t \in Txn, CallbackBegin(c, t) PROVE SaleInv'
  BY <1>0, <1>8 DEF CallbackBegin, Deliver, CbIdle, SaleInv, TypeOK, OnlyPrompt
<1>9. ASSUME NEW c \in Callback, CallbackProvision(c) PROVE SaleInv'
  BY <1>0, <1>9 DEF CallbackProvision, SaleInv, TypeOK, CbState, OnlyPrompt
<1>10. ASSUME NEW c \in Callback, CallbackRollback(c) PROVE SaleInv'
  BY <1>0, <1>10 DEF CallbackRollback, CbIdle, SaleInv, TypeOK, OnlyPrompt
<1>11. CASE ExpiryNext
  BY <1>0, <1>11 DEF ExpiryNext, ExpirySelect, ExpiryRemove, ExpiryCommit, SaleInv, TypeOK, OnlyPrompt
<1>12. CASE DeskNext
  BY <1>0, <1>12 DEF DeskNext, TerminateLoad, LockLoad, DeskCommit, SaleInv, TypeOK, OnlyPrompt
<1>13. CASE Crash
  BY <1>13 DEF Crash, CbIdle, SaleInv, OnlyPrompt
<1>14. CASE \/ \E t \in Txn : CallbackIgnored(t)
            \/ \E s \in Session : Elapse(s)
            \/ UNCHANGED vars
  BY <1>14 DEF CallbackIgnored, Deliver, Elapse, SaleInv, OnlyPrompt
<1> QED
  BY <1>1, <1>2, <1>3, <1>4, <1>5, <1>6, <1>7, <1>8, <1>9, <1>10, <1>11, <1>12, <1>13, <1>14
  DEF Next, RequestNext, RequestStep, CallbackNext, CallbackStep, Environment

\* SaleInv holds in every interleaving.
LEMMA SaleInvariance == Spec => []SaleInv
<1>1. Init => SaleInv
  BY DEF Init, SaleInv, PaymentIsBooked, CbIdle
<1> QED
  BY <1>1, SaleInvStep, Invariance, PTL DEF Spec

\* A portal sale's transaction is committed together with its ledger entry, and
\* no entry goes away.
LEMMA EntryStep ==
    ASSUME IInv, [Next]_vars
    PROVE  /\ \A r \in Request :
                /\ req[r].kind = "portal"
                /\ req[r].pc \in {"accepted", "refused"}
                /\ ref'[req[r].txn] # ref[req[r].txn]
                => ledger'[req[r].sess] # "none"
           /\ \A s \in Session : ledger[s] # "none" => ledger'[s] # "none"
<1>0. TypeOK /\ RequestInv
  BY DEF IInv
<1> USE DEF database, outside, handlers, vars
<1>1. ASSUME NEW q \in Request, CommitPush(q),
             NEW r \in Request, req[r].kind = "portal", req[r].pc \in {"accepted", "refused"},
             ref'[req[r].txn] # ref[req[r].txn]
      PROVE  ledger'[req[r].sess] # "none"
  <2>1. req[q].txn \in Txn /\ req[r].txn \in Txn /\ req[r].sess \in Session
    BY <1>0, <1>1 DEF CommitPush, RequestInv, Pushing, Answered
  <2>2. req[r].txn = req[q].txn
    BY <1>0, <1>1, <2>1 DEF CommitPush, TypeOK
  <2>3. r = q
    BY <1>0, <1>1, <2>2 DEF CommitPush, RequestInv, Answered
  <2> QED
    BY <1>0, <1>1, <2>1, <2>3 DEF CommitPush, BookSale, TypeOK
<1>2. ASSUME NEW q \in Request, CommitPush(q), NEW s \in Session, ledger[s] # "none"
      PROVE  ledger'[s] # "none"
  BY <1>0, <1>2 DEF CommitPush, BookSale, TypeOK
<1>3. ASSUME NEW c \in Callback, CallbackCommit(c)
      PROVE  ref' = ref /\ \A s \in Session : ledger[s] # "none" => ledger'[s] # "none"
  BY <1>0, <1>3 DEF CallbackCommit, TypeOK
<1>4. CASE UNCHANGED <<ref, ledger>>
  BY <1>4
<1> QED
  BY <1>1, <1>2, <1>3, <1>4
  DEF Next, RequestNext, RequestStep, CallbackNext, CallbackStep, ExpiryNext, DeskNext, Environment,
      CheckDevice, InsertSession, PayForSession, PushUnconfigured, PushPrompt, AnswerPrompt,
      CallbackIgnored, CallbackBegin, CallbackLoad, CallbackProvision, CallbackRollback, Elapse,
      ExpirySelect, ExpiryRemove, ExpiryCommit, TerminateLoad, LockLoad, DeskCommit, Crash

\* RevenueIsRecorded: every portal sale that is prompted for is in the ledger,
\* and its payment becomes the receipt, also with repeated, overlapping and
\* rolled-back callbacks, unless the operator prompted for the session too.
THEOREM RevenueIsKept == Spec => RevenueIsRecorded
<1>1. SaleInv => PaymentIsBooked
  BY DEF SaleInv
<1>2. Spec => SaleIsEntered
  BY EntryStep, Invariance, PTL DEF Spec, SaleIsEntered
<1> QED
  BY <1>1, <1>2, SaleInvariance, PTL DEF RevenueIsRecorded

\* FailedIsUnpaid: no session that was prompted for once and whose payment went
\* through is reported failed.
THEOREM FailedAreUnpaid == Spec => []FailedIsUnpaid
<1>1. IInv /\ SaleInv => FailedIsUnpaid
  <2> SUFFICES ASSUME IInv, SaleInv, NEW t \in Txn, mpesa[t] = "success", OnlyPrompt(t)
               PROVE  status[ref[t]] # "failed"
    BY DEF FailedIsUnpaid
  <2>1. ref[t] \in Session /\ phone[t] = "paid"
    BY DEF IInv, TxnInv, TxnResult
  <2>2. \A u \in Txn : ref[u] = ref[t] => phone[u] = "paid"
    BY <2>1 DEF OnlyPrompt
  <2> QED
    BY <2>1, <2>2 DEF SaleInv
<1> QED
  BY <1>1, Invariance, SaleInvariance, PTL

-----------------------------------------------------------------------------
(* Portal sales: the operator's endpoint is not used.                      *)

\* Every transaction is that of a portal sale, and a session is prompted for
\* once: a request in progress is for a session without a transaction, and
\* no session has two.
PortalInv ==
    /\ \A r \in Request :
        /\ req[r].kind = "portal"
        /\ Pushing(r) => \A t \in Txn : ref[t] # req[r].sess
    /\ \A t, u \in Txn : ref[t] \in Session /\ ref[t] = ref[u] => t = u

\* PortalInv is preserved when the operator's endpoint is not used.
LEMMA PortalInvStep ==
    ASSUME ~ DashboardPay
    PROVE  IInv /\ PortalInv /\ [Next]_vars => PortalInv'
<1> SUFFICES ASSUME IInv, PortalInv, [Next]_vars PROVE PortalInv'
  OBVIOUS
<1> USE PaymentAssumption
    DEF Pushing, database, outside, handlers, vars
<1>0. TypeOK /\ RequestInv /\ TxnInv /\ CallbackInv
  BY DEF IInv
<1>1. ASSUME NEW r \in Request, NEW d \in Device, CheckDevice(r, d) PROVE PortalInv'
  BY <1>0, <1>1 DEF CheckDevice, PortalInv, ReqIdle, TypeOK
<1>2. ASSUME NEW r \in Request, NEW s \in Session, InsertSession(r, s) PROVE PortalInv'
  <2>1. \A t \in Txn : ref[t] # s
    BY <1>0, <1>2 DEF InsertSession, TxnInv, TypeOK
  <2> QED
    BY <1>0, <1>2, <2>1 DEF InsertSession, PortalInv, TypeOK, ReqState
<1>3. ASSUME NEW r \in Request, NEW s \in Session, PayForSession(r, s) PROVE PortalInv'
  BY <1>3 DEF PayForSession
<1>4. ASSUME NEW r \in Request, PushUnconfigured(r) PROVE PortalInv'
  BY <1>0, <1>4 DEF PushUnconfigured, PortalInv, ReqIdle, TypeOK
<1>5. ASSUME NEW r \in Request, NEW t \in Txn, PushPrompt(r, t) PROVE PortalInv'
  BY <1>0, <1>5 DEF PushPrompt, Unused, PortalInv, CallbackInv, Answer, TxnInv, TypeOK, ReqState
<1>6. ASSUME NEW r \in Request, CommitPush(r) PROVE PortalInv'
  BY <1>0, <1>6 DEF CommitPush, BookSale, RequestInv, Answered, TxnInv, CallbackInv,
                    PortalInv, ReqIdle, TypeOK
<1>7. ASSUME NEW t \in Txn, AnswerPrompt(t) PROVE PortalInv'
  BY <1>0, <1>7 DEF AnswerPrompt, CallbackInv, Answer, PortalInv, TypeOK
<1>8. ASSUME NEW c \in Callback, CallbackLoad(c) PROVE PortalInv'
  <2>1. /\ cb'[c].pc = AfterLoad(cb[c].txn) /\ cb'[c].txn = cb[c].txn
        /\ cb'[c].booked <=> ledger[ref[cb[c].txn]] # "none"
        /\ \A d \in Callback \ {c} : cb'[d] = cb[d]
    BY <1>0, <1>8 DEF CallbackLoad, TypeOK, CbState
  <2>2. UNCHANGED <<database, outside, req>> /\ cb[c].pc = "begun"
    BY <1>8 DEF CallbackLoad
  <2> QED
    BY <1>0, <2>1, <2>2 DEF AfterLoad, CallbackInv, TxnInv, Answer, PortalInv
<1>9. ASSUME NEW c \in Callback, CallbackCommit(c) PROVE PortalInv'
  BY <1>0, <1>9 DEF CallbackCommit, BooksReceipt, SessionResult, TxnResult, CbIdle,
                    CallbackInv, TxnInv, Answer, PortalInv, TypeOK
<1>10. ASSUME NEW c \in Callback, NEW t \in Txn, CallbackBegin(c, t) PROVE PortalInv'
  BY <1>0, <1>10 DEF CallbackBegin, Deliver, CbIdle, PortalInv, TypeOK
<1>11. ASSUME NEW c \in Callback, CallbackProvision(c) PROVE PortalInv'
  BY <1>0, <1>11 DEF CallbackProvision, PortalInv, TypeOK, CbState
<1>12. ASSUME NEW c \in Callback, CallbackRollback(c) PROVE PortalInv'
  BY <1>0, <1>12 DEF CallbackRollback, CbIdle, PortalInv, TypeOK
<1>13. CASE ExpiryNext
  BY <1>0, <1>13 DEF ExpiryNext, ExpirySelect, ExpiryRemove, ExpiryCommit, PortalInv, TypeOK
<1>14. CASE DeskNext
  BY <1>0, <1>14 DEF DeskNext, TerminateLoad, LockLoad, DeskCommit, PortalInv, TypeOK
<1>15. CASE Crash
  BY <1>15 DEF Crash, ReqIdle, CbIdle, PortalInv
<1>16. CASE \/ \E t \in Txn : CallbackIgnored(t)
            \/ \E s \in Session : Elapse(s)
            \/ UNCHANGED vars
  BY <1>16 DEF CallbackIgnored, Deliver, Elapse, PortalInv
<1> QED
  BY <1>1, <1>2, <1>3, <1>4, <1>5, <1>6, <1>7, <1>8, <1>9, <1>10, <1>11, <1>12, <1>13,
     <1>14, <1>15, <1>16
  DEF Next, RequestNext, RequestStep, CallbackNext, CallbackStep, Environment

\* PortalInv holds of portal sales in every interleaving.
LEMMA PortalInvariance ==
    ASSUME ~ DashboardPay
    PROVE  Spec => []PortalInv
<1>1. Init => PortalInv
  BY PaymentAssumption
  DEF Init, PortalInv, Pushing, ReqIdle, CbIdle
<1> QED
  BY <1>1, PortalInvStep, Invariance, PTL DEF Spec

-----------------------------------------------------------------------------
(* Requests and callbacks that keep out of each other's way.               *)
(*                                                                         *)
(* create_session looks for a live session of the device and inserts its   *)
(* row two awaits later, and process_callback reads is_processed and       *)
(* commits several awaits later; neither holds a lock.  What follows is    *)
(* what the sale guarantees as long as no two handlers meet in these       *)
(* windows: any number of requests and callbacks may be in progress, and   *)
(* the jobs, the desk and crashes interleave with them as before.          *)

\* No two requests are between the check and the insert for one device.
RequestsApart ==
    \A q, r \in Request :
        /\ q # r
        /\ req[q].pc = "checked"
        /\ req[r].pc = "checked"
        /\ req[q].dev = req[r].dev
        => req[q].dev \in Placeholder

\* No two callbacks of one transaction are in progress.
CallbacksApart ==
    \A c, d \in Callback :
        /\ c # d
        /\ cb[c].pc # "idle"
        /\ cb[d].pc # "idle"
        => cb[c].txn # cb[d].txn

\* The transaction a callback works on still waits for its result.
BusyInv == \A c \in Callback : cb[c].pc # "idle" => mpesa[cb[c].txn] = "processing"

\* A callback of its own keeps its transaction waiting until it commits.
LEMMA BusyInvStep == IInv /\ CallbacksApart /\ BusyInv /\ [Next]_vars => BusyInv'
<1> SUFFICES ASSUME IInv, CallbacksApart, BusyInv, [Next]_vars PROVE BusyInv'
  OBVIOUS
<1> USE DEF BusyInv, database, outside, handlers, vars
<1>0. TypeOK /\ RequestInv /\ CallbackInv
  BY DEF IInv
<1>1. ASSUME NEW r \in Request, CommitPush(r) PROVE BusyInv'
  <2>1. /\ cb' = cb
        /\ \A t \in Txn : t # req[r].txn => mpesa'[t] = mpesa[t]
        /\ mpesa[req[r].txn] = "none"
    BY <1>0, <1>1 DEF CommitPush, RequestInv, Answered, TypeOK
  <2> QED
    BY <1>0, <2>1 DEF CallbackInv
<1>2. ASSUME NEW c \in Callback, NEW t \in Txn, CallbackBegin(c, t) PROVE BusyInv'
  BY <1>0, <1>2 DEF CallbackBegin, AwaitsResult, CbIdle, TypeOK
<1>3. ASSUME NEW c \in Callback, CallbackLoad(c) \/ CallbackProvision(c) PROVE BusyInv'
  <2>1. mpesa' = mpesa /\ cb[c].pc # "idle"
    BY <1>3 DEF CallbackLoad, CallbackProvision
  <2>2. cb'[c].txn = cb[c].txn /\ \A d \in Callback \ {c} : cb'[d] = cb[d]
    <3>1. CASE CallbackLoad(c)
      BY <1>0, <3>1 DEF CallbackLoad, TypeOK, CbState
    <3>2. CASE CallbackProvision(c)
      BY <1>0, <3>2 DEF CallbackProvision, TypeOK, CbState
    <3> QED
      BY <1>3, <3>1, <3>2
  <2> QED
    BY <2>1, <2>2
<1>4. ASSUME NEW c \in Callback, CallbackCommit(c) PROVE BusyInv'
  <2>1. /\ cb[c].pc # "idle"
        /\ \A d \in Callback : cb'[d] = IF d = c THEN CbIdle ELSE cb[d]
        /\ \A t \in Txn : t # cb[c].txn => mpesa'[t] = mpesa[t]
    BY <1>0, <1>4 DEF CallbackCommit, TypeOK
  <2> QED
    BY <1>0, <2>1 DEF CallbackInv, CallbacksApart, CbIdle
<1>5. ASSUME NEW c \in Callback, CallbackRollback(c) PROVE BusyInv'
  BY <1>0, <1>5 DEF CallbackRollback, CbIdle, TypeOK
<1>6. CASE Crash
  BY <1>6 DEF Crash, CbIdle
<1>7. CASE \/ \E r \in Request : RequestNext(r) /\ ~ CommitPush(r)
           \/ ExpiryNext
           \/ DeskNext
           \/ \E t \in Txn : AnswerPrompt(t) \/ CallbackIgnored(t)
           \/ \E s \in Session : Elapse(s)
           \/ UNCHANGED vars
  <2>1. cb' = cb /\ mpesa' = mpesa
    BY <1>7 DEF RequestNext, RequestStep, CheckDevice, InsertSession, PayForSession,
                PushUnconfigured, PushPrompt, ExpiryNext, ExpirySelect, ExpiryRemove,
                ExpiryCommit, DeskNext, TerminateLoad, LockLoad, DeskCommit,
                AnswerPrompt, CallbackIgnored, Elapse
  <2> QED
    BY <2>1
<1> QED
  BY <1>1, <1>2, <1>3, <1>4, <1>5, <1>6, <1>7
  DEF Next, CallbackNext, CallbackStep, Environment

\* BusyInv holds as long as callbacks of one transaction do not overlap.
LEMMA BusyInvariance == Spec /\ []CallbacksApart => []BusyInv
<1>1. Init => BusyInv
  BY DEF Init, BusyInv, CbIdle
<1> QED
  BY <1>1, BusyInvStep, Invariance, PTL DEF Spec

\* DuplicateIsNoOp: a repeated callback is harmless unless it overlaps the
\* first one, also when callbacks of other transactions and the operator's
\* own payment requests are in progress.
THEOREM ApartDuplicateIsNoOp == Spec /\ []CallbacksApart => DuplicateIsNoOp
<1>1. IInv /\ BusyInv =>
        [\A c \in Callback : cb[c].txn \in processed /\ CallbackCommit(c)
                                => UNCHANGED database]_vars
  <2> SUFFICES ASSUME IInv, BusyInv, NEW c \in Callback, cb[c].txn \in processed,
                      CallbackCommit(c)
               PROVE  FALSE
    OBVIOUS
  <2>1. cb[c].txn \in Txn /\ mpesa[cb[c].txn] = "processing"
    BY DEF CallbackCommit, IInv, CallbackInv, BusyInv
  <2> QED
    BY <2>1 DEF IInv, TxnInv, TxnResult
<1> QED
  BY <1>1, BusyInvariance, Invariance, PTL DEF DuplicateIsNoOp

\* From the insert of its row until the result of its payment a session is
\* pending, and what the expiry job and the desk hold in memory has been
\* served.
WaitInv ==
    /\ \A t \in Txn : mpesa[t] = "processing" => status[ref[t]] = "pending_payment"
    /\ \A r \in Request : Pushing(r) => status[req[r].sess] = "pending_payment"
    /\ \A s \in job.todo \cup job.done \cup desk.targets : status[s] \in Served

\* A commit of a callback moves one pending session to its result.
LEMMA CommitOfPending ==
    ASSUME IInv, PortalInv, BusyInv, WaitInv, NEW c \in Callback, CallbackCommit(c)
    PROVE  LET t == cb[c].txn
               s == ref[t]
           IN  /\ t \in Txn
               /\ s \in Session
               /\ status[s] = "pending_payment"
               /\ mpesa'[t] # "processing"
               /\ \A u \in Txn : u # t => mpesa'[u] = mpesa[u] /\ ref[u] # s
               /\ \A x \in Session : x # s => status'[x] = status[x]
               /\ status'[s] \in {"pending_payment", "active", "failed"}
<1> DEFINE t == cb[c].txn
           s == ref[t]
<1>0. TypeOK /\ TxnInv /\ CallbackInv
  BY DEF IInv
<1>1. t \in Txn /\ mpesa[t] = "processing"
  BY <1>0 DEF CallbackCommit, CallbackInv, BusyInv
<1>2. s \in Session /\ status[s] = "pending_payment"
  BY <1>0, <1>1 DEF TxnInv, WaitInv
<1>3. \A u \in Txn : u # t => ref[u] # s
  BY <1>1, <1>2 DEF PortalInv
<1>4. /\ mpesa'[t] # "processing"
      /\ \A u \in Txn : u # t => mpesa'[u] = mpesa[u]
  BY <1>0, <1>1 DEF CallbackCommit, TxnResult, TypeOK
<1>5. /\ \A x \in Session : x # s => status'[x] = status[x]
      /\ status'[s] \in {"pending_payment", "active", "failed"}
  BY <1>0, <1>2 DEF CallbackCommit, SessionResult, TypeOK
<1> QED
  BY <1>1, <1>2, <1>3, <1>4, <1>5

\* WaitInv is preserved when the operator's endpoint is not used.
LEMMA WaitInvStep ==
    ASSUME ~ DashboardPay
    PROVE  IInv /\ PortalInv /\ BusyInv /\ WaitInv /\ [Next]_vars => WaitInv'
<1> SUFFICES ASSUME IInv, PortalInv, BusyInv, WaitInv, [Next]_vars PROVE WaitInv'
  OBVIOUS
<1> USE DEF WaitInv, Pushing, database, outside, handlers, vars
<1>0. TypeOK /\ RequestInv /\ TxnInv
  BY DEF IInv
<1>1. ASSUME NEW r \in Request, NEW d \in Device, CheckDevice(r, d) PROVE WaitInv'
  BY <1>0, <1>1 DEF CheckDevice, ReqIdle, TypeOK
<1>2. ASSUME NEW r \in Request, NEW s \in Session, InsertSession(r, s) PROVE WaitInv'
  <2>1. /\ \A x \in Session : status'[x] = IF x = s THEN "pending_payment" ELSE status[x]
        /\ \A q \in Request \ {r} : req'[q] = req[q]
        /\ req'[r].sess = s
        /\ UNCHANGED <<mpesa, ref, job, desk>>
        /\ status[s] = "none"
    BY <1>0, <1>2 DEF InsertSession, TypeOK, ReqState
  <2>2. \A t \in Txn : mpesa'[t] = "processing" => status'[ref'[t]] = "pending_payment"
    BY <1>0, <2>1 DEF TxnInv
  <2>3. \A q \in Request : Pushing(q)' => status'[req'[q].sess] = "pending_payment"
    BY <1>0, <2>1 DEF RequestInv
  <2>4. \A x \in job'.todo \cup job'.done \cup desk'.targets : status'[x] \in Served
    <3>1. job.todo \cup job.done \cup desk.targets \subseteq Session
      BY <1>0 DEF TypeOK
    <3> QED
      BY <2>1, <3>1 DEF Served
  <2> QED
    BY <2>2, <2>3, <2>4
<1>3. ASSUME NEW r \in Request, NEW s \in Session, PayForSession(r, s) PROVE WaitInv'
  BY <1>3 DEF PayForSession
<1>4. ASSUME NEW r \in Request, PushUnconfigured(r) PROVE WaitInv'
  BY <1>0, <1>4 DEF PushUnconfigured, ReqIdle, TypeOK
<1>5. ASSUME NEW r \in Request, NEW t \in Txn, PushPrompt(r, t) PROVE WaitInv'
  <2>1. UNCHANGED <<status, mpesa, ref, job, desk>> /\ req[r].pc = "inserted"
    BY <1>5 DEF PushPrompt
  <2>2. PICK pc \in {"accepted", "refused"} :
            req' = [req EXCEPT ![r].pc = pc, ![r].txn = t]
    BY <1>5 DEF PushPrompt
  <2>3. req'[r].sess = req[r].sess /\ \A q \in Request \ {r} : req'[q] = req[q]
    BY <1>0, <2>2 DEF TypeOK, ReqState
  <2> QED
    BY <2>1, <2>3
<1>6. ASSUME NEW r \in Request, CommitPush(r) PROVE WaitInv'
  <2> DEFINE t == req[r].txn
             s == req[r].sess
  <2>1. t \in Txn /\ s \in Session /\ status[s] = "pending_payment"
    BY <1>0, <1>6 DEF CommitPush, RequestInv, Answered
  <2>2. /\ UNCHANGED <<status, job, desk>>
        /\ \A u \in Txn : u # t => mpesa'[u] = mpesa[u] /\ ref'[u] = ref[u]
        /\ ref'[t] = s
        /\ \A q \in Request \ {r} : req'[q] = req[q]
        /\ req'[r].pc = "idle"
    BY <1>0, <1>6, <2>1 DEF CommitPush, ReqIdle, TypeOK
  <2> QED
    BY <2>1, <2>2
<1>7. ASSUME NEW c \in Callback, CallbackCommit(c) PROVE WaitInv'
  <2> DEFINE s == ref[cb[c].txn]
  <2>1. /\ cb[c].txn \in Txn
        /\ s \in Session
        /\ status[s] = "pending_payment"
        /\ mpesa'[cb[c].txn] # "processing"
        /\ \A u \in Txn : u # cb[c].txn => mpesa'[u] = mpesa[u] /\ ref[u] # s
        /\ \A x \in Session : x # s => status'[x] = status[x]
    BY <1>7, CommitOfPending
  <2>2. UNCHANGED <<ref, req, job, desk>>
    BY <1>7 DEF CallbackCommit
  <2>3. \A t \in Txn : mpesa'[t] = "processing" => status'[ref'[t]] = "pending_payment"
    BY <1>0, <2>1, <2>2 DEF TxnInv
  <2>4. \A r \in Request : Pushing(r)' => status'[req'[r].sess] = "pending_payment"
    BY <1>0, <2>1, <2>2 DEF RequestInv, PortalInv
  <2>5. \A x \in job'.todo \cup job'.done \cup desk'.targets : status'[x] \in Served
    <3>1. s \notin job.todo \cup job.done \cup desk.targets
      BY <2>1 DEF Served
    <3>2. job.todo \cup job.done \cup desk.targets \subseteq Session
      BY <1>0 DEF TypeOK
    <3> QED
      BY <2>1, <2>2, <3>1, <3>2
  <2> QED
    BY <2>3, <2>4, <2>5
<1>8. ASSUME UNCHANGED <<mpesa, ref, req>>,
             \A s \in Session : status[s] = "pending_payment" => status'[s] = status[s],
             \A s \in job'.todo \cup job'.done \cup desk'.targets : status'[s] \in Served
      PROVE  WaitInv'
  BY <1>0, <1>8 DEF TxnInv, RequestInv
<1>9. CASE ExpirySelect \/ LockLoad \/ \E s \in Session : TerminateLoad(s)
  BY <1>0, <1>9 DEF ExpirySelect, IsOver, JobIdle, LockLoad, TerminateLoad, DeskIdle, Served
<1>10. CASE \E s \in Session : ExpiryRemove(s)
  BY <1>0, <1>10 DEF ExpiryRemove
<1>11. CASE ExpiryCommit
  <2>1. /\ \A s \in Session : status'[s] = IF s \in job.done THEN "expired" ELSE status[s]
        /\ job'.todo = {} /\ job'.done = {}
        /\ UNCHANGED <<mpesa, ref, req, desk>>
    BY <1>11 DEF ExpiryCommit, JobIdle
  <2>2. desk.targets \subseteq Session
    BY <1>0 DEF TypeOK
  <2>3. \A s \in Session : status[s] = "pending_payment" => status'[s] = status[s]
    BY <2>1 DEF Served
  <2>4. \A s \in job'.todo \cup job'.done \cup desk'.targets : status'[s] \in Served
    BY <2>1, <2>2 DEF Served
  <2> QED
    BY <1>8, <2>1, <2>3, <2>4
<1>12. CASE DeskCommit
  <2>1. /\ \A s \in Session : status'[s] = IF s \in desk.targets THEN desk.to ELSE status[s]
        /\ desk'.targets = {}
        /\ UNCHANGED <<mpesa, ref, req, job>>
    BY <1>12 DEF DeskCommit, DeskIdle
  <2>2. job.todo \cup job.done \subseteq Session /\ desk.to \in Served
    BY <1>0 DEF TypeOK, Served
  <2>3. \A s \in Session : status[s] = "pending_payment" => status'[s] = status[s]
    BY <2>1 DEF Served
  <2>4. \A s \in job'.todo \cup job'.done \cup desk'.targets : status'[s] \in Served
    BY <2>1, <2>2
  <2> QED
    BY <1>8, <2>1, <2>3, <2>4
<1>13. CASE Crash
  BY <1>13 DEF Crash, ReqIdle, JobIdle, DeskIdle
<1>14. CASE \/ \E c \in Callback : \/ \E t \in Txn : CallbackBegin(c, t)
                                   \/ CallbackLoad(c)
                                   \/ CallbackProvision(c)
                                   \/ CallbackRollback(c)
            \/ \E t \in Txn : AnswerPrompt(t) \/ CallbackIgnored(t)
            \/ \E s \in Session : Elapse(s)
            \/ UNCHANGED vars
  <2>1. UNCHANGED <<status, mpesa, ref, req, job, desk>>
    BY <1>14 DEF CallbackBegin, CallbackLoad, CallbackProvision, CallbackRollback,
                 AnswerPrompt, CallbackIgnored, Elapse
  <2> QED
    BY <2>1
<1> QED
  BY <1>1, <1>2, <1>3, <1>4, <1>5, <1>6, <1>7, <1>9, <1>10, <1>11, <1>12, <1>13, <1>14
  DEF Next, RequestNext, RequestStep, CallbackNext, CallbackStep, ExpiryNext, DeskNext,
      Environment

\* WaitInv holds of portal sales whose callbacks do not overlap.
LEMMA WaitInvariance ==
    ASSUME ~ DashboardPay
    PROVE  Spec /\ []CallbacksApart => []WaitInv
<1>1. Init => WaitInv
  BY DEF Init, WaitInv, Pushing, ReqIdle, JobIdle, DeskIdle
<1> QED
  BY <1>1, WaitInvStep, BusyInvariance, PortalInvariance, Invariance, PTL DEF Spec

-----------------------------------------------------------------------------
(* One live session per device.                                            *)

\* A session has an owner from its insert on, and a request that passed the
\* check names its device.
OwnerInv ==
    /\ \A s \in Session : status[s] = "none" <=> owner[s] = None
    /\ \A r \in Request : req[r].pc = "checked" => req[r].dev \in Device

\* The check still holds when the insert comes: the device is free.
FreeInv ==
    \A r \in Request :
        req[r].pc = "checked" /\ req[r].dev \notin Placeholder =>
            \A s \in Session : owner[s] = req[r].dev => status[s] \notin Live

\* Apart from the insert of a row, no step gives a session an owner or makes
\* it live.
LEMMA NoneRevived ==
    ASSUME IInv, PortalInv, BusyInv, WaitInv, [Next]_vars,
           ~ \E r \in Request, s \in Session : InsertSession(r, s)
    PROVE  /\ owner' = owner
           /\ \A s \in Session : /\ status'[s] = "none" <=> status[s] = "none"
                                 /\ status'[s] \in Live => status[s] \in Live
<1> USE DEF database, outside, handlers, vars
<1> DEFINE Kept == /\ owner' = owner
                   /\ \A s \in Session : /\ status'[s] = "none" <=> status[s] = "none"
                                         /\ status'[s] \in Live => status[s] \in Live
<1>0. TypeOK
  BY DEF IInv
<1>1. ASSUME NEW c \in Callback, CallbackCommit(c) PROVE Kept
  <2> DEFINE s == ref[cb[c].txn]
  <2>1. /\ status[s] = "pending_payment"
        /\ \A x \in Session : x # s => status'[x] = status[x]
        /\ status'[s] \in {"pending_payment", "active", "failed"}
    BY <1>1, CommitOfPending
  <2>2. owner' = owner
    BY <1>1 DEF CallbackCommit
  <2> QED
    BY <2>1, <2>2 DEF Live
<1>2. CASE ExpiryCommit
  BY <1>0, <1>2 DEF ExpiryCommit, WaitInv, Served, Live, TypeOK
<1>3. CASE DeskCommit
  BY <1>0, <1>3 DEF DeskCommit, WaitInv, Served, Live, TypeOK
<1>4. CASE \/ \E r \in Request : \/ \E d \in Device : CheckDevice(r, d)
                                 \/ \E s \in Session : PayForSession(r, s)
                                 \/ PushUnconfigured(r)
                                 \/ \E t \in Txn : PushPrompt(r, t)
                                 \/ CommitPush(r)
           \/ \E c \in Callback : \/ \E t \in Txn : CallbackBegin(c, t)
                                  \/ CallbackLoad(c)
                                  \/ CallbackProvision(c)
                                  \/ CallbackRollback(c)
           \/ ExpirySelect \/ \E s \in Session : ExpiryRemove(s)
           \/ LockLoad \/ \E s \in Session : TerminateLoad(s)
           \/ Environment
           \/ UNCHANGED vars
  <2>1. status' = status /\ owner' = owner
    BY <1>4 DEF CheckDevice, PayForSession, PushUnconfigured, PushPrompt, CommitPush,
                CallbackBegin, CallbackLoad, CallbackProvision, CallbackRollback,
                ExpirySelect, ExpiryRemove, LockLoad, TerminateLoad, Environment,
                AnswerPrompt, CallbackIgnored, Elapse, Crash
  <2> QED
    BY <2>1
<1> QED
  BY <1>1, <1>2, <1>3, <1>4
  DEF Next, RequestNext, RequestStep, CallbackNext, CallbackStep, ExpiryNext, DeskNext

\* What a step does to the requests that have passed the check.
LEMMA CheckedStep ==
    ASSUME IInv, [Next]_vars, ~ \E r \in Request, d \in Device : CheckDevice(r, d)
    PROVE  \A q \in Request : req'[q].pc = "checked" => req'[q] = req[q]
<1> USE DEF database, outside, handlers, vars
<1> DEFINE Kept == \A q \in Request : req'[q].pc = "checked" => req'[q] = req[q]
<1>0. TypeOK
  BY DEF IInv
<1>1. ASSUME NEW r \in Request, NEW s \in Session, InsertSession(r, s) PROVE Kept
  BY <1>0, <1>1 DEF InsertSession, TypeOK, ReqState
<1>2. ASSUME NEW r \in Request, NEW s \in Session, PayForSession(r, s) PROVE Kept
  BY <1>0, <1>2 DEF PayForSession, ReqIdle, TypeOK
<1>3. ASSUME NEW r \in Request, PushUnconfigured(r) \/ CommitPush(r) PROVE Kept
  BY <1>0, <1>3 DEF PushUnconfigured, CommitPush, ReqIdle, TypeOK
<1>4. ASSUME NEW r \in Request, NEW t \in Txn, PushPrompt(r, t) PROVE Kept
  <2>1. PICK pc \in {"accepted", "refused"} :
            req' = [req EXCEPT ![r].pc = pc, ![r].txn = t]
    BY <1>4 DEF PushPrompt
  <2> QED
    BY <1>0, <2>1 DEF TypeOK, ReqState
<1>5. CASE Crash
  BY <1>5 DEF Crash, ReqIdle
<1>6. CASE \/ \E c \in Callback : CallbackNext(c)
           \/ ExpiryNext
           \/ DeskNext
           \/ \E t \in Txn : AnswerPrompt(t) \/ CallbackIgnored(t)
           \/ \E s \in Session : Elapse(s)
           \/ UNCHANGED vars
  <2>1. req' = req
    BY <1>6 DEF CallbackNext, CallbackStep, CallbackBegin, CallbackLoad, CallbackProvision,
                CallbackCommit, CallbackRollback, ExpiryNext, ExpirySelect, ExpiryRemove,
                ExpiryCommit, DeskNext, TerminateLoad, LockLoad, DeskCommit,
                AnswerPrompt, CallbackIgnored, Elapse
  <2> QED
    BY <2>1
<1> QED
  BY <1>1, <1>2, <1>3, <1>4, <1>5, <1>6 DEF Next, RequestNext, RequestStep, Environment

\* The insert of a row, as the devices see it.
LEMMA InsertOfOwned ==
    ASSUME IInv, OwnerInv, NEW r \in Request, NEW s \in Session, InsertSession(r, s)
    PROVE  /\ owner[s] = None
           /\ req[r].pc = "checked"
           /\ req[r].dev \in Device
           /\ owner' = [owner EXCEPT ![s] = req[r].dev]
           /\ \A x \in Session : owner'[x] = IF x = s THEN req[r].dev ELSE owner[x]
           /\ \A x \in Session : status'[x] = IF x = s THEN "pending_payment" ELSE status[x]
           /\ req'[r].pc = "inserted"
           /\ \A q \in Request \ {r} : req'[q] = req[q]
<1>0. TypeOK
  BY DEF IInv
<1>1. /\ owner[s] = None
      /\ req[r].pc = "checked"
      /\ req[r].dev \in Device
      /\ owner' = [owner EXCEPT ![s] = req[r].dev]
  BY DEF InsertSession, OwnerInv
<1>2. /\ \A x \in Session : owner'[x] = IF x = s THEN req[r].dev ELSE owner[x]
      /\ \A x \in Session : status'[x] = IF x = s THEN "pending_payment" ELSE status[x]
  BY <1>0 DEF InsertSession, TypeOK
<1>3. req'[r].pc = "inserted" /\ \A q \in Request \ {r} : req'[q] = req[q]
  BY <1>0 DEF InsertSession, TypeOK, ReqState
<1> QED
  BY <1>1, <1>2, <1>3

\* OwnerInv is preserved.
LEMMA OwnerInvStep ==
    IInv /\ PortalInv /\ BusyInv /\ WaitInv /\ OwnerInv /\ [Next]_vars => OwnerInv'
<1> SUFFICES ASSUME IInv, PortalInv, BusyInv, WaitInv, OwnerInv, [Next]_vars PROVE OwnerInv'
  OBVIOUS
<1>0. TypeOK
  BY DEF IInv
<1>1. \A s \in Session : status'[s] = "none" <=> owner'[s] = None
  <2>1. ASSUME NEW r \in Request, NEW s \in Session, InsertSession(r, s)
        PROVE  \A x \in Session : status'[x] = "none" <=> owner'[x] = None
    BY <2>1, InsertOfOwned, PaymentAssumption DEF OwnerInv
  <2>2. CASE ~ \E r \in Request, s \in Session : InsertSession(r, s)
    BY <2>2, NoneRevived DEF OwnerInv
  <2> QED
    BY <2>1, <2>2
<1>2. \A r \in Request : req'[r].pc = "checked" => req'[r].dev \in Device
  <2>1. ASSUME NEW r \in Request, NEW d \in Device, CheckDevice(r, d)
        PROVE  \A q \in Request : req'[q].pc = "checked" => req'[q].dev \in Device
    BY <1>0, <2>1 DEF CheckDevice, ReqIdle, TypeOK, OwnerInv
  <2>2. CASE ~ \E r \in Request, d \in Device : CheckDevice(r, d)
    BY <2>2, CheckedStep DEF OwnerInv
  <2> QED
    BY <2>1, <2>2
<1> QED
  BY <1>1, <1>2 DEF OwnerInv

\* FreeInv and OneLiveSessionPerDevice are preserved together: the one makes
\* the insert safe, and the other is what the check establishes it from.
LEMMA FreeInvStep ==
    ASSUME "lower" \notin MacForms
    PROVE  /\ IInv /\ PortalInv /\ BusyInv /\ WaitInv /\ OwnerInv
           /\ RequestsApart /\ FreeInv /\ OneLiveSessionPerDevice
           /\ [Next]_vars
           => FreeInv' /\ OneLiveSessionPerDevice'
<1> SUFFICES ASSUME IInv, PortalInv, BusyInv, WaitInv, OwnerInv, RequestsApart, FreeInv,
                    OneLiveSessionPerDevice, [Next]_vars
             PROVE  FreeInv' /\ OneLiveSessionPerDevice'
  OBVIOUS
<1>0. TypeOK
  BY DEF IInv
<1>1. ASSUME NEW r \in Request, NEW s \in Session, InsertSession(r, s)
      PROVE  FreeInv' /\ OneLiveSessionPerDevice'
  <2>1. /\ req[r].pc = "checked"
        /\ \A x \in Session : owner'[x] = IF x = s THEN req[r].dev ELSE owner[x]
        /\ \A x \in Session : x # s => status'[x] = status[x]
        /\ req'[r].pc = "inserted"
        /\ \A q \in Request \ {r} : req'[q] = req[q]
    BY <1>1, InsertOfOwned
  <2>2. FreeInv'
    <3> SUFFICES ASSUME NEW q \in Request, req'[q].pc = "checked",
                        req'[q].dev \notin Placeholder,
                        NEW x \in Session, owner'[x] = req'[q].dev
                 PROVE  status'[x] \notin Live
      BY DEF FreeInv
    <3>1. q # r /\ req'[q] = req[q]
      BY <2>1
    <3>2. req[q].dev # req[r].dev
      BY <2>1, <3>1 DEF RequestsApart
    <3> QED
      BY <2>1, <3>1, <3>2 DEF FreeInv
  <2>3. OneLiveSessionPerDevice'
    BY <2>1 DEF FreeInv, OneLiveSessionPerDevice
  <2> QED
    BY <2>2, <2>3
<1>2. ASSUME NEW r \in Request, NEW d \in Device, CheckDevice(r, d)
      PROVE  FreeInv' /\ OneLiveSessionPerDevice'
  <2>1. UNCHANGED <<status, owner>>
    BY <1>2 DEF CheckDevice, database
  <2>2. /\ req'[r].dev = d
        /\ \A q \in Request \ {r} : req'[q] = req[q]
    BY <1>0, <1>2 DEF CheckDevice, ReqIdle, TypeOK
  <2>3. d \notin Placeholder => \A s \in Session : owner[s] = d => status[s] \notin Live
    BY <1>2 DEF CheckDevice, DeviceIsFree, BlocksDevice
  <2> QED
    BY <2>1, <2>2, <2>3 DEF FreeInv, OneLiveSessionPerDevice
<1>3. CASE /\ ~ \E r \in Request, s \in Session : InsertSession(r, s)
           /\ ~ \E r \in Request, d \in Device : CheckDevice(r, d)
  <2>1. /\ owner' = owner
        /\ \A s \in Session : status'[s] \in Live => status[s] \in Live
    BY <1>3, NoneRevived
  <2>2. \A q \in Request : req'[q].pc = "checked" => req'[q] = req[q]
    BY <1>3, CheckedStep
  <2> QED
    BY <2>1, <2>2 DEF FreeInv, OneLiveSessionPerDevice
<1> QED
  BY <1>1, <1>2, <1>3

\* OwnerInv holds of portal sales whose callbacks do not overlap.
LEMMA OwnerInvariance ==
    ASSUME ~ DashboardPay
    PROVE  Spec /\ []CallbacksApart => []OwnerInv
<1>1. Init => OwnerInv
  BY DEF Init, OwnerInv, ReqIdle
<1> QED
  BY <1>1, OwnerInvStep, WaitInvariance, BusyInvariance, PortalInvariance, Invariance, PTL
  DEF Spec

\* FreeInv holds of portal sales that write a MAC as the table does, as long
\* as no two handlers meet in the windows of the check and of the callback.
LEMMA FreeInvariance ==
    ASSUME ~ DashboardPay, "lower" \notin MacForms
    PROVE  Spec /\ []RequestsApart /\ []CallbacksApart
              => [](FreeInv /\ OneLiveSessionPerDevice)
<1>1. Init => FreeInv /\ OneLiveSessionPerDevice
  BY DEF Init, FreeInv, OneLiveSessionPerDevice, ReqIdle, Live
<1> QED
  BY <1>1, FreeInvStep, OwnerInvariance, WaitInvariance, BusyInvariance, PortalInvariance,
     Invariance, PTL DEF Spec

\* OneLiveSessionPerDevice: as long as no two requests of one device overlap
\* between check and insert, and no two callbacks of one transaction overlap,
\* create_session keeps a device to one live session, whatever the number of
\* handlers in progress and however jobs, locks and crashes interleave.
THEOREM ApartOneLiveSession ==
    ASSUME ~ DashboardPay, "lower" \notin MacForms
    PROVE  Spec /\ []RequestsApart /\ []CallbacksApart => []OneLiveSessionPerDevice
<1>1. FreeInv /\ OneLiveSessionPerDevice => OneLiveSessionPerDevice
  OBVIOUS
<1> QED
  BY <1>1, FreeInvariance, PTL

-----------------------------------------------------------------------------
(* The sale implements DeviceLease.                                        *)

EndedSet == {s \in Session : status[s] \notin Live \cup {"none"}}

\* Seen by the devices, every step opens one session for a free device, ends
\* sessions that were running, or changes nothing.
LEMMA DLStep ==
    IInv /\ PortalInv /\ BusyInv /\ WaitInv /\ OwnerInv /\ FreeInv /\ [Next]_vars
        => [DL!Next]_<<owner, EndedSet>>
<1> SUFFICES ASSUME IInv, PortalInv, BusyInv, WaitInv, OwnerInv, FreeInv, [Next]_vars
             PROVE  [DL!Next]_<<owner, EndedSet>>
  OBVIOUS
<1>1. \A x \in Session : DL!Running(x) <=> status[x] \in Live
  BY DEF DL!Running, OwnerInv, Live
<1>2. ASSUME NEW r \in Request, NEW s \in Session, InsertSession(r, s)
      PROVE  [DL!Next]_<<owner, EndedSet>>
  <2> DEFINE d == req[r].dev
  <2>1. /\ owner[s] = None
        /\ req[r].pc = "checked"
        /\ d \in Device
        /\ owner' = [owner EXCEPT ![s] = d]
        /\ \A x \in Session : status'[x] = IF x = s THEN "pending_payment" ELSE status[x]
    BY <1>2, InsertOfOwned
  <2>2. status[s] = "none"
    BY <1>2 DEF InsertSession
  <2>3. EndedSet' = EndedSet
    BY <2>1, <2>2 DEF EndedSet, Live
  <2>4. d \notin Placeholder => \A x \in Session : DL!Running(x) => owner[x] # d
    BY <1>1, <2>1 DEF FreeInv
  <2>5. DL!Open(s, d)
    BY <2>1, <2>3, <2>4 DEF DL!Open, EndedSet
  <2> QED
    BY <2>1, <2>5 DEF DL!Next
<1>3. CASE ~ \E r \in Request, s \in Session : InsertSession(r, s)
  <2> DEFINE S == EndedSet' \ EndedSet
  <2>1. /\ owner' = owner
        /\ \A s \in Session : /\ status'[s] = "none" <=> status[s] = "none"
                              /\ status'[s] \in Live => status[s] \in Live
    BY <1>3, NoneRevived
  <2>2. EndedSet' = EndedSet \cup S
    BY <2>1 DEF EndedSet
  <2>3. S \in SUBSET Session /\ \A s \in S : DL!Running(s)
    BY <1>1, <2>1 DEF EndedSet
  <2>4. \E T \in SUBSET Session : DL!End(T)
    BY <2>1, <2>2, <2>3 DEF DL!End, EndedSet
  <2> QED
    BY <2>4 DEF DL!Next
<1> QED
  BY <1>2, <1>3

\* ImplementsDeviceLease: as long as requests and callbacks keep apart, the
\* sale opens a session only for a device that has none running, and nothing,
\* a late or repeated callback included, makes an ended session live again.
THEOREM ApartImplementsDeviceLease ==
    ASSUME ~ DashboardPay, "lower" \notin MacForms
    PROVE  Spec /\ []RequestsApart /\ []CallbacksApart => ImplementsDeviceLease
<1>1. Init => DL!Init
  BY DEF Init, DL!Init
<1>2. IInv /\ PortalInv /\ BusyInv /\ WaitInv /\ OwnerInv /\ FreeInv /\ [Next]_vars
        => [DL!Next]_<<owner, {s \in Session : status[s] \notin Live \cup {"none"}}>>
  BY DLStep DEF EndedSet
<1> QED
  BY <1>1, <1>2, FreeInvariance, OwnerInvariance, WaitInvariance, BusyInvariance,
     PortalInvariance, Invariance, PTL DEF Spec, ImplementsDeviceLease, DL!Spec

-----------------------------------------------------------------------------
(* The router after the end of a session.                                  *)

\* Neither an expired session nor one the sweep is done with is on the router.
OffInv == \A s \in Session : s \in job.done \/ status[s] = "expired" => s \notin router

\* OffInv is preserved when the bridge answers: a callback adds only pending
\* sessions to the router, and the sweep holds only served ones.
LEMMA OffInvStep ==
    ASSUME ~ BridgeFaults
    PROVE  IInv /\ PortalInv /\ BusyInv /\ WaitInv /\ OffInv /\ [Next]_vars => OffInv'
<1> SUFFICES ASSUME IInv, PortalInv, BusyInv, WaitInv, OffInv, [Next]_vars PROVE OffInv'
  OBVIOUS
<1> USE DEF OffInv, database, outside, handlers, vars
<1>0. TypeOK /\ TxnInv /\ CallbackInv
  BY DEF IInv
<1>1. ASSUME NEW c \in Callback, CallbackProvision(c) PROVE OffInv'
  <2> DEFINE s == ref[cb[c].txn]
  <2>1. status[s] = "pending_payment"
    BY <1>0, <1>1 DEF CallbackProvision, CallbackInv, BusyInv, WaitInv
  <2>2. s \notin job.done /\ status[s] # "expired"
    BY <2>1 DEF WaitInv, Served
  <2>3. router' = router \cup {s} /\ UNCHANGED <<status, job>>
    BY <1>1 DEF CallbackProvision, AfterCreateUser
  <2> QED
    BY <2>2, <2>3
<1>2. ASSUME NEW c \in Callback, CallbackCommit(c) PROVE OffInv'
  <2>1. UNCHANGED <<router, job>>
    BY <1>2 DEF CallbackCommit
  <2>2. \A x \in Session : status'[x] = "expired" => status[x] = "expired"
    BY <1>2, CommitOfPending
  <2> QED
    BY <2>1, <2>2
<1>3. ASSUME NEW s \in Session, ExpiryRemove(s) PROVE OffInv'
  <2>1. router' = router \ {s} /\ job'.done = job.done \cup {s} /\ status' = status
    BY <1>3 DEF ExpiryRemove, AfterRemoveUser
  <2> QED
    BY <2>1
<1>4. CASE ExpiryCommit
  <2>1. /\ router' = router
        /\ job'.done = {}
        /\ \A s \in Session : status'[s] = IF s \in job.done THEN "expired" ELSE status[s]
    BY <1>4 DEF ExpiryCommit, JobIdle
  <2> QED
    BY <2>1
<1>5. CASE DeskCommit
  <2>1. /\ router' = router
        /\ job' = job
        /\ \A s \in Session : status'[s] = IF s \in desk.targets THEN desk.to ELSE status[s]
    BY <1>5 DEF DeskCommit
  <2>2. desk.to # "expired"
    BY <1>0 DEF TypeOK
  <2> QED
    BY <2>1, <2>2
<1>6. ASSUME NEW r \in Request, NEW s \in Session, InsertSession(r, s) PROVE OffInv'
  BY <1>0, <1>6 DEF InsertSession, TypeOK
<1>7. CASE ExpirySelect \/ Crash
  BY <1>7 DEF ExpirySelect, Crash, JobIdle
<1>8. CASE \/ \E r \in Request : \/ \E d \in Device : CheckDevice(r, d)
                                 \/ \E s \in Session : PayForSession(r, s)
                                 \/ PushUnconfigured(r)
                                 \/ \E t \in Txn : PushPrompt(r, t)
                                 \/ CommitPush(r)
           \/ \E c \in Callback : \/ \E t \in Txn : CallbackBegin(c, t)
                                  \/ CallbackLoad(c)
                                  \/ CallbackRollback(c)
           \/ LockLoad \/ \E s \in Session : TerminateLoad(s)
           \/ \E t \in Txn : AnswerPrompt(t) \/ CallbackIgnored(t)
           \/ \E s \in Session : Elapse(s)
           \/ UNCHANGED vars
  <2>1. status' = status /\ router' = router /\ job' = job
    BY <1>8 DEF CheckDevice, PayForSession, PushUnconfigured, PushPrompt, CommitPush,
                CallbackBegin, CallbackLoad, CallbackRollback, LockLoad, TerminateLoad,
                AnswerPrompt, CallbackIgnored, Elapse
  <2> QED
    BY <2>1
<1> QED
  BY <1>1, <1>2, <1>3, <1>4, <1>5, <1>6, <1>7, <1>8
  DEF Next, RequestNext, RequestStep, CallbackNext, CallbackStep, ExpiryNext, DeskNext,
      Environment

\* ExpiredIsOffRouter: with a bridge that answers, and callbacks of one
\* transaction that do not overlap, the sweep leaves no user of an expired
\* session on the router, and no later callback puts one back.
THEOREM ApartExpiredIsOffRouter ==
    ASSUME ~ DashboardPay, ~ BridgeFaults
    PROVE  Spec /\ []CallbacksApart => []ExpiredIsOffRouter
<1>1. Init => OffInv
  BY DEF Init, OffInv
<1>2. OffInv => ExpiredIsOffRouter
  BY DEF OffInv, ExpiredIsOffRouter
<1> QED
  BY <1>1, <1>2, OffInvStep, WaitInvariance, BusyInvariance, PortalInvariance, Invariance,
     PTL DEF Spec

-----------------------------------------------------------------------------
(* A callback that is posted once.                                         *)

\* A callback in progress was posted, and nobody else is about it.
PostedInv ==
    /\ \A c \in Callback : cb[c].pc # "idle" => deliveries[cb[c].txn] # 0
    /\ CallbacksApart

\* PostedInv is preserved when no callback is posted twice.
LEMMA PostedInvStep ==
    ASSUME MaxDeliveries <= 1
    PROVE  IInv /\ PostedInv /\ [Next]_vars => PostedInv'
<1> SUFFICES ASSUME IInv, PostedInv, [Next]_vars PROVE PostedInv'
  OBVIOUS
<1> USE DEF PostedInv, CallbacksApart, database, outside, handlers, vars
<1>0. TypeOK /\ CallbackInv
  BY DEF IInv
<1>1. \A t \in Txn : deliveries[t] \in Nat
  BY <1>0, PaymentAssumption DEF TypeOK
<1>2. ASSUME NEW c \in Callback, NEW t \in Txn, CallbackBegin(c, t) PROVE PostedInv'
  <2>1. deliveries[t] = 0 /\ deliveries' = [deliveries EXCEPT ![t] = 1]
    <3>1. /\ deliveries[t] < MaxDeliveries
          /\ deliveries' = [deliveries EXCEPT ![t] = deliveries[t] + 1]
      BY <1>2 DEF CallbackBegin, Deliver, CanDeliver
    <3>2. deliveries[t] = 0
      BY <1>1, <3>1, PaymentAssumption
    <3> QED
      BY <3>1, <3>2
  <2>2. /\ cb'[c].txn = t
        /\ \A d \in Callback \ {c} : cb'[d] = cb[d]
    BY <1>0, <1>2 DEF CallbackBegin, CbIdle, TypeOK
  <2>3. deliveries'[t] # 0 /\ \A u \in Txn : u # t => deliveries'[u] = deliveries[u]
    BY <1>0, <2>1 DEF TypeOK
  <2>4. \A d \in Callback \ {c} : cb[d].pc # "idle" => cb[d].txn # t
    BY <2>1
  <2> QED
    BY <1>0, <2>2, <2>3, <2>4 DEF CallbackInv
<1>3. ASSUME NEW c \in Callback, CallbackLoad(c) \/ CallbackProvision(c) PROVE PostedInv'
  <2>1. deliveries' = deliveries /\ cb[c].pc # "idle"
    BY <1>3 DEF CallbackLoad, CallbackProvision
  <2>2. cb'[c].txn = cb[c].txn /\ \A d \in Callback \ {c} : cb'[d] = cb[d]
    <3>1. CASE CallbackLoad(c)
      BY <1>0, <3>1 DEF CallbackLoad, TypeOK, CbState
    <3>2. CASE CallbackProvision(c)
      BY <1>0, <3>2 DEF CallbackProvision, TypeOK, CbState
    <3> QED
      BY <1>3, <3>1, <3>2
  <2> QED
    BY <2>1, <2>2
<1>4. ASSUME NEW c \in Callback, CallbackCommit(c) \/ CallbackRollback(c) PROVE PostedInv'
  <2>1. deliveries' = deliveries /\ cb' = [cb EXCEPT ![c] = CbIdle]
    BY <1>4 DEF CallbackCommit, CallbackRollback
  <2>2. cb'[c].pc = "idle" /\ \A d \in Callback \ {c} : cb'[d] = cb[d]
    BY <1>0, <2>1 DEF CbIdle, TypeOK
  <2> QED
    BY <2>1, <2>2
<1>5. ASSUME NEW t \in Txn, CallbackIgnored(t) PROVE PostedInv'
  <2>1. cb' = cb
    BY <1>5 DEF CallbackIgnored
  <2>2. \A u \in Txn : deliveries[u] # 0 => deliveries'[u] # 0
    BY <1>0, <1>1, <1>5 DEF CallbackIgnored, Deliver, TypeOK
  <2> QED
    BY <1>0, <2>1, <2>2 DEF CallbackInv
<1>6. CASE Crash
  BY <1>6 DEF Crash, CbIdle
<1>7. CASE \/ \E r \in Request : RequestNext(r)
           \/ ExpiryNext
           \/ DeskNext
           \/ \E t \in Txn : AnswerPrompt(t)
           \/ \E s \in Session : Elapse(s)
           \/ UNCHANGED vars
  <2>1. cb' = cb /\ deliveries' = deliveries
    BY <1>7 DEF RequestNext, RequestStep, CheckDevice, InsertSession, PayForSession,
                PushUnconfigured, PushPrompt, CommitPush, ExpiryNext, ExpirySelect,
                ExpiryRemove, ExpiryCommit, DeskNext, TerminateLoad, LockLoad, DeskCommit,
                AnswerPrompt, Elapse
  <2> QED
    BY <2>1
<1> QED
  BY <1>2, <1>3, <1>4, <1>5, <1>6, <1>7 DEF Next, CallbackNext, CallbackStep, Environment

\* With callbacks that Daraja posts once, their handlers keep apart, and what
\* hangs on that holds with any number of requests, callbacks and crashes:
\* nothing is processed twice, and no expired session is on the router.
THEOREM PostedOnce ==
    ASSUME ~ DashboardPay, ~ BridgeFaults, MaxDeliveries <= 1
    PROVE  Spec => DuplicateIsNoOp /\ []ExpiredIsOffRouter
<1>1. Init => PostedInv
  BY DEF Init, PostedInv, CallbacksApart, CbIdle
<1>2. PostedInv => CallbacksApart
  BY DEF PostedInv
<1>3. Spec => []CallbacksApart
  BY <1>1, <1>2, PostedInvStep, Invariance, PTL DEF Spec
<1> QED
  BY <1>3, ApartDuplicateIsNoOp, ApartExpiredIsOffRouter, PTL

-----------------------------------------------------------------------------
(* One request and one callback at a time.                                 *)

\* A backend that serves one payment request and one callback at a time keeps
\* all three promises, with no assumption on the behaviour that is left.
THEOREM SerialSale ==
    ASSUME ~ DashboardPay, ~ BridgeFaults, "lower" \notin MacForms,
           \A q, r \in Request : q = r,
           \A c, d \in Callback : c = d
    PROVE  Spec => /\ []OneLiveSessionPerDevice
                   /\ []ExpiredIsOffRouter
                   /\ ImplementsDeviceLease
<1>1. RequestsApart
  BY DEF RequestsApart
<1>2. CallbacksApart
  BY DEF CallbacksApart
<1> QED
  BY <1>1, <1>2, ApartOneLiveSession, ApartExpiredIsOffRouter, ApartImplementsDeviceLease, PTL
=============================================================================
