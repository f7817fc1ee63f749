# WiBill: formal models

WiBill (HonestBill) sells internet access for small ISPs: a customer of a
hotspot buys a package on the captive portal, pays with M-Pesa (Safaricom's
Daraja API), and is let through the ISP's MikroTik router until the purchased
time is over. ISPs run their business from a dashboard, and pay the platform
every month; its administrator has pages of his own. The backend is a FastAPI
program, `src/backend/app`, the pages a Next.js program, `src/frontend/wibill`;
this directory holds TLA+ models of both, TLC configurations and TLAPS proofs.

Paths below are relative to `src/backend/app` unless they start with `src/` or,
ending in `.tsx`, are relative to `src/frontend/wibill`.

## 1. The system

One asyncio process serves all requests and runs the scheduled jobs. A handler
runs undisturbed from one `await` to the next; every database query, commit and
call to Daraja or the router is an `await`, and there other handlers run. There
are no locks: no query uses `FOR UPDATE`, no row has a version column. The
database sessions neither autoflush nor expire their objects at a commit
(`core/database.py:36-42`), so a handler keeps the values it read, and its
commit writes only the columns it changed. The router is reached over HTTP
through a small bridge program beside it (`bridge.py`).

A page holds copies of the server's rows. Its handlers run undisturbed up to
each `await` of a request, any number of requests may be under way, and an
answer is applied when it comes, whatever the page shows by then: there is no
request id and no cancellation. The client library repeats a request whose
answer is lost, also one that is not idempotent (`lib/api.ts:47`). The tabs of a
browser share `localStorage`.

| Component | State | Operations | Interacts with | What makes it correct |
|---|---|---|---|---|
| Hotspot sale: `api/routes/sessions.py`, `services/session_service.py` | `sessions`, `transactions` | check the device, create the session, ask for the payment, poll | M-Pesa, router, expiry | no service without payment; one live session per device; every sale is booked |
| M-Pesa: `services/mpesa_service.py`, `services/daraja_service.py`, `api/routes/mpesa.py` | `mpesa_transactions`, `mpesa_configs` | send an STK push, process the callback | Daraja, sessions, invoices, router | outcomes are final; duplicates do nothing; receipts are real |
| M-Pesa configuration: `api/routes/mpesa.py`, `app/dashboard/mpesa/page.tsx` | the ISP's credentials | save, test | Daraja | what is marked as verified was accepted |
| Session expiry: `jobs/session_expiry.py` | `sessions` | every minute: remove due users, mark the sessions | router | every due session ends, none ends early |
| Router bridge: `services/mikrotik_service.py`, `bridge.py` | hotspot users, filter rules | add, remove by tag, pause, resume, list | router | the router agrees with the database; who is paused is cut off |
| Redemption: `vouchers.py`, `reward_tokens.py`, `portal.py`, `loyalty.py`, `campaigns.py` (in `api/routes`) and their pages | `vouchers`, `reward_tokens`, `loyalty_accounts`, `campaigns` | issue, suspend, void, send, launch, redeem for a session | sessions, router | a credit buys one session; what is spent was served; points add up; a campaign is launched once |
| Platform invoices: `services/invoice_service.py`, `jobs/invoice_scheduler.py`, `api/routes/invoices.py`, `admin_invoices.py`, `app/admin/invoices/page.tsx`, `app/dashboard/billing/page.tsx`, `components/PaymentDialog.tsx` | `invoices`, `tenants.is_locked`, `.invoice_status` | create monthly, pay, sweep the overdue, lock and unlock | M-Pesa, sessions | an overdue invoice locks; a paid one has its receipt; the dialog tells the truth; who pays is reactivated |
| Subscribers: `services/subscriber_service.py`, `jobs/subscriber_*.py`, `api/routes/monthly_subscribers.py`, `ipam.py`, `app/dashboard/clients/page.tsx` | `subscribers`, `ipam_pools` | create, pause, suspend, resume, activate, expire, reconcile, count usage | Daraja, router | status and router agree; addresses are unique; the page shows one client at a time |
| Accounts: `api/routes/auth.py`, `admin.py`, `tenants.py`, `lib/auth.tsx`, the layouts and sign-in pages | invites, admin users, tenants, `localStorage` | invite, register, approve, suspend, sign in and out, guard a page | all pages | an invitation admits one ISP; only the admitted hold a token; who is approved can sign in |
| Packages: `api/routes/packages.py`, `app/dashboard/packages/page.tsx` | `packages`, the page's list | create, edit, toggle, delete | portal | the list is the server's |
| Router setup: `api/routes/mikrotik.py`, `app/dashboard/mikrotik/page.tsx` | `mikrotik_configs`, the wizard | save, test, generate, push, go live | router | what is shown as connected is what is saved |
| Portal design: `api/routes/portal_wizard.py`, `app/dashboard/wizard/page.tsx` | `tenants.portal_config`, snapshots, the editor | edit, publish, keep, restore, delete | portal rendering | the active snapshot is the one published; nothing untouched is overwritten |
| Bulk SMS: `api/routes/bulk_sms.py`, `app/dashboard/comms/page.tsx` | `sms_logs`, the form | preview, send, repeat | subscribers | a burst is sent once, as it was written |
| Overview: `app/dashboard/page.tsx` | the list of sessions, the drawers | load every 30 s, kick, set up | sessions, router and M-Pesa setup | a kicked session does not come back |
| Notices: `api/routes/admin_comms.py`, `app/admin/comms/page.tsx`, `app/dashboard/notifications/page.tsx` | `notifications`, the inbox | broadcast, direct message, load, mark one or all as read | invoices | what is shown as read was read |
| Network monitor: `services/network_checker.py`, `jobs/network_poller.py` | `network_events` | ping, classify | portal | an outage is reported after three failures |
| The rest: plans, portal rendering, mail and reminders, reports, flags, leads, the other pages | single rows, files | forms, templates, reads | | no protocol |

Hard behaviours: handlers that act on rows they read before an await (the
callback, the expiry sweep, the lock of a tenant, redemption, subscriber
expiry); Daraja callbacks that are lost, late, early or repeated; pushes that
succeed while their answer is lost; router calls that fail or succeed silently;
a process that dies with half of its effects outside the database; answers a
page applies too late; requests sent again while the first is being served; tabs
that change what another tab has read. There is no recovery pass for a sale.
`PROJECT.json` lists each hazard with its line and the properties that cover it.

The repository holds further copies and remains, which are left aside: other
versions of `bridge.py`, `src/phase-a-honestbill`, copies of pages beside the
backend, patches, HTML mock-ups, seed and PowerShell scripts, migrations. Its
tests cover the router helpers only.

## 2. The modules

| Modules | Content | Proofs |
|---|---|---|
| `HotspotPayment` | the sale from the pay button to the end of the session | `HotspotPaymentProofs` |
| `PaidAccess`, `DeviceLease`, `MpesaPayment` | the abstract specifications: what the sale promises about access and about devices, what an M-Pesa payment promises to the sale and to the invoices | in the proofs of the modules that implement them |
| `PlatformInvoice` | what an ISP owes the platform: the scheduler's jobs, the administrator's buttons, the ISP's two ways to pay, the callback | `PlatformInvoiceProofs` |
| `Redemption` | vouchers, reward tokens, points and campaigns, with the pages' requests and their repetition | `RedemptionProofs` |
| `BrowserSession` | registration, approval, sign-in and the guards of the pages, over the tabs of a browser | `BrowserSessionProofs` |
| `Subscribers` | monthly subscribers, the expiry job and what the bridge was told | `SubscribersProofs` |
| `ClientWizard`, `ClientsPage` | the clients page: adding a client; the table and the drawer | in `DashboardProofs` |
| `MpesaSetup` | the ISP's credentials, from two tabs | in `DashboardProofs` |
| `RouterSetup` | the router wizard and the overview's router drawer | in `DashboardProofs` |
| `PortalDesign` | the portal editor, publishing and snapshots | `PortalDesignProofs` |
| `Packages` | the packages page and its optimistic list | in `DashboardProofs` |
| `BulkSms` | the page of bulk messages | in `DashboardProofs` |
| `Overview` | the dashboard's first page: loads and kicks | `OverviewProofs` |
| `Notices` | the administrator's messages and an ISP's inbox | in `DashboardProofs` |
| `Dashboard` | the ten modules from `Subscribers` on, as one system | `DashboardProofs` |
| `MCHotspotPayment`, `MCPlatformInvoice`, `MCRedemption`, `MCBrowserSession`, `MCSubscribers`, `MCDashboard` | instances for TLC | |

The large modules compose a backend component with the pages that drive it and
with the services outside, since their hazards lie between them. Ghost
variables (`raced`, `cut`, `overlapped`, `drift`, `crossed`, `late`, `stale`,
`torn`, `touched`, `foreign`, `overtaken`, `doubted`, `admitted`, `owed`) record that a named overlap,
crash or lost answer has happened. They never enter a guard: the modules allow
every such behaviour, and a property that mentions a ghost says exactly which
overlaps the code does not survive.

Operators named as variants of the one that follows them (`JobRaisesLate` before
`JobRaises`, `SavedStill` before `SavedAs`) are its mutants (section 9).

## 3. HotspotPayment: a sale at the hotspot

One tenant. What the state stands for:

| Variable | Code |
|---|---|
| `status`, `owner`, `due` | `sessions.status`, `.mac_address`, and whether `.expires_at` has passed |
| `ledger`, `receipt` | `transactions.status` and `.mpesa_receipt` of the session's row (at most one: `session_id` is unique) |
| `mpesa`, `ref`, `processed` | `mpesa_transactions.status`, `.reference_id`, `.is_processed`, as committed |
| `phone`, `deliveries` | external: the prompt on the phone and its answer; how often Daraja posted the callback |
| `router` | the sessions with a hotspot user on the router |
| `req`, `cb`, `job`, `desk` | local variables of the running handlers: payment requests, callbacks, the expiry sweep, the termination or tenant lock in progress |

Actions and the code they stand for (exact lines in `PROJECT.json`, `map`):

| Action | Code |
|---|---|
| `CheckDevice`, `InsertSession` | `create_session`: the query for a live session of the device; the insert and its commit, an await later |
| `PayForSession` | `POST /mpesa/pay/session`: the operator's prompt for any session |
| `PushUnconfigured`, `PushPrompt`, `CommitPush` | `initiate_session_payment`: no usable configuration; the push, accepted, refused, or accepted with its answer lost; the commit, which carries the dashboard transaction of a portal sale |
| `AnswerPrompt`, `CallbackIgnored`, `CallbackBegin` | the customer; a delivery that finds no row or a processed one; a delivery that passes the test |
| `CallbackLoad`, `CallbackProvision`, `CallbackCommit`, `CallbackRollback` | the rest of `process_callback` and `_handle_session_paid`; any exception |
| `Elapse`, `ExpirySelect`, `ExpiryRemove`, `ExpiryCommit` | time; `expire_sessions`: the query, one removal per session, one commit |
| `TerminateLoad`, `LockLoad`, `DeskCommit` | `terminate_session`; the session sweep of `lock_tenant_account` |
| `Crash` | the process dies with all handlers; database, phone and router stay |

What is abstracted, and why it is enough:

- Amounts, phone numbers, packages, reconnect codes and times are left out; of
  time only "`expires_at` has passed" matters. It is fixed when the session is
  created, so a late payment activates a session that is already due; the model
  has that.
- An aborted request leaves no row in `mpesa_transactions`; a transaction id is
  never reused (`Unused`), as ids are fresh UUIDs. An M-Pesa transaction is
  identified with its CheckoutRequestID and its receipt number.
- `CallbackLoad` merges the queries for the session and for its dashboard
  transaction. Only the commit of a portal push creates a dashboard transaction
  and it does not touch the session's status, so the two orders of such a commit
  and the first query give the same results.
- Two operator actions on sessions do not overlap each other (`desk` holds one);
  they overlap everything else.
- A router call that fails leaves the router as it was or did its work and lost
  the answer (`BridgeFaults`). The bridge's tag is a prefix of the session id,
  taken as unique. The router's own uptime limit and its list of active
  connections are not modelled; `CallbackRollback` covers a commit that fails
  for what the bridge returned.
- The manual `activate` endpoint (`api/routes/sessions.py:267-353`) passes a UUID
  to a function that parses a string, fails before its commit, and changes nothing.
  The last commit of `create_session_with_payment` stores the CheckoutRequestID
  and the phone on the session, which no modelled code reads.

Three abstract specifications say what all this is for, each with a refinement
mapping in `HotspotPayment`:

- `PaidAccess`: payments are never taken back, and a session gains access only
  when paid for, one at a time. A session is paid when some committed transaction
  for it was paid on the phone, and has access when it is active or known to the
  router (`ImplementsPaidAccess`).
- `DeviceLease`: a session is opened once, for a device with no other session
  running, and ends once and for all. A session runs while it is pending or active
  (`ImplementsDeviceLease`). The code keeps this promise as long as handlers stay
  out of each other's way (sections 9 and 10).
- `MpesaPayment`: a transaction is committed once, becomes a success only when the
  payer entered the PIN, and keeps its outcome (`ImplementsMpesaPayment`). It is the
  promise of `process_callback` to all its callers: `PlatformInvoice` implements it
  as well.

## 4. PlatformInvoice: what an ISP owes the platform

| Variable | Code |
|---|---|
| `inv`, `past`, `receipt` | `invoices.status`, whether `.due_date` has passed, `.mpesa_receipt`, for each month |
| `locked`, `label` | `tenants.is_locked`, `tenants.invoice_status` |
| `mpesa`, `ref` | `mpesa_transactions.status`, `.reference_id`: a month's invoice, or the tenant itself (`Platform`, `api/routes/mpesa.py:274`) |
| `prompt` | external: the prompt on the payer's phone |
| `cb`, `sweep`, `desk` | what the callbacks, the overdue sweep and the administrator's requests have loaded |
| `dialog`, `overlay` | the payment dialog of the invoice list, the overlay of a paused dashboard |

| Action | Code |
|---|---|
| `CallbackDeclined`, `CallbackRaises`, `CallbackLoads`, `CallbackCommits` (with `Settle`) | `process_callback`, `_handle_invoice_paid`, `process_invoice_payment`, `unlock_tenant_account` |
| `SweepList`, `SweepLoad`, `SweepLock`, `SweepEnd` | `check_overdue_invoices` with `lock_tenant_account` for each invoice, and its one commit |
| `DeskBegin`, `DeskCommit` (`MarkPaid`, `SetStatus`, `CreateInvoice`) | every button of the administrator's page and the monthly job, loaded and then committed |
| `StkPush` in `BillingPay`, `Initiate`, `OverlayPay` | the billing page, the dialog, the overlay; the push with its commit, refused, or prompted with its row lost |
| `OpenDialog` ... `CloseDialog`, `PollAnswer`, `PollTimeout` | `PaymentDialog.tsx`; polls answer late, also after the dialog was closed and opened for another invoice |
| `LoadDashboard`, `OverlayPoll`, `OverlayReset` | the layout's check for a paused ISP and its payment |

A column is written only when the new value differs from the one loaded
(`Flush`), which is what lets a sweep and a payment both survive or overwrite
each other. Abstractions: the calendar stands still at `Today`, and the initial
states have any invoices of earlier months; amounts, fees and due dates
are left out but for "past"; the administrator's list, which may be old, is taken
as any label his buttons could have been drawn for; a callback loads invoice and
tenant in one step; the dialog's three-second timer is any moment; duplicate and
early callbacks and crashes are those of `HotspotPayment` and are not repeated;
the form that only sends a notice to the administrator is left out. Two of his
buttons write an aware datetime into a naive column and fail at the commit in the
code: "mark paid" when the month has an invoice, and creating an invoice by hand.
The handler then rolls back (`DeskRollsBack`), so `MarkPaid` is the case without an
invoice and `CreateInvoice` that of the monthly job.

The payments of invoices implement `MpesaPayment` (`prompt` as it is, `mpesa` as the
outcome); a push and its commit are one step here and two in `HotspotPayment`, and
the abstract specification allows both.

## 5. Redemption: access without payment

A redemption (`rd`) checks its credit, commits a session, commits its activation,
and commits the credit: `RedeemCheck`, `RedeemSession`, `RedeemActivate`,
`RedeemEnd`, with `RedeemRefused` for an error in between. Vouchers and tokens
differ in what they check (`Redeemable`), in what the early commits carry with them
(a token is marked in memory and the first commit writes it, `reward_tokens.py:205`)
and in what is written at the end (`Spend`). A request of a page (`call`) is pressed, loaded, committed
and answered; its answer may be lost, and then the client repeats it (`Resend`)
whether or not the first one still runs, up to `Retries` times. `modal`
is the window the page has open, which decides what can be pressed. `Crash` drops
all handlers; the page and the rows stay.

Abstractions: a batch of vouchers is one; expiry dates of vouchers and tokens are
a status any of them may have; tokens beyond the pool are counted (`made`) and not
followed; one account and one campaign; the router is `HotspotPayment`'s. The status
PATCH of campaigns is called by nothing. Redeeming points for a session
(`loyalty.py:391`) and earning them (`loyalty.py:250`) write an aware datetime into a
naive column: their commit always fails, so they change nothing and are no actions;
what moves the balance is the rewards that an ISP sends. The portal link of a token
(`portal.py`) has the same defect; the model lets it succeed, which allows more.

## 6. BrowserSession: who is signed in where

`made`, `active`, `locked`, `users`, `invite`, `invited` are the rows; `reg` the
registrations being served (checked, then committed, `auth.py:218`); `store` is
`localStorage`; `tab`, `wait`, `asks`, `hear`, `onboarded` are the followed tabs, the
requests of their forms, their requests to `/auth/me`, the storage events they
have not handled, and `sessionStorage`. `Follow` and `Visit` are links and typed
addresses, `Guard` the two layouts and the onboarding page, `DashboardAnswer` and
`AdminAnswer` what they do with the answer, `LoginAnswer` and its like the forms.
`OtherSignsIn`, `OtherSignsOut`, `OtherAnswer` are tabs not followed. `ApproveISP`,
`RejectISP`, `SuspendISP`, `GenerateInvite` are the administrator's page.

Abstractions: his list is fresh; reading a request and sending its answer are one
step; one registration per ISP name at a time; passwords and tokens are the
account they stand for; the endpoint that lifts a suspension has no button.

## 7. Subscribers

`row` is the subscriber's status and address, `told` the subscribers that the bridge
was last told, with success, to pause, `op` the request the backend serves for a subscriber, `job` the expiry job
with the rows it has read and written but not committed. `CreateBegin`, `CreateCheck`,
`CreateInsert`: `create_subscriber`; `Begin`, `ChangeCommit`, `ChangeBridge`,
`ChangeFails`: pause, suspend and resume, which write the row in one step and call
the bridge in another; `Activate`: `activate_subscriber`; `JobSelect` ... `JobCommit`:
`jobs/subscriber_expiry.py`, with a prompt, a block or an exception for each row and
one commit; `Crash`. A row that the job has flushed is locked for other writers.

What the router makes of it is not the backend's state. The bridge's
`/subscriber/pause` asks for one rule with the subscriber's address as source *and*
as destination (`bridge.py:479-486`), and never runs the generator that its library
returns for the call (the hotspot endpoints wrap theirs in `list`); the removals of
`/subscriber/resume` (`bridge.py:510`, `:520`) are not run either. `PauseRule` is that
rule, `Rules` the most the router can hold of them, `Drops` how a filter rule matches,
and `PausedIsBlocked` what the endpoint's docstring says.

Left out: billing dates (the job may find any active subscriber past its
date), account numbers, `out_of_sync`, the usage counters, the plan of a subscriber.

## 8. The pages of the dashboard

- `ClientWizard`: the three steps of "Add Client". Each entry into step 2 asks for
  the free addresses; `LoadFinds`, `LoadFindsNone`, `LoadFails` are its answers, which
  no step drops. At most one request per type is followed.
- `ClientsPage`: the drawer (`panel`) is filled by four kinds of answers, one of which
  replaces row and details together, the others the row alone. The neighbours listed
  beside the details are left out.
- `MpesaSetup`: saves from two tabs and a test that reads, waits for Daraja, and
  writes its verdict on whatever is saved by then.
- `RouterSetup`: the wizard's save-then-test, its gates, and the overview's drawer
  that tests what is saved and then saves what it shows. The PATCH-or-POST rule
  (`Stores`) is why a save may be refused; the test must then not be shown as good.
- `PortalDesign`: a save publishes the form; a snapshot is a copy of what is
  published; a restore publishes it and fills the form. Uploads end at any time.
- `Packages`: each answer changes the page's own list, most from the list as it
  was when the button was pressed (`base`).
- `BulkSms`: the burst sent is the form's at the time of the click, the form may be
  changed meanwhile; target counts, totals and the history's contents are left out.
  The provider is never called by this path.
- `Overview`: loads are sent, read and answered; kicks are sent, handled and
  answered. The requests of one load are read together. What its drawers do is in
  `MpesaSetup` and `RouterSetup`. The sessions page has a kick of its own, not
  modelled.
- `Notices`: a message is stored for all ISPs or one (`Stored`), and the inbox loads,
  lists by tab, and marks one notice or all of them. A mark's answer changes the page
  whatever its status, and "Mark all read" changes what is listed when the answer
  comes, while the server covers what it has when the request comes (`Covered`). Paid
  invoices are listed too and have no row to mark.

The parts of `Dashboard` share no variable, so its initial state picks the one
that runs and their state spaces add up; what one part changes under another
(a session kicked, a configuration saved) is an action of the other's environment.

## 9. What the runs check

| Run | Configuration | Checks | Result |
|---|---|---|---|
| `hotspot_serial` | two devices (one without MAC), two sessions, two transactions, one request, one callback at a time, two deliveries each, one crash | `OneLiveSessionPerDevice`, `ExpiredIsOffRouter`, `ImplementsDeviceLease`, and, under `FairSpec`, `DueSessionsEnd` | holds, 630 006 states |
| `hotspot_concurrent` | one session, both spellings of the MAC, two transactions, two requests, two callbacks, operator's prompts, bridge faults, two deliveries each, one crash; symmetric | `TypeOK`, `NoServiceWithoutPayment`, `ReceiptsAreReal`, `RevenueIsRecorded`, `FailedIsUnpaid`, `NotCutShort`, `ImplementsMpesaPayment`, `ImplementsPaidAccess` | holds, 1 240 212 states |
| `platform_invoice` | two months, one payment, one request of the administrator beside sweep and callback, two in all | `TypeOK`, `ReceiptIsReal`, `DialogTellsTruth`, `OutcomeIsThePayers`, `ImplementsMpesaPayment`, and, under `FairSpec`, `OverdueIsLocked` | holds, 633 294 states |
| `redemption` | a voucher and a token, the account, a campaign; two redemptions, two requests of the pages with one repetition, two sessions, one crash; symmetric | `TypeOK`, `SpentOnce`, `SpentIsServed`, `PointsAddUp`, `LaunchedOnce` | holds, 276 368 states |
| `browser_session` | one followed tab beside the others, two ISPs and the administrator, two requests to `/auth/me`; symmetric | `TypeOK`, `StorageIsTokens`, `TokenIsAdmitted`, `InviteOnce` | holds, 2 767 584 states |
| `dashboard` | two of everything in each part; one message and one invoice in the inbox | `TypeOK` and the twelve properties of `Dashboard` | holds, 2 333 874 states |
| `hotspot_device` | two requests of one device | `OneLiveSessionPerDevice` | violated |
| `hotspot_duplicate` | two deliveries of one callback | `DuplicateIsNoOp` | violated |
| `hotspot_pending` | under `EventLoopSpec` | `PendingIsResolved` | violated |
| `platform_paused` | as `platform_invoice` | `PayingReactivates` | violated |
| `browser_approved` | one ISP | `ApprovedCanLogin` | violated |
| `subscriber_paused` | two subscribers, two addresses | `PausedIsBlocked` | violated |

### The hotspot

The serial run has the properties the code keeps only when handlers of one kind
do not overlap (requests and callbacks still interleave with each other, with
the jobs, the desk and crashes). Two sessions let a device come back after its
session ended and let one sweep hold two sessions. The limits are part of the
result:

- `OneLiveSessionPerDevice` needs one request at a time: two concurrent ones pass
  the check together (`services/session_service.py:52-60`), which `hotspot_device`
  shows. It needs one callback at a time: a repeated one that overlaps the first
  revives a session that ended, when the device may have a new one. And it needs
  the MAC in upper case, as the query compares the request's spelling with the
  stored upper-case form.
- `ExpiredIsOffRouter` needs a bridge that answers, as the sweep marks a session
  expired whether or not the removal worked (`jobs/session_expiry.py:47-50`), and
  callbacks that do not overlap, as the second one adds the user again.
- `ImplementsDeviceLease` needs what `OneLiveSessionPerDevice` needs, and adds that
  a session that failed, expired or was terminated is never live again.

Section 10 proves the three for any number of requests and callbacks in progress,
as long as none of these meetings happens.

`hotspot_serial` cannot show what a bridge that fails leaves on the router, nor what
a lower-case MAC does to the device check; the code keeps neither.

The concurrent run lets everything overlap and fail, with both spellings of a MAC.
The operator's endpoint prompts for a session any number of times: a declined
second prompt marks a session failed that was paid for
(`services/mpesa_service.py:280`), and a second payment overwrites the receipt of
the first. So `FailedIsUnpaid` and the receipts of `RevenueIsRecorded` are about the
sessions prompted for once (`OnlyPrompt`), beside others that are not.
`NotCutShort` is about time: the sweep may still overwrite what a termination or a
lock has written since it read the row, and which of two endings a session keeps is
not claimed. `NoServiceWithoutPayment` does not say that a terminated session leaves
the router: nothing in the code removes it.

The run asks what holds whatever overlaps. Its interesting cases need
two handlers on one session: two callbacks of one transaction, callbacks of two
transactions with different answers, a callback between the sweep's query and
its commit. One session is enough since no two sessions share a row, and the
proofs lift the bound.

### The platform's invoices

Two months are needed for a payment that settles one invoice while another is
still overdue: the callback then unlocks and the next sweep locks again, which
`OverdueIsLocked` allows. `ReceiptIsReal` and `OutcomeIsThePayers` hold although
the sweep commits over a payment: the column it writes is the status, and a
payment that commits later wins. With two transactions the state space is out of
TLC's reach; the proofs have any number. The limit of `OutcomeIsThePayers` is the
platform payment, whose callback is rolled back: `platform_paused` shows what that
means for the ISP that paid.

### Redemption

Everything may overlap, be repeated and be cut off. What the code survives is
what the properties say without a ghost: a used voucher was always served, and the
account never loses more than its rewards cost. What needs the ghosts is what it
does not survive: two redemptions that overlap buy two sessions with one credit,
two launches that overlap make the tokens twice, two rewards that overlap may take
the points once (`raced`), and a crash after the activation leaves a voucher unused,
or spends a token for nothing (`cut`). `SpentOnce` and `LaunchedOnce` are therefore
about the order of check and mark under repetition, suspension and refusal, not
about these overlaps. Nor does a void voucher stay void: a redemption that had read
it before writes `used` over it, which the model has and no property excludes. Two sessions, two redemptions and one repetition are the least with which
each of these happens.

### The browser

Two ISPs are needed for answers of an account that is no longer signed in. One
followed tab is enough to see the others' effects, since the tabs not followed
write `localStorage` at any time; the proofs have any number.

`StorageIsTokens` and `InviteOnce` exclude what the code does not prevent: a late
answer of `/auth/me` beside another's token (`overtaken`), and two registrations
that overlap (`raced`).

### The dashboard

Two of each let a late answer be about another client, address, snapshot or
request than the one shown. `UntouchedSaveKeepsDesign` is an action property, the
others invariants. `ListIsServer` needs no deletion to be alone: deletions work on
the list of the moment and may overlap, every other pair of requests may not.
`crossed`, `cut`, `torn`, `touched`, `foreign` and `drift` again name what the pages and
the backend do not prevent, part by part at the properties; `AssignedFromPool` has no
exception, `KickedIsGone` and `ReadIsRead` except single rows, not whole behaviours.
`StoppedIsTold` is what the backend can promise: status, job and bridge calls agree.
What it tells the bridge does not block anyone, see `subscriber_paused`.

One message and one invoice are enough for `ReadIsRead`: each is loaded, marked and
overtaken by itself, "Mark all" meets both, and the other ISP's messages never reach
the inbox; the proof has any number.

### Bounds, fairness, mutants

`MaxDeliveries`, `MaxCrashes`, `MaxDesk`, `MaxCalls`, `MaxAsks`, `MaxReq`, `MaxBursts`
and `MaxLoads` count external events or requests under way; the values are the
least with which a repetition, an overlap and a recovery happen. The pools of ids
are finite, so a behaviour may stop when all are used: deadlock is not checked.

Fairness: `FairSpec` of `HotspotPayment` assumes weak fairness of the expiry job
alone: the scheduler starts it every minute (`main.py:65-71`) and the event loop
finishes what it started. `FairSpec` of `PlatformInvoice` assumes the same of the
overdue sweep, which runs every day (`jobs/invoice_scheduler.py`). A request, a
callback or an answer need never come. `EventLoopSpec` adds that every started
handler ends and every prompt is answered or times out; the violation of
`PendingIsResolved` under it is not for lack of fairness. The violation of
`PayingReactivates` is about a callback that has been served already. The pages
promise nothing under fairness: whatever a user may do, he may stop doing.

Each property of a passing run is paired with a mutant of the code's model that
breaks it (`mutants`); the mutant operators are defined just before the
definition they replace.

### The violated properties

They contradict the code's own words (`services/session_service.py:50`,
`api/routes/auth.py:206-208`, `bridge.py:466`, `app/dashboard/layout.tsx:296`) and the project's
documentation (`src/backend/CONTEXT.md:195` and `:240-241`); see `findings` in
`PROJECT.json`.

## 10. What is proved about HotspotPayment

`HotspotPaymentProofs`, for all sets of devices, sessions, transactions and
handlers, all bounds, with and without faults; the only assumption is
`PaymentAssumption` on the constants (types, and that `None` is not an id).

| Theorem | States |
|---|---|
| `Invariance` | `Spec => []IInv` |
| `TypeCorrect` | `Spec => []TypeOK` |
| `AccessIsPaid` | `Spec => []NoServiceWithoutPayment` |
| `LedgerIsReal` | `Spec => []ReceiptsAreReal` |
| `OutcomeIsFinal` | `Spec => ProcessedIsFinal` (a processed transaction keeps its flag and its outcome) |
| `SaleImplementsMpesaPayment` | `Spec => ImplementsMpesaPayment` |
| `SaleImplementsPaidAccess` | `Spec => ImplementsPaidAccess` |
| `TimeIsKept` | `Spec => []NotCutShort` |
| `RevenueIsKept` | `Spec => RevenueIsRecorded` |
| `FailedAreUnpaid` | `Spec => []FailedIsUnpaid` |
| `ApartDuplicateIsNoOp` | `Spec /\ []CallbacksApart => DuplicateIsNoOp` |
| `ApartExpiredIsOffRouter` | `Spec /\ []CallbacksApart => []ExpiredIsOffRouter`, assuming `~ DashboardPay` and `~ BridgeFaults` |
| `ApartOneLiveSession` | `Spec /\ []RequestsApart /\ []CallbacksApart => []OneLiveSessionPerDevice`, assuming `~ DashboardPay` and MACs in upper case |
| `ApartImplementsDeviceLease` | the same for `ImplementsDeviceLease` |
| `PostedOnce` | `Spec => DuplicateIsNoOp /\ []ExpiredIsOffRouter`, assuming `~ DashboardPay`, `~ BridgeFaults` and `MaxDeliveries <= 1` |
| `SerialSale` | the three properties of the serial run, without a hypothesis on the behaviour, when `Request` and `Callback` have one member |

None of the safety properties is inductive by itself: what a handler will write
depends on what it has read. `IInv` adds what the handlers hold in memory:

- `RequestInv`: a request in progress has a session that exists and a transaction
  that is its own and not committed; two portal requests never share a session.
  Hence `CommitPush` overwrites neither a transaction nor a ledger entry.
- `TxnInv`: a committed transaction is for an existing session, and a processed
  one has the outcome of the phone. As an answer on the phone never changes, a
  repeated commit writes the same outcome: that is `OutcomeIsFinal`, and it holds
  although the test of `is_processed` is not atomic with its setting.
- `CallbackInv`: a callback in progress has a committed, answered transaction, and
  goes to the router only with a payment.
- `AccessInv`: the sessions in the memory of the sweep and of the desk are paid
  for too, so their stale writes stay within paid sessions.
- `LedgerInv`: `ReceiptsAreReal`, and no ledger entry without a session.

For the ledger `SaleInv` adds that a callback which goes on to the commit of a
session's one payment has found the ledger entry, if there is one, and that a failed
session has a prompt that was declined; then two callbacks that write a session
prompted for once have the same outcome, which is why overlapping ones do no harm.
That the entry of a portal sale is committed with its transaction and stays
(`SaleIsEntered`) is an action property of its own (`EntryStep`). For the theorems
that assume `~ DashboardPay`, `PortalInv` says that no session is prompted for twice.

The lemmas `Stable` and `PaidStable` say what no step undoes; one lemma per part
of `IInv` shows that each action preserves it. For the refinement, a step grants
access (`GrantStep`), removes it (`RevokeStep`), makes one session paid
(`OnePaid`) or is a stutter. For `MpesaPayment`, `MatchInv` adds that an accepted
push is on the phone and that a callback works on a transaction that waits for
its result or has got it from another delivery: the second commit of a
transaction is a stutter of the abstract specification.

### What holds while handlers keep apart

`create_session` checks the device and inserts its row some awaits later;
`process_callback` tests `is_processed` and sets it some awaits later. Nothing locks
either window, and the violated runs show what happens when two handlers meet in
one. The theorems named `Apart...` show that these meetings are the only cause:

- `RequestsApart`: no two requests are between check and insert for one device
  (the placeholder MAC excepted, which the code does not limit);
- `CallbacksApart`: no two callbacks of one transaction are in progress.

They are hypotheses on the states of a behaviour, not on the constants: any
number of requests and callbacks may be in progress, for other devices and other
transactions, and they interleave with the sweep, the desk and crashes at every
await. The runs `hotspot_device` and `hotspot_duplicate` show that neither can be
dropped, and a lock on the device's rows or on the transaction's row
(`SELECT ... FOR UPDATE`) would establish them. `PostedOnce` and `SerialSale` are the
cases in which they hold by themselves.

The strengthening is again about what handlers remember. `BusyInv`: the
transaction of a callback still waits for its result. `WaitInv`: hence its session
is still pending when the commit comes, while the sessions that the sweep and the
desk hold have been served; the two kinds of stale write never concern the same
session (`CommitOfPending`). So no step but an insert makes a session live
(`NoneRevived`), and what a request found when it checked still holds when it
inserts (`FreeInv`). For the router, `OffInv` covers the sessions the sweep is done
with and has not yet committed.

## 11. What is proved about the other backends

`PlatformInvoiceProofs`, for any number of months, transactions and requests,
assuming `InvoiceAssumption`: `TypeOK`, `ReceiptIsReal`, `DialogTellsTruth`,
`OutcomeIsThePayers`, `ImplementsMpesaPayment`. None is inductive: a callback writes what it loaded two
steps earlier. `TxnInv` says what each stage of a callback knows of the phone and
of the transaction (a loaded one is of an invoice, paid and still processing),
`DialogInv` that what the dialog polls for are payments of the invoice it shows.
Every step is one of a payment or leaves payments alone (`Sorted`), which keeps
the cases few.

`RedemptionProofs`, for any pools, any number of redemptions and requests, any
points and bounds, assuming `RedemptionAssumption`: `TypeOK`, `SpentOnce`,
`SpentIsServed`, `PointsAddUp`, `LaunchedOnce`. The strengthening: a credit that never raced has one
handler (`AloneInv`), a voucher stays unused while its one redemption works
(`UnusedInv`), what was bought with a credit along its life (`BoughtInv`), a marked
credit has been served or its redemption is still at work (`ServedInv`), a handler of
the account has seen a balance of at least what is due, and exactly that when it was
alone (`PointsInv`), and a launch that was alone still finds its draft (`LaunchInv`).

`BrowserSessionProofs`, for any number of tabs, ISPs and requests, assuming
`SessionAssumption`: `TypeOK`, `StorageIsTokens`, `TokenIsAdmitted`, `InviteOnce`.
`ActiveInv` (the server's active tenants were invited or approved) is what lets a
sign-in keep `TokenIsAdmitted`; `InviteInv` adds to `InviteOnce` that a registration
which passed the check is alone and its invitation unused.

`SubscribersProofs`, for any number of subscribers and addresses: `TypeOK`,
`AddressesDistinct`, `StoppedIsTold`. `AddressInv`: an address that a creation
found free is still free; `ToldInv`: what the row, the job, the requests and the
bridge say of one subscriber agree, up to the call still to be made.

## 12. What is proved about the dashboard

The runs check the parts through `Dashboard`, and so do the theorems:
`DashboardProofs` shows, for all constants that satisfy `DashboardAssumption`, the
type invariant and each of the twelve properties of the run `dashboard` for
`Dashboard`'s own specification. The argument has two halves.

*The whole keeps what a part keeps.* A step of the dashboard is a step of the part
that runs and a stutter of the others, so `Spec => Part!Spec` for each of the ten
(`SubsRuns` to `NtcRuns`). Subscribers, PortalDesign and Overview have proofs in
modules of their own, whose theorems are used through the instance; the hypotheses
of the last two, `MarksDiffer` (the empty form is a design, and "no design" is none)
and `DrawersAreSteps`, are in `DashboardAssumption`, beside a type of client that
exists, the group "all" that every form starts with, and that a message is no
invoice.

*Each part keeps its invariant.*

| Part | Strengthening | Why the property is not inductive |
|---|---|---|
| Subscribers | `AddressInv`, `ToldInv` (section 11) | requests act on what they found free, the job on copies |
| ClientWizard | `Settled`: past the first step only addresses of the chosen type are loading; when none are, those offered and the one assigned are of its pool | closing, going back and changing the type leave an address in the form |
| ClientsPage | `PanelIsOneClient` and the types | inductive |
| MpesaSetup | `TestInv`: a test that waits for Daraja holds the saved credentials, unless a save was handled meanwhile | the server marks what was tested when Daraja answers |
| RouterSetup | `TriedInv`: a test under way tests the settings that were sent | saving and testing are two requests |
| PortalDesign | `BadgeInv`, `LookInv`: badge and untouched form agree with what is published up to a request that was handled and not answered | the page learns of it an answer later |
| Packages | `PackSound`: without a race a request that is no deletion is alone and was clicked on the list still shown, and the server has what its handler will make of that list; deletions handled and not answered are all that list and server differ by | the page applies changes to its own list, never fetching |
| BulkSms | `Owing`: the log is what was asked for, less the message on its way, which is the last | between click and handling the two sequences differ |
| Notices | `NtcAsked`: what a load has read is true of the server and stays so, a handled mark has marked all it was sent for; `NtcListed`, and `read` within the ISP's messages | loads and marks are answered in any order |
| Overview | `KicksEnd`, `Exist`: whose kick was handled has ended, and an answer that lists him is stale | a session's end and its disappearance are steps apart |

## 13. Model-checked only

`DueSessionsEnd` and `OverdueIsLocked`: liveness, out of the prover's reach. Every
other property of a passing run is a theorem.

## 14. Not modelled

See `components` in `PROJECT.json` for each part and the reason.

- Portal rendering, mail and reminders, reports, audit log, flags, leads, the other
  pages of the administrator and the marketing pages: formatting, or reads and
  writes of single rows no other part relies on.
- The network monitor: one sequential job that classifies from its own last
  events; what is wrong with it is seen by reading it (`services/network_checker.py:54`).
- Subscriber plans: one table, written from a window of the clients page; prices and
  speeds are data that no guard of the models reads.
- The usage poller and reconciliation: they write counters and flags nothing acts on.
- Amounts, dates and the calendar: that what is sold after the 26th is in no
  invoice (`jobs/invoice_scheduler.py:42`) follows from two dates.
- Promises of `src/backend/CONTEXT.md` that the code does not attempt (amount
  verification, rate limits per phone, a log of raw callbacks).
