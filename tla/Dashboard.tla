----------------------------- MODULE Dashboard ------------------------------
(***************************************************************************)
(* Ten components of the ISP's dashboard, as one system. They share no     *)
(* state; the initial state chooses which of them runs (part), the others  *)
(* rest in an initial state, so the state spaces add up. A component that  *)
(* has proofs is taken with them.                                          *)
(***************************************************************************)
EXTENDS Naturals

CONSTANTS
    Sub, Ip,                                     \* Subscribers
    Type, Pool, Other,                           \* ClientWizard
    Client, Nobody, Tab,                         \* ClientsPage
    Cred, NoCred,                                \* MpesaSetup
    Val, NoVal,                                  \* RouterSetup
    Look, Tech, Default, NoTech, Snap, None, Gone, \* PortalDesign
    Pkg, Demo, MaxReq,                           \* Packages
    Text, NoText, Group, MaxBursts,              \* BulkSms
    Session, SetupStep, SetupDrawer, MaxLoads,   \* Overview
    Message, Invoice                             \* Notices (and MaxReq)

VARIABLES part,
    row, told, job, op, drift, overlapped,
    wz, avail, loads, late,
    panel, busy, calls, table, lists, crossed,
    config, proven, page, drawer, saves, test, mixed,
    cfg, wizard, req, sent, load, dash, foreign,
    published, snapshot, editor, save, restore, touched, torn,
    server, list, shown, reqs, toggling, raced, cut,
    form, preview, send, log, owed, lost,
    state, saved, front, fetch, kick, confirmed, stale,
    to, paid, read, inbox, asks, desk, post, doubted

Subs == INSTANCE SubscribersProofs
Wiz == INSTANCE ClientWizard
Cli == INSTANCE ClientsPage
Mpesa == INSTANCE MpesaSetup WITH server <- config, crossed <- mixed
Rtr == INSTANCE RouterSetup WITH wz <- wizard
Portal == INSTANCE PortalDesignProofs
Pack == INSTANCE Packages
Sms == INSTANCE BulkSms WITH cut <- lost
Over == INSTANCE OverviewProofs WITH page <- front, load <- fetch,
                                    Step <- SetupStep, Drawer <- SetupDrawer
Ntc == INSTANCE Notices

\* There is a type of client, every form starts with the group "all", an empty
\* portal form is a design and the marks of a missing one are not, the
\* overview's drawers belong to steps and a message is no invoice.
ASSUME DashboardAssumption ==
    /\ Type # {} /\ "all" \in Group
    /\ Portal!MarksDiffer
    /\ Over!DrawersAreSteps
    /\ Ntc!KindsDiffer

Init == /\ part \in {"subs", "wiz", "cli", "mpesa", "rtr", "portal", "pack", "sms", "over", "ntc"}
        /\ Subs!Init /\ Wiz!Init /\ Cli!Init /\ Mpesa!Init /\ Rtr!Init /\ Portal!Init /\ Pack!Init
        /\ Sms!Init /\ Over!Init /\ Ntc!Init
        /\ part # "cli" => table.chosen = CHOOSE t \in Tab : TRUE
        /\ part # "rtr" => cfg = NoVal
        /\ part # "portal" => published = None
        /\ part # "pack" => \A p \in Pkg : server[p] = "none"

subs == <<row, told, job, op, drift, overlapped>>
wiz == <<wz, avail, loads, late>>
cli == <<panel, busy, calls, table, lists, crossed>>
mpesa == <<config, proven, page, drawer, saves, test, mixed>>
rtr == <<cfg, wizard, req, sent, load, dash, foreign>>
portal == <<published, snapshot, editor, save, restore, touched, torn>>
pack == <<server, list, shown, reqs, toggling, raced, cut>>
sms == <<form, preview, send, log, owed, lost>>
over == <<state, saved, front, fetch, kick, confirmed, stale>>
ntc == <<to, paid, read, inbox, asks, desk, post, doubted>>
vars == <<part, subs, wiz, cli, mpesa, rtr, portal, pack, sms, over, ntc>>

Next ==
    \/ part = "subs" /\ Subs!Next /\ UNCHANGED <<part, wiz, cli, mpesa, rtr, portal, pack, sms, over, ntc>>
    \/ part = "wiz" /\ Wiz!Next /\ UNCHANGED <<part, subs, cli, mpesa, rtr, portal, pack, sms, over, ntc>>
    \/ part = "cli" /\ Cli!Next /\ UNCHANGED <<part, subs, wiz, mpesa, rtr, portal, pack, sms, over, ntc>>
    \/ part = "mpesa" /\ Mpesa!Next /\ UNCHANGED <<part, subs, wiz, cli, rtr, portal, pack, sms, over, ntc>>
    \/ part = "rtr" /\ Rtr!Next /\ UNCHANGED <<part, subs, wiz, cli, mpesa, portal, pack, sms, over, ntc>>
    \/ part = "portal" /\ Portal!Next /\ UNCHANGED <<part, subs, wiz, cli, mpesa, rtr, pack, sms, over, ntc>>
    \/ part = "pack" /\ Pack!Next /\ UNCHANGED <<part, subs, wiz, cli, mpesa, rtr, portal, sms, over, ntc>>
    \/ part = "sms" /\ Sms!Next /\ UNCHANGED <<part, subs, wiz, cli, mpesa, rtr, portal, pack, over, ntc>>
    \/ part = "over" /\ Over!Next /\ UNCHANGED <<part, subs, wiz, cli, mpesa, rtr, portal, pack, sms, ntc>>
    \/ part = "ntc" /\ Ntc!Next /\ UNCHANGED <<part, subs, wiz, cli, mpesa, rtr, portal, pack, sms, over>>

Spec == Init /\ [][Next]_vars

----------------------------------------------------------------------------
(* The ranges of every component. *)
TypeOK == /\ Subs!TypeOK /\ Wiz!TypeOK /\ Cli!TypeOK /\ Mpesa!TypeOK /\ Rtr!TypeOK
          /\ Portal!TypeOK /\ Pack!TypeOK /\ Sms!TypeOK /\ Over!TypeOK /\ Ntc!TypeOK

(* Subscribers: no address is given to two, unless two creations overlapped. *)
AddressesDistinct == Subs!AddressesDistinct

(* Subscribers: of who is paused or suspended the bridge was told so. *)
StoppedIsTold == Subs!StoppedIsTold

(* ClientWizard: an address shown as assigned is from the pool of the type. *)
AssignedFromPool == Wiz!AssignedFromPool

(* ClientsPage: the drawer's row and statistics are of one client. *)
PanelIsOneClient == Cli!PanelIsOneClient

(* MpesaSetup: credentials marked as verified were accepted by Daraja. *)
VerifiedWasTested == Mpesa!VerifiedWasTested

(* RouterSetup: the settings shown as connected are the ones saved. *)
ConnectedIsSaved == Rtr!ConnectedIsSaved

(* PortalDesign: the snapshot marked as active is the design published. *)
ActiveIsPublished == Portal!ActiveIsPublished

(* PortalDesign: saving the look that was loaded or restored changes no look. *)
UntouchedSaveKeepsDesign == Portal!UntouchedSaveKeepsDesign

(* Packages: the page's list is the server's. *)
ListIsServer == Pack!ListIsServer

(* BulkSms: every burst asked for is logged once, as it was when pressed. *)
BurstOnce == Sms!BurstOnce

(* Overview: a session whose kick was confirmed is not listed again. *)
KickedIsGone == Over!KickedIsGone

(* Notices: what the inbox shows as read was read on the server, but for a  *)
(* mark that was refused and what came while all were being marked.         *)
ReadIsRead == Ntc!ReadIsRead
=============================================================================
