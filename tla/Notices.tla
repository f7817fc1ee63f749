------------------------------ MODULE Notices -------------------------------
(***************************************************************************)
(* Notices: the administrator's Comms page (app/admin/comms/page.tsx)      *)
(* writes them to one ISP or to all of them, an ISP's inbox                *)
(* (app/dashboard/notifications/page.tsx) lists that ISP's and marks them  *)
(* read; the backend's part is admin_comms.py.  The inbox also lists the   *)
(* ISP's paid invoices, which have no row that could be read.  Both pages  *)
(* send a request once.  The inbox looks neither at the status of a mark's *)
(* answer nor at which notices "Mark all read" has covered.  A reminder     *)
(* (admin_invoices.py) arrives as a direct message does.  Texts, e-mails,  *)
(* the history and the limit of 50 notices are left out.                   *)
(***************************************************************************)
EXTENDS Naturals, FiniteSets

CONSTANTS
    Message,    \* notices that can ever be written
    Invoice,    \* invoices of the ISP that can be paid
    MaxReq      \* bound: requests of the inbox under way at once

VARIABLES
    to,         \* server: who the message was sent to, if it was
    paid,       \* server: the invoices that are paid
    read,       \* server: the messages in the ISP's inbox with a read_at
    inbox,      \* what the inbox lists, its tab, whether it is loading
    asks,       \* its requests under way
    desk,       \* the form of the Comms page: tab, ISP chosen
    post,       \* its message under way
    doubted     \* ghost: marked on the page by an answer that did not cover them

vars == <<to, paid, read, inbox, asks, desk, post, doubted>>
server == <<to, paid, read>>
comms == <<desk, post>>

\* A message is no invoice; Dashboard assumes it.
KindsDiffer == Message \cap Invoice = {}

Isp == {"mine", "other"}
Notice == Message \cup Invoice
Copy == [Notice -> {"none", "unread", "read"}]
Nothing == [n \in Notice |-> "none"]
Ask == [kind : {"load", "one", "all"}, on : SUBSET Notice, at : {"sent", "done", "refused"},
        copy : Copy]
NewAsk(kind, on) == [kind |-> kind, on |-> on, at |-> "sent", copy |-> Nothing]
Opened == [list |-> Nothing, tab |-> "all", loading |-> TRUE]
NoPost == [at |-> "none", to |-> "all"]

Init == /\ to = [m \in Message |-> "none"] /\ paid = {} /\ read = {}
        /\ inbox = Opened /\ asks = {NewAsk("load", {})}
        /\ desk = [tab |-> "broadcast", isp |-> "none"]
        /\ post = NoPost
        /\ doubted = {}

----------------------------------------------------------------------------
(* The Comms page. *)
Fill(d) == desk' = d /\ UNCHANGED <<server, inbox, asks, post, doubted>>

ChooseDesk(t) == Fill([desk EXCEPT !.tab = t])
ChooseIsp(i) == desk.tab = "direct" /\ Fill([desk EXCEPT !.isp = i])

(* What the form says at the click is sent; it may change meanwhile. *)
Send ==
    /\ post.at = "none"
    /\ desk.tab = "direct" => desk.isp # "none"
    /\ post' = [at |-> "sent", to |-> IF desk.tab = "direct" THEN desk.isp ELSE "all"]
    /\ UNCHANGED <<server, inbox, asks, desk, doubted>>

(* broadcast_to_all, direct_message: a row for each ISP that is meant. *)
Stored ==
    /\ post.at = "sent"
    /\ \E m \in Message : to[m] = "none" /\ to' = [to EXCEPT ![m] = post.to]
    /\ post' = [post EXCEPT !.at = "stored"]
    /\ UNCHANGED <<paid, read, inbox, asks, desk, doubted>>

(* Refused, lost on either way, or answered and the history loaded. *)
SendEnds ==
    /\ post.at # "none"
    /\ post' = NoPost
    /\ UNCHANGED <<server, inbox, asks, desk, doubted>>

----------------------------------------------------------------------------
(* The inbox. *)
Listed == {n \in Notice : inbox.list[n] # "none"}
Unread == {n \in Notice : inbox.list[n] = "unread"}

\* The rows of each tab; a direct message has none of its own.
Filtered == CASE inbox.tab = "all" -> Listed
              [] inbox.tab = "unread" -> Unread
              [] inbox.tab = "broadcast" -> {n \in Listed \cap Message : to[n] = "all"}
              [] inbox.tab = "payment" -> Listed \cap Invoice
Shown == IF inbox.loading THEN {} ELSE Filtered

ChooseTab(t) ==
    /\ inbox' = [inbox EXCEPT !.tab = t]
    /\ UNCHANGED <<server, asks, comms, doubted>>

Issue(kind, on) ==
    /\ Cardinality(asks) < MaxReq
    /\ NewAsk(kind, on) \notin asks
    /\ asks' = asks \cup {NewAsk(kind, on)}
    /\ UNCHANGED <<server, inbox, comms, doubted>>

Refresh == Issue("load", {})
MarkRead(n) == n \in Shown \cap Unread /\ Issue("one", {n})
MarkAllRead == Unread # {} /\ Issue("all", Listed \cap Message)

Becomes(a, b) == asks' = (asks \ {a}) \cup {b}
Ended(a) == asks' = asks \ {a}

(* get_my_notifications: a paid invoice is always listed as unread. *)
Inbox == {m \in Message : to[m] \in {"all", "mine"}}
Notifications == [n \in Notice |-> IF n \in read THEN "read"
                                   ELSE IF n \in Inbox \cup paid THEN "unread" ELSE "none"]

LoadHandled(a) ==
    /\ a.kind = "load" /\ a.at = "sent"
    /\ Becomes(a, [a EXCEPT !.at = "done", !.copy = Notifications])
    /\ UNCHANGED <<server, inbox, comms, doubted>>

(* mark_notification_read, mark_all_notifications_read *)

\* Mutant: only what was written to all ISPs is marked with the rest.
CoveredBroadcasts(a) == IF a.kind = "one" THEN a.on ELSE {m \in Message : to[m] = "all"}
Covered(a) == IF a.kind = "one" THEN a.on ELSE Inbox

MarkHandled(a) ==
    /\ a.kind \in {"one", "all"} /\ a.at = "sent" /\ Covered(a) \subseteq Message
    /\ read' = read \cup Covered(a)
    /\ Becomes(a, [a EXCEPT !.at = "done"])
    /\ UNCHANGED <<to, paid, inbox, comms, doubted>>

(* An invoice is not found among the messages; a token may have expired. *)
MarkRefused(a) ==
    /\ a.kind \in {"one", "all"} /\ a.at = "sent"
    /\ Becomes(a, [a EXCEPT !.at = "refused"])
    /\ UNCHANGED <<server, inbox, comms, doubted>>

LoadAnswered(a) ==
    /\ a.kind = "load" /\ a.at = "done"
    /\ inbox' = [inbox EXCEPT !.list = a.copy, !.loading = FALSE]
    /\ doubted' = {}
    /\ Ended(a)
    /\ UNCHANGED <<server, comms>>

(* Any answer marks: one notice, or all that are listed by now. *)
Marks(a) == IF a.kind = "one" THEN a.on \cap Listed ELSE Listed

MarkAnswered(a) ==
    /\ a.kind \in {"one", "all"} /\ a.at # "sent"
    /\ inbox' = [inbox EXCEPT !.list = [n \in Notice |-> IF n \in Marks(a) THEN "read" ELSE @[n]]]
    /\ doubted' = doubted \cup ((Marks(a) \cap Unread) \ (IF a.at = "done" THEN a.on ELSE {}))
    /\ Ended(a)
    /\ UNCHANGED <<server, comms>>

(* No answer, or for a load one that is refused: the list stays. *)
Fails(a) ==
    /\ inbox' = [inbox EXCEPT !.loading = @ /\ a.kind # "load"]
    /\ Ended(a)
    /\ UNCHANGED <<server, comms, doubted>>

(* The page is left and opened again; marks on their way arrive or do not. *)
Reopen(arrived) ==
    /\ ~inbox.loading
    /\ \A a \in arrived : a.kind # "load" /\ a.at = "sent" /\ Covered(a) \subseteq Message
    /\ read' = read \cup UNION {Covered(a) : a \in arrived}
    /\ inbox' = Opened /\ asks' = {NewAsk("load", {})} /\ doubted' = {}
    /\ UNCHANGED <<to, paid, comms>>

----------------------------------------------------------------------------
(* The administrator's page of invoices. *)
Settle(i) ==
    /\ paid' = IF i \in paid THEN paid \ {i} ELSE paid \cup {i}
    /\ UNCHANGED <<to, read, inbox, asks, comms, doubted>>

Next ==
    \/ \E t \in {"broadcast", "direct"} : ChooseDesk(t)
    \/ \E i \in Isp : ChooseIsp(i)
    \/ Send \/ Stored \/ SendEnds
    \/ \E t \in {"all", "unread", "broadcast", "payment"} : ChooseTab(t)
    \/ Refresh \/ MarkAllRead
    \/ \E n \in Notice : MarkRead(n)
    \/ \E a \in asks : \/ LoadHandled(a) \/ MarkHandled(a) \/ MarkRefused(a)
                       \/ LoadAnswered(a) \/ MarkAnswered(a) \/ Fails(a)
    \/ \E arrived \in SUBSET asks : Reopen(arrived)
    \/ \E i \in Invoice : Settle(i)

Spec == Init /\ [][Next]_vars

----------------------------------------------------------------------------
TypeOK == /\ to \in [Message -> {"none", "all"} \cup Isp]
          /\ paid \subseteq Invoice /\ read \subseteq Message
          /\ inbox \in [list : Copy, tab : {"all", "unread", "broadcast", "payment"},
                        loading : BOOLEAN]
          /\ asks \subseteq Ask
          /\ desk \in [tab : {"broadcast", "direct"}, isp : {"none"} \cup Isp]
          /\ post \in [at : {"none", "sent", "stored"}, to : {"all"} \cup Isp]
          /\ doubted \subseteq Notice

(* What the inbox shows as read was read on the server, however loads and   *)
(* marks overtake each other, but for a notice whose mark was refused, and  *)
(* one that a load brought while all of them were being marked.             *)
ReadIsRead == {n \in Notice : inbox.list[n] = "read"} \subseteq read \cup doubted
=============================================================================
