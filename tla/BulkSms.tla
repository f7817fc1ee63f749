------------------------------ MODULE BulkSms -------------------------------
(***************************************************************************)
(* The ISP's page of bulk messages, app/dashboard/comms/page.tsx, and the  *)
(* request it sends, bulk_sms.py: what was typed goes to a group of        *)
(* subscribers, the server logs the burst, and the page tells the outcome. *)
(* The form may be changed, and after the answer started anew, while a     *)
(* send is under way; a send whose answer is lost is repeated.  The        *)
(* messages themselves are only written to the server's log file.          *)
(***************************************************************************)
EXTENDS Naturals, Sequences

CONSTANTS Text, NoText, Group, MaxBursts

VARIABLES
    form,     \* message, group, whether numbers are typed, preview, outcome
    preview,  \* the message whose preview was asked for
    send,     \* the send under way
    log,      \* sms_logs
    owed,     \* ghost: the bursts asked for that were not refused
    cut       \* ghost: an answer was lost

vars == <<form, preview, send, log, owed, cut>>

Burst == [text : Text, group : Group]
Empty == [text |-> NoText, group |-> "all", phones |-> FALSE, shown |-> NoText,
          sent |-> FALSE, error |-> FALSE]
NoSend == [at |-> "none", text |-> NoText, group |-> "all"]

Init == /\ form = Empty /\ preview = NoText /\ send = NoSend
        /\ log = <<>> /\ owed = <<>> /\ cut = FALSE

----------------------------------------------------------------------------
(* The form. *)
Composing == ~form.sent

Set(f) == form' = f /\ UNCHANGED <<preview, send, log, owed, cut>>

(* What is typed keeps the preview of what was there; a template hides it. *)
TypeMessage(t) == Composing /\ Set([form EXCEPT !.text = t])
SelectTemplate(t) == Composing /\ Set([form EXCEPT !.text = t, !.shown = NoText])
ChooseGroup(g) == Composing /\ Set([form EXCEPT !.group = g])
TypeNumbers == Composing /\ form.group = "custom" /\ Set([form EXCEPT !.phones = ~@])

(* The button shows the preview, also when it is labelled Hide. *)
Preview ==
    /\ Composing /\ form.text # NoText
    /\ preview' = form.text
    /\ UNCHANGED <<form, send, log, owed, cut>>

(* Without an answer the message itself is shown; nothing looks whether it  *)
(* is still the message of the form.                                        *)
PreviewAnswered ==
    /\ preview # NoText
    /\ form' = [form EXCEPT !.shown = preview]
    /\ preview' = NoText
    /\ UNCHANGED <<send, log, owed, cut>>

(* The outcome takes the place of the form, with a button "Send another",   *)
(* which does not wait for the history of the last one.                     *)
OutcomeShown == form.sent
SendAnother == OutcomeShown /\ Set(Empty)

----------------------------------------------------------------------------
(* handleSend *)
Pressable == Composing /\ form.text # NoText

\* Mutant: the button stays enabled while a message is being sent.
SendEvenBusy == Pressable
SendEnabled == Pressable /\ send = NoSend

SendNeedsNumbers ==
    /\ SendEnabled /\ form.group = "custom" /\ ~form.phones
    /\ Set([form EXCEPT !.error = TRUE])

Send ==
    /\ SendEnabled /\ (form.group = "custom" => form.phones)
    /\ Len(owed) < MaxBursts
    /\ send' = [at |-> "sent", text |-> form.text, group |-> form.group]
    /\ form' = [form EXCEPT !.error = FALSE]
    /\ owed' = Append(owed, [text |-> form.text, group |-> form.group])
    /\ UNCHANGED <<preview, log, cut>>

(* send_bulk_sms_endpoint: the burst is logged, whatever became of its      *)
(* messages.                                                                *)
SendHandled ==
    /\ send.at = "sent"
    /\ Len(log) <= MaxBursts
    /\ log' = Append(log, [text |-> send.text, group |-> send.group])
    /\ send' = [send EXCEPT !.at = "handled"]
    /\ UNCHANGED <<form, preview, owed, cut>>

NotOwed == SubSeq(owed, 1, Len(owed) - 1)

(* Nobody in the group has a number, or the request never arrived. *)
SendRefused ==
    /\ send.at = "sent"
    /\ form' = [form EXCEPT !.error = TRUE]
    /\ owed' = IF cut THEN owed ELSE NotOwed
    /\ send' = NoSend
    /\ UNCHANGED <<preview, log, cut>>

(* request() sends it again, or reports the failure. *)
AnswerLost ==
    /\ send.at = "handled"
    /\ \/ send' = [send EXCEPT !.at = "sent"] /\ UNCHANGED form
       \/ send' = NoSend /\ form' = [form EXCEPT !.error = TRUE]
    /\ cut' = TRUE
    /\ UNCHANGED <<preview, log, owed>>

SendAnswered ==
    /\ send.at = "handled"
    /\ form' = [form EXCEPT !.sent = TRUE]
    /\ send' = [send EXCEPT !.at = "history"]
    /\ UNCHANGED <<preview, log, owed, cut>>

(* The history and the totals are loaded again; a failure is reported as    *)
(* one of the message.                                                      *)
HistoryLoaded(ok) ==
    /\ send.at = "history"
    /\ form' = [form EXCEPT !.error = @ \/ ~ok]
    /\ send' = NoSend
    /\ UNCHANGED <<preview, log, owed, cut>>

(* The page is left and opened again; a send on its way arrives or not. *)
Reopen ==
    /\ form' = Empty /\ preview' = NoText /\ send' = NoSend
    /\ \/ send.at # "sent" /\ UNCHANGED <<log, owed>>
       \/ send.at = "sent" /\ UNCHANGED log /\ owed' = IF cut THEN owed ELSE NotOwed
       \/ /\ send.at = "sent" /\ UNCHANGED owed
          /\ log' = Append(log, [text |-> send.text, group |-> send.group])
          /\ Len(log) <= MaxBursts
    /\ UNCHANGED cut

Next ==
    \/ \E t \in Text : TypeMessage(t) \/ SelectTemplate(t)
    \/ TypeMessage(NoText)
    \/ \E g \in Group : ChooseGroup(g)
    \/ \E ok \in BOOLEAN : HistoryLoaded(ok)
    \/ TypeNumbers \/ Preview \/ PreviewAnswered \/ SendAnother \/ SendNeedsNumbers
    \/ Send \/ SendHandled \/ SendRefused \/ AnswerLost \/ SendAnswered \/ Reopen

Spec == Init /\ [][Next]_vars

----------------------------------------------------------------------------
TypeOK == /\ form \in [text : Text \cup {NoText}, group : Group, phones : BOOLEAN,
                       shown : Text \cup {NoText}, sent : BOOLEAN, error : BOOLEAN]
          /\ preview \in Text \cup {NoText}
          /\ send \in [at : {"none", "sent", "handled", "history"},
                       text : Text \cup {NoText}, group : Group]
          /\ log \in Seq(Burst) /\ owed \in Seq(Burst) /\ cut \in BOOLEAN

(* Unless an answer was lost, the log holds each burst asked for and not    *)
(* refused, once, in order, with the message and the group that the form    *)
(* had when Send was pressed; the last one may be on its way.               *)
BurstOnce == ~cut => log = IF send.at = "sent" THEN NotOwed ELSE owed
=============================================================================
