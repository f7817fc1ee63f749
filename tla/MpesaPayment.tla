---------------------------- MODULE MpesaPayment ----------------------------
(***************************************************************************)
(* What an M-Pesa payment promises to whoever asked for it, a hotspot sale *)
(* or an invoice: its row is committed once; it becomes a success only     *)
(* when the payer entered the PIN, a failure when the push was not         *)
(* confirmed or the payer declined; and an outcome is never taken back.    *)
(* A push whose answer is lost leaves a prompt that the row knows nothing  *)
(* of, and a process that dies after a push leaves a prompt without a row. *)
(***************************************************************************)
CONSTANT Txn

VARIABLES prompt,   \* the payer's phone
          outcome   \* the status of the committed row; "none": no row

Init ==
    /\ prompt = [t \in Txn |-> "none"]
    /\ outcome = [t \in Txn |-> "none"]

SendPrompt(t) ==
    /\ prompt[t] = "none"
    /\ outcome[t] = "none"
    /\ prompt' = [prompt EXCEPT ![t] = "prompted"]
    /\ UNCHANGED outcome

\* The row is committed, with the prompt or after it.
Record(t) ==
    /\ outcome[t] = "none"
    /\ \/ UNCHANGED prompt
       \/ prompt[t] = "none" /\ prompt' = [prompt EXCEPT ![t] = "prompted"]
    /\ \E o \in {"processing", "failed"} :
          /\ o = "processing" => prompt'[t] # "none"
          /\ outcome' = [outcome EXCEPT ![t] = o]

Answer(t) ==
    /\ prompt[t] = "prompted"
    /\ \E a \in {"paid", "declined"} : prompt' = [prompt EXCEPT ![t] = a]
    /\ UNCHANGED outcome

Settle(t) ==
    /\ outcome[t] = "processing"
    /\ \/ prompt[t] = "paid" /\ outcome' = [outcome EXCEPT ![t] = "success"]
       \/ prompt[t] = "declined" /\ outcome' = [outcome EXCEPT ![t] = "failed"]
    /\ UNCHANGED prompt

Next == \E t \in Txn : SendPrompt(t) \/ Record(t) \/ Answer(t) \/ Settle(t)

Spec == Init /\ [][Next]_<<prompt, outcome>>
=============================================================================
