---------------------------- MODULE ClientWizard ----------------------------
(***************************************************************************)
(* The three-step "Add Client" window of app/dashboard/clients/page.tsx.   *)
(* Entering step 2 asks the backend for the free addresses of the client's *)
(* type and fills in the first. The operator may go back, change the type, *)
(* type an address, close the window and open it again while an answer is  *)
(* on its way, and no answer is ever dropped.                              *)
(***************************************************************************)
EXTENDS Naturals

CONSTANTS
    Type,       \* client types
    Pool,       \* Pool[t]: the addresses set aside for type t
    Other       \* an address of no pool, typed by the operator

VARIABLES
    wz,         \* showWizard, wizardStep, form.client_type, form.networking_ip,
                \* ipAutoAssigned, ipsLoading, submitting
    avail,      \* availableIps
    loads,      \* types whose addresses are being fetched
    late        \* ghost: an answer of another request may still be on its way

vars == <<wz, avail, loads, late>>

Address == UNION {Pool[t] : t \in Type} \cup {Other}
NoIp == 0
Window == [open : BOOLEAN, step : 1..3, type : Type, ip : Address \cup {NoIp},
           auto : BOOLEAN, loading : BOOLEAN, submitting : BOOLEAN]
FirstType == CHOOSE t \in Type : TRUE

Init == /\ wz = [open |-> FALSE, step |-> 1, type |-> FirstType, ip |-> NoIp,
                 auto |-> FALSE, loading |-> FALSE, submitting |-> FALSE]
        /\ avail = {} /\ loads = {} /\ late = FALSE

(* openCreate. What is loading or being sent goes on. *)
OpenCreate ==
    /\ ~wz.open
    /\ wz' = [wz EXCEPT !.open = TRUE, !.step = 1, !.type = FirstType, !.ip = NoIp, !.auto = FALSE]
    /\ late' = (loads # {})
    /\ UNCHANGED <<avail, loads>>

ChooseType(t) ==
    /\ wz.open /\ wz.step = 1
    /\ wz' = [wz EXCEPT !.type = t]
    /\ UNCHANGED <<avail, loads, late>>

(* handleNext at step 1: the address already in the form stays in it until  *)
(* the answer. At most one request per type is followed.                    *)
NextToNetwork ==
    /\ wz.open /\ wz.step = 1 /\ wz.type \notin loads
    /\ wz' = [wz EXCEPT !.step = 2, !.loading = TRUE]
    /\ loads' = loads \cup {wz.type}
    /\ late' = (late \/ loads # {})
    /\ UNCHANGED avail

(* handleNext at step 2: it does not wait for the answer. *)
NextToBilling ==
    /\ wz.open /\ wz.step = 2 /\ wz.ip # NoIp
    /\ wz' = [wz EXCEPT !.step = 3]
    /\ UNCHANGED <<avail, loads, late>>

Back ==
    /\ wz.open /\ wz.step > 1
    /\ wz' = [wz EXCEPT !.step = @ - 1]
    /\ UNCHANGED <<avail, loads, late>>

Close ==
    /\ wz.open
    /\ wz' = [wz EXCEPT !.open = FALSE, !.step = 1]
    /\ UNCHANGED <<avail, loads, late>>

(* The answer of loadAvailableIps: the free addresses of the pool, of which *)
(* the first goes into the form; or none; or an error.                      *)
LoadFailsQuietly(t) ==
    /\ t \in loads
    /\ loads' = loads \ {t} /\ avail' = {}
    /\ wz' = [wz EXCEPT !.loading = FALSE]
    /\ UNCHANGED late

LoadFails(t) ==
    /\ t \in loads
    /\ loads' = loads \ {t} /\ avail' = {}
    /\ wz' = [wz EXCEPT !.auto = FALSE, !.loading = FALSE]
    /\ UNCHANGED late

LoadFindsNone(t) ==
    /\ t \in loads
    /\ loads' = loads \ {t} /\ avail' = {}
    /\ wz' = [wz EXCEPT !.ip = NoIp, !.auto = FALSE, !.loading = FALSE]
    /\ UNCHANGED late

LoadFinds(t, free, first) ==
    /\ t \in loads /\ free \subseteq Pool[t] /\ first \in free
    /\ loads' = loads \ {t} /\ avail' = free
    /\ wz' = [wz EXCEPT !.ip = first, !.auto = TRUE, !.loading = FALSE]
    /\ UNCHANGED late

(* handleIpManualOverride and handleIpDropdown; both are hidden while       *)
(* addresses load.                                                          *)
TypeAddress(a) ==
    /\ wz.open /\ wz.step = 2 /\ ~wz.loading
    /\ wz' = [wz EXCEPT !.ip = a, !.auto = FALSE]
    /\ UNCHANGED <<avail, loads, late>>

PickAddress(a) ==
    /\ wz.open /\ wz.step = 2 /\ ~wz.loading /\ a \in avail
    /\ wz' = [wz EXCEPT !.ip = a, !.auto = TRUE]
    /\ UNCHANGED <<avail, loads, late>>

(* handleSubmit: the button is disabled while a request is under way; its   *)
(* success closes the window, also one opened since it was sent.            *)
Submit ==
    /\ wz.open /\ wz.step = 3 /\ wz.ip # NoIp /\ ~wz.submitting
    /\ wz' = [wz EXCEPT !.submitting = TRUE]
    /\ UNCHANGED <<avail, loads, late>>

Submitted(ok) ==
    /\ wz.submitting
    /\ wz' = IF ok THEN [wz EXCEPT !.submitting = FALSE, !.open = FALSE, !.step = 1]
                   ELSE [wz EXCEPT !.submitting = FALSE]
    /\ UNCHANGED <<avail, loads, late>>

Next ==
    \/ OpenCreate \/ NextToNetwork \/ NextToBilling \/ Back \/ Close \/ Submit
    \/ \E t \in Type : ChooseType(t) \/ LoadFails(t) \/ LoadFindsNone(t)
    \/ \E t \in Type, free \in SUBSET UNION {Pool[u] : u \in Type} :
         \E first \in free : LoadFinds(t, free, first)
    \/ \E a \in Address \cup {NoIp} : TypeAddress(a)
    \/ \E a \in avail : PickAddress(a)
    \/ \E ok \in BOOLEAN : Submitted(ok)

Spec == Init /\ [][Next]_vars

----------------------------------------------------------------------------
TypeOK == /\ wz \in Window
          /\ avail \in SUBSET Address /\ loads \subseteq Type
          /\ late \in BOOLEAN

(* An address that the window shows as "Auto-assigned" belongs to the pool  *)
(* of the type chosen, however often the type was changed and the step      *)
(* repeated, once nothing is loading and unless two requests overlapped.    *)
AssignedFromPool ==
    wz.open /\ wz.step > 1 /\ wz.auto /\ wz.ip # NoIp /\ loads = {} /\ ~late
        => wz.ip \in Pool[wz.type]
=============================================================================
