------------------------------ MODULE Packages ------------------------------
(***************************************************************************)
(* The packages page, app/dashboard/packages/page.tsx, and the backend's   *)
(* packages.py. The page never fetches its list again: after each request  *)
(* it changes its own copy, most handlers from the list as it was when     *)
(* they were clicked. The client of the page repeats a request whose       *)
(* answer is lost. Of a package only its being active is followed.         *)
(***************************************************************************)
EXTENDS Naturals, FiniteSets

CONSTANTS
    Pkg,        \* packages that can ever be made
    Demo,       \* how many demo packages there are
    MaxReq      \* bound: requests of the page under way at once

VARIABLES
    server,     \* server[p]: "none", "on", "off" or "gone"
    list,       \* the page's copy: "none" for what it does not show
    shown,      \* the first fetch has ended (~loading)
    reqs,       \* requests under way
    toggling,   \* the package whose switch is disabled, if any
    raced,      \* ghost: two of them overlapped, one not a deletion
    cut         \* ghost: an answer was lost, or a fetch or a demo load failed

vars == <<server, list, shown, reqs, toggling, raced, cut>>

Copy == [Pkg -> {"none", "on", "off"}]
Kind == {"fetch", "toggle", "bulk", "delete", "update", "create", "demo"}
Request == [kind : Kind, on : SUBSET Pkg, to : {"none", "on", "off"}, made : SUBSET Pkg,
            base : Copy, done : BOOLEAN]
Visible == {p \in Pkg : list[p] # "none"}
Stored == {p \in Pkg : server[p] \in {"on", "off"}}
Fetched == [p \in Pkg |-> IF p \in Stored THEN server[p] ELSE "none"]
NewRequest(k, ps, to) ==
    [kind |-> k, on |-> ps, to |-> to, made |-> {}, base |-> list, done |-> FALSE]
Running(k) == \E r \in reqs : r.kind = k

Init == /\ server \in [Pkg -> {"none", "on"}]
        /\ list = [p \in Pkg |-> "none"]
        /\ shown = FALSE /\ toggling = {} /\ raced = FALSE /\ cut = FALSE
        /\ reqs = {NewRequest("fetch", {}, "none")}

----------------------------------------------------------------------------
(* A click. Until the first fetch ends the grid is hidden; "New Package" is *)
(* not. The demo load is offered on an empty list. A form that is open when *)
(* its package is deleted can still be sent. Only the switch clicked last   *)
(* is disabled, until the answer to any of them.                            *)
Submitting == Running("create") \/ Running("update")
Deleted == {p \in Pkg : server[p] = "gone"}

Offered(k, ps) ==
    CASE k = "toggle" -> shown /\ ps \subseteq Visible \ toggling
      [] k = "update" -> shown /\ ps \subseteq Visible \cup Deleted /\ ~Submitting
      [] k = "delete" -> shown /\ ps \subseteq Visible
      [] k = "bulk" -> ps = Visible /\ Cardinality(ps) >= 2 /\ ~Running(k)
      [] k = "create" -> ps = {} /\ ~Submitting
      [] k = "demo" -> ps = {} /\ shown /\ Visible = {} /\ ~Running(k)

Target(k, ps, to) ==
    CASE k = "toggle" -> \E p \in ps : ps = {p} /\ to # list[p] /\ to # "none"
      [] k = "update" -> \E p \in ps : ps = {p} /\ to # "none"
      [] k = "delete" -> (\E p \in ps : ps = {p}) /\ to = "none"
      [] k = "bulk" -> to # "none"
      [] k \in {"create", "demo"} -> to = "on"

Click(k, ps, to) ==
    /\ Cardinality(reqs) < MaxReq
    /\ Offered(k, ps) /\ Target(k, ps, to)
    /\ NewRequest(k, ps, to) \notin reqs
    /\ reqs' = reqs \cup {NewRequest(k, ps, to)}
    /\ toggling' = IF k = "toggle" THEN ps ELSE toggling
    /\ raced' = (raced \/ \E r \in reqs : {k, r.kind} # {"delete"})
    /\ UNCHANGED <<server, list, shown, cut>>

----------------------------------------------------------------------------
Replace(r, s) == reqs' = (reqs \ {r}) \cup {s}
Ended(r) == /\ reqs' = reqs \ {r}
            /\ toggling' = IF r.kind = "toggle" THEN {} ELSE toggling

(* create_package: whatever the form says, a new package is active. *)
MakeOne(r) ==
    /\ r.kind \in {"create", "demo"} /\ ~r.done
    /\ \E p \in Pkg :
         /\ server[p] = "none"
         /\ server' = [server EXCEPT ![p] = "on"]
         /\ Replace(r, [r EXCEPT !.made = @ \cup {p},
                                 !.done = r.kind = "create" \/ Cardinality(r.made) + 1 = Demo])
    /\ UNCHANGED <<list, shown, toggling, raced, cut>>

(* update_package, bulk_update_status, delete_package *)
Change(r) ==
    /\ r.kind \in {"toggle", "update", "bulk", "delete"} /\ ~r.done
    /\ r.kind = "bulk" \/ r.on \subseteq Stored
    /\ server' = [p \in Pkg |-> IF p \notin r.on \cap Stored THEN server[p]
                                ELSE IF r.kind = "delete" THEN "gone" ELSE r.to]
    /\ Replace(r, [r EXCEPT !.done = TRUE])
    /\ UNCHANGED <<list, shown, toggling, raced, cut>>

(* What the handler makes of the page's copy: a deletion works on the copy  *)
(* of the moment, the others on the one they were clicked on, and the demo  *)
(* load starts from nothing.                                                *)
ToggleForgotten(r) == r.base
Toggled(r) == [p \in Pkg |-> IF p \in r.on THEN r.to ELSE r.base[p]]
Changed(r) == IF r.kind = "toggle" THEN Toggled(r)
              ELSE [p \in Pkg |-> IF p \in r.on /\ r.base[p] # "none" THEN r.to ELSE r.base[p]]
Added(r) == [p \in Pkg |-> IF p \in r.made THEN "on"
                           ELSE IF r.kind = "demo" THEN "none" ELSE r.base[p]]

Answer(r) ==
    /\ r.done
    /\ list' = CASE r.kind = "delete" -> [p \in Pkg |-> IF p \in r.on THEN "none" ELSE list[p]]
                 [] r.kind \in {"create", "demo"} -> Added(r)
                 [] OTHER -> Changed(r)
    /\ Ended(r)
    /\ UNCHANGED <<server, shown, raced, cut>>

(* fetchPackages; a failure leaves an empty list, as if there were none. *)
FetchAnswer(r, ok) ==
    /\ r.kind = "fetch"
    /\ list' = IF ok THEN Fetched ELSE list
    /\ cut' = (cut \/ ~ok)
    /\ shown' = TRUE
    /\ reqs' = reqs \ {r}
    /\ UNCHANGED <<server, toggling, raced>>

(* The request is refused, or could not be delivered: the page is told. A   *)
(* demo load that stops half way leaves its packages on the server.         *)
Fail(r) ==
    /\ r.kind # "fetch" /\ ~r.done
    /\ Ended(r)
    /\ cut' = (cut \/ r.made # {})
    /\ UNCHANGED <<server, list, shown, raced>>

(* The answer is lost and the client sends the request again; a creation    *)
(* makes a second package, of which alone the page will know.               *)
Again(r) ==
    /\ r.done
    /\ Replace(r, [r EXCEPT !.done = FALSE, !.made = {}])
    /\ cut' = TRUE
    /\ UNCHANGED <<server, list, shown, toggling, raced>>

Next ==
    \/ \E k \in Kind \ {"fetch"}, ps \in SUBSET Pkg, to \in {"none", "on", "off"} : Click(k, ps, to)
    \/ \E r \in reqs : \/ MakeOne(r) \/ Change(r) \/ Answer(r) \/ Fail(r) \/ Again(r)
                       \/ \E ok \in BOOLEAN : FetchAnswer(r, ok)

Spec == Init /\ [][Next]_vars

----------------------------------------------------------------------------
TypeOK == /\ server \in [Pkg -> {"none", "on", "off", "gone"}]
          /\ list \in Copy
          /\ shown \in BOOLEAN /\ toggling \subseteq Pkg /\ raced \in BOOLEAN /\ cut \in BOOLEAN
          /\ reqs \subseteq Request

(* When every request is answered the page shows the server's packages,     *)
(* without ever fetching them again, unless requests overlapped (deletions  *)
(* may) or an answer was lost.                                              *)
ListIsServer == reqs = {} /\ ~raced /\ ~cut => list = Fetched
=============================================================================
