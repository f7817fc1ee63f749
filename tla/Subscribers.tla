---------------------------- MODULE Subscribers ----------------------------
(***************************************************************************)
(* Monthly subscribers: services/subscriber_service.py and the job         *)
(* jobs/subscriber_expiry.py, under the operator's clients page. A         *)
(* subscriber is a row of the database and an instruction to the router's  *)
(* bridge: pause or resume its traffic. Every request and the job write    *)
(* the row in one step and call the bridge in another, so the two can      *)
(* part: when a call fails, when the process dies between the steps, or    *)
(* when a request and the job work on one subscriber at once (drift).      *)
(*                                                                         *)
(* What the bridge makes of an instruction it answers with success is      *)
(* another matter: see Rules and PausedIsBlocked.                          *)
(*                                                                         *)
(* Billing dates are not modelled: the job may find any active subscriber  *)
(* past its date. The account number (the count of the rows, plus one) and *)
(* the out_of_sync flag, which no operation here reads, are left out.      *)
(***************************************************************************)
EXTENDS Naturals

CONSTANTS
    Sub,        \* subscribers
    Ip          \* addresses

VARIABLES
    row,        \* row[s]: the committed row
    told,       \* subscribers the bridge was last told, with success, to pause
    job,        \* the expiry job: running, rows left, rows written but not committed
    op,         \* op[s]: the request the backend works on for s
    drift,      \* ghost: the two copies of the subscriber may have parted
    overlapped  \* ghost: two creations were in progress at once

vars == <<row, told, job, op, drift, overlapped>>

Stopped == {"paused", "suspended"}
Holding == Stopped \cup {"active", "pending_suspension"}
Row == [st : Holding \cup {"none"}, ip : Ip \cup {0}]
Change == {"pause", "suspend", "resume"}
Idle == [kind |-> "none", at |-> "-"]
Op == {Idle} \cup [kind : {"create"}, at : {"check", "insert"}, ip : Ip]
             \cup [kind : Change, at : {"commit", "bridge"}]
             \cup [kind : {"activate"}, at : Holding]

Exists(s) == row[s].st # "none"
Working(s) == op[s] # Idle
Creating(s) == op[s].kind = "create"
Untouched == [s \in Sub |-> "-"]

(* A write of the job that is flushed but not committed holds the row's lock. *)
Locked(s) == job.wrote[s] \in {"suspending", "suspended"}

Init == /\ row = [s \in Sub |-> [st |-> "none", ip |-> 0]]
        /\ told = {} /\ drift = {}
        /\ job = [on |-> FALSE, todo |-> {}, wrote |-> Untouched]
        /\ op = [s \in Sub |-> Idle]
        /\ overlapped = FALSE

End(s) == op' = [op EXCEPT ![s] = Idle]

----------------------------------------------------------------------------
(* create_subscriber, sent by the wizard's last step. The page's client     *)
(* sends it again when the connection is cut, while the backend goes on     *)
(* with the first: two creations with one address.                          *)
CreateBegin(s, a) ==
    /\ ~Exists(s) /\ ~Working(s)
    /\ op' = [op EXCEPT ![s] = [kind |-> "create", at |-> "check", ip |-> a]]
    /\ overlapped' = (overlapped \/ \E t \in Sub : Creating(t))
    /\ UNCHANGED <<row, told, job, drift>>

(* validate_ip_not_in_use *)
InUseUnlessStuck(a) == \E s \in Sub : row[s].ip = a /\ row[s].st \in Stopped \cup {"active"}
AddressInUse(a) == \E s \in Sub : row[s].ip = a /\ row[s].st \in Holding

CreateCheck(s) ==
    /\ Creating(s) /\ op[s].at = "check"
    /\ IF AddressInUse(op[s].ip) THEN End(s) ELSE op' = [op EXCEPT ![s].at = "insert"]
    /\ UNCHANGED <<row, told, job, drift, overlapped>>

(* The row is committed and then provisioned; a failure of that is only     *)
(* logged ("deferred"), so nothing more is written whatever the bridge says. *)
CreateInsert(s) ==
    /\ Creating(s) /\ op[s].at = "insert"
    /\ row' = [row EXCEPT ![s] = [st |-> "active", ip |-> op[s].ip]]
    /\ End(s)
    /\ UNCHANGED <<told, job, drift, overlapped>>

----------------------------------------------------------------------------
(* The buttons of the table and of the detail drawer. Between the click and *)
(* the handler the job may change the row, and the handler does not look at *)
(* its status. "Re-activate on router" is shown on a row flagged            *)
(* out_of_sync, and a reconciliation flags every row of a router that lists *)
(* any. The drawer's reconnect and restart change nothing: bridge.py has no *)
(* such endpoints, the handler raises and its flags are rolled back.        *)
Offered(k, s) == CASE k \in {"pause", "suspend"} -> row[s].st = "active"
                   [] k = "resume" -> row[s].st \in Stopped
                   [] k = "activate" -> row[s].st \in Stopped \cup {"active"}

Begin(k, s) ==
    /\ Exists(s) /\ ~Working(s) /\ Offered(k, s)
    /\ op' = [op EXCEPT ![s] =
         [kind |-> k, at |-> IF k = "activate" THEN row[s].st ELSE "commit"]]
    /\ drift' = IF job.wrote[s] = "-" THEN drift ELSE drift \cup {s}
    /\ UNCHANGED <<row, told, job, overlapped>>

NewStatusKept(k) == CASE k = "pause" -> "paused" [] k = "suspend" -> "suspended" [] k = "resume" -> "resume"

NewStatus(k) == CASE k = "pause" -> "paused" [] k = "suspend" -> "suspended" [] k = "resume" -> "active"

(* _change_status *)
ChangeCommit(s) ==
    /\ op[s].kind \in Change /\ op[s].at = "commit" /\ ~Locked(s)
    /\ row' = [row EXCEPT ![s].st = NewStatus(op[s].kind)]
    /\ op' = [op EXCEPT ![s].at = "bridge"]
    /\ UNCHANGED <<told, job, drift, overlapped>>

(* pause_subscriber_traffic, resume_subscriber_traffic: the bridge answers  *)
(* with success.                                                            *)
ChangeBridge(s) ==
    /\ op[s].kind \in Change /\ op[s].at = "bridge"
    /\ told' = IF op[s].kind = "resume" THEN told \ {s} ELSE told \cup {s}
    /\ End(s)
    /\ UNCHANGED <<row, job, drift, overlapped>>

(* The bridge cannot be reached or refuses: that is logged, the row stays. *)
ChangeFails(s) ==
    /\ op[s].kind \in Change /\ op[s].at = "bridge"
    /\ drift' = drift \cup {s}
    /\ End(s)
    /\ UNCHANGED <<row, told, job, overlapped>>

(* activate_subscriber provisions first and commits after; the status is    *)
(* written only when the row it read was not active. It resumes no traffic.  *)
Activate(s) ==
    /\ op[s].kind = "activate" /\ ~Locked(s)
    /\ row' = [row EXCEPT ![s].st = IF op[s].at = "active" THEN @ ELSE "active"]
    /\ End(s)
    /\ UNCHANGED <<told, job, drift, overlapped>>

----------------------------------------------------------------------------
(* process_overdue_subscribers: the rows are read once; each is written     *)
(* around a bridge call; one commit ends the run.                           *)
JobSelect(due) ==
    /\ ~job.on /\ due # {} /\ \A s \in due : row[s].st = "active"
    /\ job' = [job EXCEPT !.on = TRUE, !.todo = due]
    /\ UNCHANGED <<row, told, op, drift, overlapped>>

Between == \A s \in Sub : job.wrote[s] # "suspending"

(* The push was accepted: the row is skipped. *)
JobPrompts(s) ==
    /\ s \in job.todo /\ Between
    /\ job' = [job EXCEPT !.todo = @ \ {s}]
    /\ UNCHANGED <<row, told, op, drift, overlapped>>

JobSuspends(s) ==
    /\ s \in job.todo /\ Between
    /\ job' = [job EXCEPT !.todo = @ \ {s}, !.wrote[s] = "suspending"]
    /\ drift' = IF Working(s) THEN drift \cup {s} ELSE drift
    /\ UNCHANGED <<row, told, op, overlapped>>

JobRaisesLate(s) ==
    /\ s \in job.todo /\ Between
    /\ job' = [job EXCEPT !.todo = @ \ {s}, !.wrote[s] = "suspended"]
    /\ UNCHANGED <<row, told, op, drift, overlapped>>

(* No push was tried and the amount due is 0: the price of a plan that was  *)
(* never read raises, and the row is left pending_suspension.               *)
JobRaises(s) ==
    /\ s \in job.todo /\ Between
    /\ job' = [job EXCEPT !.todo = @ \ {s}, !.wrote[s] = "pending_suspension"]
    /\ UNCHANGED <<row, told, op, drift, overlapped>>

JobPauses(s, ok) ==
    /\ job.wrote[s] = "suspending"
    /\ job' = [job EXCEPT !.wrote[s] = "suspended"]
    /\ told' = IF ok THEN told \cup {s} ELSE told
    /\ drift' = IF ok /\ ~Working(s) THEN drift ELSE drift \cup {s}
    /\ UNCHANGED <<row, op, overlapped>>

JobCommit ==
    /\ job.on /\ job.todo = {} /\ Between
    /\ row' = [s \in Sub |-> IF job.wrote[s] = "-" THEN row[s] ELSE [row[s] EXCEPT !.st = job.wrote[s]]]
    /\ job' = [on |-> FALSE, todo |-> {}, wrote |-> Untouched]
    /\ UNCHANGED <<told, op, drift, overlapped>>

(* The process dies: what is not committed is gone. What the job has told   *)
(* the bridge stays told.                                                   *)
Crash ==
    /\ job.on \/ \E s \in Sub : Working(s)
    /\ job' = [on |-> FALSE, todo |-> {}, wrote |-> Untouched]
    /\ drift' = drift \cup {s \in Sub : Working(s)}
    /\ op' = [s \in Sub |-> Idle]
    /\ UNCHANGED <<row, told, overlapped>>

----------------------------------------------------------------------------
RequestNext(s) ==
    \/ \E a \in Ip : CreateBegin(s, a)
    \/ CreateCheck(s) \/ CreateInsert(s)
    \/ \E k \in Change \cup {"activate"} : Begin(k, s)
    \/ ChangeCommit(s) \/ ChangeBridge(s) \/ ChangeFails(s)
    \/ Activate(s)

JobNext ==
    \/ \E due \in SUBSET Sub : JobSelect(due)
    \/ \E s \in Sub : JobPrompts(s) \/ JobSuspends(s) \/ JobRaises(s)
    \/ \E s \in Sub, ok \in BOOLEAN : JobPauses(s, ok)
    \/ JobCommit

Next == (\E s \in Sub : RequestNext(s)) \/ JobNext \/ Crash

Spec == Init /\ [][Next]_vars

----------------------------------------------------------------------------
(* The declared ranges; in particular the job never writes a row it did not *)
(* read.                                                                    *)
TypeOK == /\ row \in [Sub -> Row]
          /\ told \subseteq Sub /\ drift \subseteq Sub
          /\ job \in [on : BOOLEAN, todo : SUBSET Sub,
                      wrote : [Sub -> {"-", "suspending", "suspended", "pending_suspension"}]]
          /\ op \in [Sub -> Op]
          /\ overlapped \in BOOLEAN

(* Unless two creations overlapped, no two subscribers have one address:    *)
(* there is no unique column, only the check made before the insert, so     *)
(* every status a row can get, the one a failed job leaves included, must   *)
(* keep holding its address.                                                *)
AddressesDistinct ==
    overlapped \/ \A s, t \in Sub : s # t /\ Exists(s) /\ Exists(t) => row[s].ip # row[t].ip

(* Of a subscriber the database calls paused or suspended the bridge was    *)
(* last told, with success, to pause the traffic, whoever stopped it, unless *)
(* a bridge call for it failed, the job and a request overlapped on it, or  *)
(* the process died in a request for it.                                    *)
StoppedIsTold ==
    \A s \in Sub : row[s].st \in Stopped /\ s \notin drift /\ ~Working(s) => s \in told

----------------------------------------------------------------------------
(* What the bridge makes of it. The pause endpoint asks for one rule of the *)
(* forward chain, with the subscriber's address as source and as            *)
(* destination. The calls that add and remove rules return generators which *)
(* the bridge never runs, so the router may hold none of them: Rules is the *)
(* most it can hold.                                                        *)
PauseRule(s) == [src |-> row[s].ip, dst |-> row[s].ip]
Rules == {PauseRule(s) : s \in told}

(* A rule drops a packet that matches all its conditions. *)
Drops(rule, packet) == rule.src = packet.src /\ rule.dst = packet.dst

(* Packets from or to a subscriber; 0 is anyone outside. *)
Traffic(s) == {p \in [src : Ip \cup {0}, dst : Ip \cup {0}] :
                  p.src # p.dst /\ row[s].ip \in {p.src, p.dst}}

(* "Block traffic for a subscriber by adding a firewall drop rule": whom the *)
(* bridge said it paused sends and receives nothing.                        *)
PausedIsBlocked ==
    \A s \in told : \A p \in Traffic(s) : \E rule \in Rules : Drops(rule, p)
=============================================================================
