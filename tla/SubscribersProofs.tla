------------------------- MODULE SubscribersProofs --------------------------
(***************************************************************************)
(* Proofs about Subscribers, for any number of subscribers and addresses.  *)
(***************************************************************************)
EXTENDS Subscribers, TLAPS

-----------------------------------------------------------------------------
(* The inductive invariant.                                                *)

\* Requests and the job work on rows that exist; a creation on one that does not.
ExistsInv ==
    /\ \A s \in Sub : Creating(s) => ~Exists(s)
    /\ \A s \in Sub : op[s].kind \in Change \cup {"activate"} => Exists(s)
    /\ \A s \in Sub : s \in job.todo \/ job.wrote[s] # "-" => Exists(s)

\* Without an overlap one creation is at work, and an address it has found free
\* still is.
AddressInv ==
    ~overlapped =>
        /\ \A s, t \in Sub : Creating(s) /\ Creating(t) => s = t
        /\ \A s, t \in Sub : Creating(s) /\ op[s].at = "insert" /\ Exists(t)
                                => row[t].ip # op[s].ip
        /\ \A s, t \in Sub : s # t /\ Exists(s) /\ Exists(t) => row[s].ip # row[t].ip

\* A row and what the bridge was told, up to the call that is still to be made.
ToldAt(s) ==
    /\ row[s].st \in Stopped /\ op[s].at # "bridge" => s \in told
    /\ Working(s) => job.wrote[s] \in {"-", "pending_suspension"}
    /\ job.wrote[s] = "suspended" => s \in told
    /\ op[s].kind = "resume" /\ op[s].at = "bridge" => row[s].st \notin Stopped

ToldInv == \A s \in Sub \ drift : Exists(s) => ToldAt(s)

IInv == TypeOK /\ ExistsInv /\ AddressInv /\ ToldInv

\* The parts of the invariant hold at first.
LEMMA InitIInv == Init => IInv
<1> SUFFICES ASSUME Init PROVE IInv
  OBVIOUS
<1>1. TypeOK
  BY DEF Init, TypeOK, Row, Op, Untouched
<1>2. ExistsInv /\ AddressInv /\ ToldInv
  BY DEF Init, ExistsInv, AddressInv, ToldInv, Exists, Creating, Idle, Change, Untouched
<1> QED
  BY <1>1, <1>2 DEF IInv

-----------------------------------------------------------------------------
(* Types.                                                                  *)

\* What the job may have written.
Wrote == {"-", "suspending", "suspended", "pending_suspension"}

JobState == [on : BOOLEAN, todo : SUBSET Sub, wrote : [Sub -> Wrote]]

\* The job's steps.
LEMMA JobMoves ==
    ASSUME NEW j \in JobState, NEW s \in Sub
    PROVE  /\ \A due \in SUBSET Sub : [j EXCEPT !.on = TRUE, !.todo = due] \in JobState
           /\ [j EXCEPT !.todo = @ \ {s}] \in JobState
           /\ \A w \in Wrote : [j EXCEPT !.todo = @ \ {s}, !.wrote[s] = w] \in JobState
           /\ \A w \in Wrote : [j EXCEPT !.wrote[s] = w] \in JobState
           /\ [on |-> FALSE, todo |-> {}, wrote |-> Untouched] \in JobState
BY DEF JobState, Wrote, Untouched

\* A row whose status changes.
LEMMA RowMoves ==
    ASSUME NEW q \in Row, NEW st \in Holding
    PROVE  [q EXCEPT !.st = st] \in Row /\ q.st \in Holding \cup {"none"}
BY DEF Row

\* A request that goes on.
LEMMA OpMoves ==
    ASSUME NEW q \in Op
    PROVE  /\ q.kind = "create" /\ q.at = "check" => [q EXCEPT !.at = "insert"] \in Op
           /\ q.kind \in Change => [q EXCEPT !.at = "bridge"] \in Op
           /\ q.kind = "create" => q.ip \in Ip
           /\ q.at = "bridge" => q.kind \in Change
           /\ q # Idle => q.kind \in Change \cup {"create", "activate"}
           /\ q.at # "-" => q # Idle
<1> USE DEF Change, Holding, Stopped
<1>1. CASE q = Idle
  BY <1>1 DEF Idle
<1>2. CASE q \in [kind : {"create"}, at : {"check", "insert"}, ip : Ip]
  BY <1>2 DEF Op, Idle
<1>3. CASE q \in [kind : Change, at : {"commit", "bridge"}]
  BY <1>3 DEF Op, Idle
<1>4. CASE q \in [kind : {"activate"}, at : Holding]
  BY <1>4 DEF Op, Idle
<1> QED
  BY <1>1, <1>2, <1>3, <1>4 DEF Op

\* The records of TypeOK.
LEMMA Types ==
    TypeOK <=> /\ row \in [Sub -> Row] /\ told \subseteq Sub /\ drift \subseteq Sub
               /\ job \in JobState /\ op \in [Sub -> Op] /\ overlapped \in BOOLEAN
BY DEF TypeOK, JobState, Wrote

\* The end of a request.
LEMMA EndType ==
    ASSUME op \in [Sub -> Op], NEW s \in Sub, End(s)
    PROVE  /\ op' \in [Sub -> Op] /\ op'[s] = Idle
           /\ \A t \in Sub \ {s} : op'[t] = op[t]
BY DEF End, Op

\* Every step keeps every variable within its type.
LEMMA TypeOKStep == TypeOK /\ [Next]_vars => TypeOK'
<1> SUFFICES ASSUME TypeOK, [Next]_vars PROVE TypeOK'
  OBVIOUS
<1>0. /\ row \in [Sub -> Row] /\ told \subseteq Sub /\ drift \subseteq Sub
      /\ job \in JobState /\ op \in [Sub -> Op] /\ overlapped \in BOOLEAN
  BY Types
<1> SUFFICES /\ row' \in [Sub -> Row] /\ told' \subseteq Sub /\ drift' \subseteq Sub
             /\ job' \in JobState /\ op' \in [Sub -> Op] /\ overlapped' \in BOOLEAN
  BY Types DEF TypeOK, JobState, Wrote
<1> DEFINE TypeNext == /\ row' \in [Sub -> Row] /\ told' \subseteq Sub /\ drift' \subseteq Sub
                       /\ job' \in JobState /\ op' \in [Sub -> Op] /\ overlapped' \in BOOLEAN
<1>1. ASSUME NEW s \in Sub, NEW a \in Ip, CreateBegin(s, a) PROVE TypeNext
  <2>1. op' \in [Sub -> Op] /\ overlapped' \in BOOLEAN
    BY <1>0, <1>1 DEF CreateBegin, Op
  <2> QED
    BY <1>0, <1>1, <2>1 DEF CreateBegin
<1>2. ASSUME NEW s \in Sub, CreateCheck(s) PROVE TypeNext
  <2>1. [op[s] EXCEPT !.at = "insert"] \in Op
    BY <1>0, <1>2, OpMoves DEF CreateCheck, Creating
  <2>2. op' \in [Sub -> Op]
    BY <1>0, <1>2, <2>1, EndType DEF CreateCheck
  <2> QED
    BY <1>0, <1>2, <2>2 DEF CreateCheck
<1>3. ASSUME NEW s \in Sub, CreateInsert(s) PROVE TypeNext
  <2>1. [st |-> "active", ip |-> op[s].ip] \in Row
    BY <1>0, <1>3, OpMoves DEF CreateInsert, Creating, Row, Holding
  <2> QED
    BY <1>0, <1>3, <2>1, EndType DEF CreateInsert
<1>4. ASSUME NEW s \in Sub, NEW k \in Change \cup {"activate"}, Begin(k, s) PROVE TypeNext
  <2>1. row[s].st \in Holding
    BY <1>0, <1>4 DEF Begin, Exists, Row
  <2>2. [kind |-> k, at |-> IF k = "activate" THEN row[s].st ELSE "commit"] \in Op
    BY <2>1 DEF Op, Change
  <2> QED
    BY <1>0, <1>4, <2>2 DEF Begin
<1>5. ASSUME NEW s \in Sub, ChangeCommit(s) PROVE TypeNext
  <2>1. NewStatus(op[s].kind) \in Holding
    BY <1>5 DEF ChangeCommit, Change, NewStatus, Holding, Stopped
  <2>2. [row[s] EXCEPT !.st = NewStatus(op[s].kind)] \in Row /\ [op[s] EXCEPT !.at = "bridge"] \in Op
    BY <1>0, <1>5, <2>1, RowMoves, OpMoves DEF ChangeCommit
  <2> QED
    BY <1>0, <1>5, <2>2 DEF ChangeCommit
<1>6. ASSUME NEW s \in Sub, ChangeBridge(s) \/ ChangeFails(s) PROVE TypeNext
  BY <1>0, <1>6, EndType DEF ChangeBridge, ChangeFails
<1>7. ASSUME NEW s \in Sub, Activate(s) PROVE TypeNext
  <2>1. row' \in [Sub -> Row]
    BY <1>0, <1>7 DEF Activate, Row, Holding
  <2> QED
    BY <1>0, <1>7, <2>1, EndType DEF Activate
<1>8. CASE JobNext
  <2>1. ASSUME NEW due \in SUBSET Sub, JobSelect(due) PROVE TypeNext
    <3>1. job' \in JobState
      BY <1>0, <2>1 DEF JobSelect, JobState
    <3> QED
      BY <1>0, <2>1, <3>1 DEF JobSelect
  <2>2. ASSUME NEW s \in Sub, JobPrompts(s) \/ JobSuspends(s) \/ JobRaises(s) PROVE TypeNext
    <3>1. job' \in JobState
      BY <1>0, <2>2, JobMoves, ZenonT(40) DEF JobPrompts, JobSuspends, JobRaises, Wrote
    <3> QED
      BY <1>0, <2>2, <3>1 DEF JobPrompts, JobSuspends, JobRaises
  <2>3. ASSUME NEW s \in Sub, NEW ok \in BOOLEAN, JobPauses(s, ok) PROVE TypeNext
    <3>1. job' \in JobState
      BY <1>0, <2>3, JobMoves DEF JobPauses, Wrote
    <3> QED
      BY <1>0, <2>3, <3>1 DEF JobPauses
  <2>4. CASE JobCommit
    <3>1. \A s \in Sub : job.wrote[s] # "-" => [row[s] EXCEPT !.st = job.wrote[s]] \in Row
      BY <1>0, <2>4, RowMoves DEF JobCommit, Between, JobState, Wrote, Holding, Stopped
    <3>2. row' \in [Sub -> Row] /\ job' \in JobState
      BY <1>0, <2>4, <3>1 DEF JobCommit, JobState, Wrote, Untouched
    <3> QED
      BY <1>0, <2>4, <3>2 DEF JobCommit
  <2> QED
    BY <1>8, <2>1, <2>2, <2>3, <2>4 DEF JobNext
<1>9. CASE Crash
  BY <1>0, <1>9 DEF Crash, Op, JobState, Wrote, Untouched
<1>10. CASE UNCHANGED vars
  BY <1>0, <1>10 DEF vars
<1> QED
  BY <1>1, <1>2, <1>3, <1>4, <1>5, <1>6, <1>7, <1>8, <1>9, <1>10 DEF Next, RequestNext

-----------------------------------------------------------------------------
(* Rows, and who works on them.                                            *)

\* What a request that goes on keeps.
LEMMA OpKeeps ==
    ASSUME NEW q \in Op, NEW x, q # Idle
    PROVE  /\ [q EXCEPT !.at = x].kind = q.kind /\ [q EXCEPT !.at = x].at = x
           /\ q.kind = "create" => [q EXCEPT !.at = x].ip = q.ip
BY DEF Op, Idle, Change

\* How rows come into being, and how their status and address change.
LEMMA RowSteps ==
    ASSUME TypeOK, ExistsInv, [Next]_vars, NEW s \in Sub
    PROVE  \/ /\ row'[s].ip = row[s].ip /\ (Exists(s)' <=> Exists(s))
           \/ /\ CreateInsert(s) /\ ~Exists(s) /\ Exists(s)'
              /\ row'[s].ip = op[s].ip /\ row'[s].st = "active"
<1>0. row \in [Sub -> Row] /\ job \in JobState /\ op \in [Sub -> Op]
  BY Types
<1> USE DEF Row, Exists
<1>1. CASE row' = row
  BY <1>1
<1>2. ASSUME NEW t \in Sub, CreateInsert(t)
      PROVE  \/ /\ row'[s].ip = row[s].ip /\ (Exists(s)' <=> Exists(s))
             \/ /\ CreateInsert(s) /\ ~Exists(s) /\ Exists(s)'
                /\ row'[s].ip = op[s].ip /\ row'[s].st = "active"
  BY <1>0, <1>2 DEF CreateInsert, ExistsInv
<1>3. ASSUME NEW t \in Sub, ChangeCommit(t)
      PROVE  row'[s].ip = row[s].ip /\ (Exists(s)' <=> Exists(s))
  <2>1. NewStatus(op[t].kind) # "none" /\ Exists(t)
    BY <1>3 DEF ChangeCommit, NewStatus, Change, ExistsInv
  <2> QED
    BY <1>0, <1>3, <2>1 DEF ChangeCommit
<1>4. ASSUME NEW t \in Sub, Activate(t)
      PROVE  row'[s].ip = row[s].ip /\ (Exists(s)' <=> Exists(s))
  <2>1. Exists(t)
    BY <1>4 DEF Activate, ExistsInv
  <2> QED
    BY <1>0, <1>4, <2>1 DEF Activate
<1>5. ASSUME JobCommit
      PROVE  row'[s].ip = row[s].ip /\ (Exists(s)' <=> Exists(s))
  <2>1. job.wrote[s] # "none"
    BY <1>0 DEF JobState, Wrote
  <2> QED
    BY <1>0, <1>5, <2>1 DEF JobCommit, ExistsInv
<1> QED
  BY <1>1, <1>2, <1>3, <1>4, <1>5
     DEF Next, RequestNext, JobNext, CreateBegin, CreateCheck, Begin, ChangeBridge, ChangeFails,
         JobSelect, JobPrompts, JobSuspends, JobRaises, JobPauses, Crash, vars

\* How the request for a subscriber changes.
LEMMA OpSteps ==
    ASSUME TypeOK, [Next]_vars, NEW s \in Sub
    PROVE  \/ op'[s] = op[s]
           \/ op'[s] = Idle
           \/ CreateCheck(s) /\ op'[s] = [op[s] EXCEPT !.at = "insert"] /\ ~AddressInUse(op[s].ip)
           \/ ChangeCommit(s) /\ op'[s] = [op[s] EXCEPT !.at = "bridge"]
           \/ \E a \in Ip : CreateBegin(s, a) /\ op'[s] = [kind |-> "create", at |-> "check", ip |-> a]
           \/ \E k \in Change \cup {"activate"} : Begin(k, s) /\ op'[s] =
                 [kind |-> k, at |-> IF k = "activate" THEN row[s].st ELSE "commit"]
<1>0. op \in [Sub -> Op]
  BY Types
<1>1. ASSUME NEW t \in Sub, RequestNext(t), t # s PROVE op'[s] = op[s]
  BY <1>0, <1>1 DEF RequestNext, CreateBegin, CreateCheck, CreateInsert, Begin, ChangeCommit,
                    ChangeBridge, ChangeFails, Activate, End
<1>2. ASSUME CreateInsert(s) \/ ChangeBridge(s) \/ ChangeFails(s) \/ Activate(s) PROVE op'[s] = Idle
  BY <1>0, <1>2 DEF CreateInsert, ChangeBridge, ChangeFails, Activate, End
<1>3. ASSUME CreateCheck(s)
      PROVE  \/ op'[s] = Idle
             \/ op'[s] = [op[s] EXCEPT !.at = "insert"] /\ ~AddressInUse(op[s].ip)
  BY <1>0, <1>3 DEF CreateCheck, End
<1>4. ASSUME ChangeCommit(s) PROVE op'[s] = [op[s] EXCEPT !.at = "bridge"]
  BY <1>0, <1>4 DEF ChangeCommit
<1>5. ASSUME NEW a \in Ip, CreateBegin(s, a) PROVE op'[s] = [kind |-> "create", at |-> "check", ip |-> a]
  BY <1>0, <1>5 DEF CreateBegin
<1>6. ASSUME NEW k \in Change \cup {"activate"}, Begin(k, s)
      PROVE  op'[s] = [kind |-> k, at |-> IF k = "activate" THEN row[s].st ELSE "commit"]
  BY <1>0, <1>6 DEF Begin
<1>7. CASE JobNext \/ UNCHANGED vars
  BY <1>7 DEF JobNext, JobSelect, JobPrompts, JobSuspends, JobRaises, JobPauses, JobCommit, vars
<1>8. CASE Crash
  BY <1>8 DEF Crash
<1>9. CASE \E t \in Sub : RequestNext(t)
  BY <1>1, <1>2, <1>3, <1>4, <1>5, <1>6, <1>9 DEF RequestNext
<1> QED
  BY <1>7, <1>8, <1>9 DEF Next

\* The job takes up what is active.
LEMMA JobSteps ==
    ASSUME TypeOK, [Next]_vars, NEW s \in Sub, s \in job'.todo \/ job'.wrote[s] # "-"
    PROVE  s \in job.todo \/ job.wrote[s] # "-" \/ row[s].st = "active"
<1>0. job \in [on : BOOLEAN, todo : SUBSET Sub, wrote : [Sub -> Wrote]]
  BY Types DEF JobState
<1>1. CASE job' = job
  BY <1>1
<1>2. CASE \E due \in SUBSET Sub : JobSelect(due)
  BY <1>0, <1>2 DEF JobSelect
<1>3. ASSUME NEW t \in Sub, JobPrompts(t) \/ JobSuspends(t) \/ JobRaises(t)
      PROVE  s \in job.todo \/ job.wrote[s] # "-"
  <2>1. t \in job.todo /\ job'.todo = job.todo \ {t}
    BY <1>0, <1>3 DEF JobPrompts, JobSuspends, JobRaises
  <2>2. s # t => job'.wrote[s] = job.wrote[s]
    BY <1>0, <1>3 DEF JobPrompts, JobSuspends, JobRaises
  <2> QED
    BY <2>1, <2>2
<1>4. CASE \E t \in Sub, ok \in BOOLEAN : JobPauses(t, ok)
  BY <1>0, <1>4 DEF JobPauses
<1>5. CASE JobCommit \/ Crash
  BY <1>5 DEF JobCommit, Crash, Untouched
<1>6. ASSUME NEW t \in Sub, RequestNext(t) PROVE job' = job
  BY <1>6 DEF RequestNext, CreateBegin, CreateCheck, CreateInsert, Begin, ChangeCommit,
              ChangeBridge, ChangeFails, Activate
<1> QED
  BY <1>1, <1>2, <1>3, <1>4, <1>5, <1>6 DEF Next, JobNext, vars

\* Requests and the job keep to rows that exist.
LEMMA ExistsStep == IInv /\ [Next]_vars => ExistsInv'
<1> SUFFICES ASSUME IInv, [Next]_vars, NEW s \in Sub
      PROVE  /\ Creating(s)' => ~Exists(s)'
             /\ op'[s].kind \in Change \cup {"activate"} => Exists(s)'
             /\ s \in job'.todo \/ job'.wrote[s] # "-" => Exists(s)'
  BY DEF ExistsInv
<1>0. /\ TypeOK /\ ExistsInv /\ op[s] \in Op
      /\ Creating(s) => ~Exists(s)
      /\ op[s].kind \in Change \cup {"activate"} => Exists(s)
      /\ s \in job.todo \/ job.wrote[s] # "-" => Exists(s)
  BY Types DEF IInv, ExistsInv
<1>1. Exists(s) => Exists(s)'
  BY <1>0, RowSteps
<1>2. Exists(s)' => Exists(s) \/ op'[s] = Idle
  <2>1. CreateInsert(s) => op'[s] = Idle
    BY Types, EndType, <1>0 DEF CreateInsert
  <2> QED
    BY <1>0, <2>1, RowSteps
<1>6. \/ op'[s] = Idle
      \/ op'[s].kind = op[s].kind
      \/ Creating(s)' /\ ~Exists(s)
      \/ ~Creating(s)' /\ Exists(s)
  <2>1. CASE CreateCheck(s) /\ op'[s] = [op[s] EXCEPT !.at = "insert"]
    BY <1>0, <2>1, OpKeeps DEF CreateCheck, Creating, Idle
  <2>2. CASE ChangeCommit(s) /\ op'[s] = [op[s] EXCEPT !.at = "bridge"]
    BY <1>0, <2>2, OpKeeps DEF ChangeCommit, Change, Idle
  <2>3. ASSUME NEW a \in Ip, CreateBegin(s, a), op'[s] = [kind |-> "create", at |-> "check", ip |-> a]
        PROVE  Creating(s)' /\ ~Exists(s)
    BY <2>3 DEF CreateBegin, Creating
  <2>4. ASSUME NEW k \in Change \cup {"activate"}, Begin(k, s), op'[s] =
                 [kind |-> k, at |-> IF k = "activate" THEN row[s].st ELSE "commit"]
        PROVE  ~Creating(s)' /\ Exists(s)
    BY <2>4 DEF Begin, Creating, Change
  <2> QED
    BY <1>0, <2>1, <2>2, <2>3, <2>4, OpSteps
<1>3. Creating(s)' => ~Exists(s)'
  BY <1>0, <1>2, <1>6 DEF Creating, Idle
<1>4. op'[s].kind \in Change \cup {"activate"} => Exists(s)'
  BY <1>0, <1>1, <1>6 DEF Creating, Idle, Change
<1>5. s \in job'.todo \/ job'.wrote[s] # "-" => Exists(s)'
  BY <1>0, <1>1, JobSteps DEF Exists
<1> QED
  BY <1>3, <1>4, <1>5

-----------------------------------------------------------------------------
(* Addresses.                                                              *)

\* overlapped is kept, and set by a creation that begins during another.
LEMMA OverlapSteps ==
    ASSUME [Next]_vars
    PROVE  /\ overlapped => overlapped'
           /\ \A s \in Sub, a \in Ip : CreateBegin(s, a) /\ ~overlapped' => \A t \in Sub : ~Creating(t)
<1>1. overlapped => overlapped'
  <2>1. ASSUME NEW s \in Sub, RequestNext(s) PROVE overlapped => overlapped'
    BY <2>1 DEF RequestNext, CreateBegin, CreateCheck, CreateInsert, Begin, ChangeCommit,
                ChangeBridge, ChangeFails, Activate
  <2>2. CASE JobNext \/ Crash \/ UNCHANGED vars
    BY <2>2 DEF JobNext, JobSelect, JobPrompts, JobSuspends, JobRaises, JobPauses, JobCommit,
                Crash, vars
  <2> QED
    BY <2>1, <2>2 DEF Next
<1>2. \A s \in Sub, a \in Ip : CreateBegin(s, a) /\ ~overlapped' => \A t \in Sub : ~Creating(t)
  BY DEF CreateBegin
<1> QED
  BY <1>1, <1>2

\* A creation that is at work was, or has just begun.
LEMMA CreatingSteps ==
    ASSUME TypeOK, ExistsInv, [Next]_vars, NEW s \in Sub, Creating(s)'
    PROVE  Creating(s) \/ \E a \in Ip : CreateBegin(s, a) /\ \A t \in Sub \ {s} : op'[t] = op[t]
<1>0. op \in [Sub -> Op]
  BY Types
<1>1. CASE CreateCheck(s)
  BY <1>1 DEF CreateCheck
<1>2. ASSUME ChangeCommit(s), op'[s] = [op[s] EXCEPT !.at = "bridge"] PROVE FALSE
  <2>1. op[s] # Idle /\ op[s].kind \in Change
    BY <1>2 DEF ChangeCommit, Change, Idle
  <2> QED
    BY <1>0, <1>2, <2>1, OpKeeps DEF Creating, Change
<1>3. ASSUME NEW k \in Change \cup {"activate"}, op'[s] =
               [kind |-> k, at |-> IF k = "activate" THEN row[s].st ELSE "commit"]
      PROVE  FALSE
  BY <1>3 DEF Creating, Change
<1>4. ASSUME NEW a \in Ip, CreateBegin(s, a)
      PROVE  \A t \in Sub \ {s} : op'[t] = op[t]
  BY <1>0, <1>4 DEF CreateBegin
<1>5. CASE op'[s] = op[s] \/ op'[s] = Idle \/ CreateCheck(s)
  BY <1>1, <1>5 DEF Creating, Idle
<1> QED
  BY <1>2, <1>3, <1>4, <1>5, OpSteps

\* What is inserted was looked for first.
LEMMA AddressStep == IInv /\ [Next]_vars => AddressInv'
<1> SUFFICES ASSUME IInv, [Next]_vars, ~overlapped'
      PROVE  /\ \A s, t \in Sub : Creating(s)' /\ Creating(t)' => s = t
             /\ \A s, t \in Sub : Creating(s)' /\ op'[s].at = "insert" /\ Exists(t)'
                                     => row'[t].ip # op'[s].ip
             /\ \A s, t \in Sub : s # t /\ Exists(s)' /\ Exists(t)' => row'[s].ip # row'[t].ip
  BY DEF AddressInv
<1>0. /\ TypeOK /\ ExistsInv /\ ~overlapped
      /\ row \in [Sub -> Row] /\ op \in [Sub -> Op]
  BY Types, OverlapSteps DEF IInv
<1>1. /\ \A s, t \in Sub : Creating(s) /\ Creating(t) => s = t
      /\ \A s, t \in Sub : Creating(s) /\ op[s].at = "insert" /\ Exists(t)
                              => row[t].ip # op[s].ip
      /\ \A s, t \in Sub : s # t /\ Exists(s) /\ Exists(t) => row[s].ip # row[t].ip
  BY <1>0 DEF IInv, AddressInv
<1>2. ASSUME NEW s \in Sub, CreateInsert(s) PROVE Creating(s) /\ op[s].at = "insert" /\ op'[s] = Idle
  BY <1>0, <1>2, EndType DEF CreateInsert
<1>3. ASSUME NEW s \in Sub, NEW t \in Sub, Creating(s)', Creating(t)' PROVE s = t
  <2>1. CASE Creating(s) /\ Creating(t)
    BY <1>1, <2>1
  <2>2. ASSUME NEW u \in Sub, NEW v \in Sub, NEW a \in Ip, CreateBegin(u, a),
               \A w \in Sub \ {u} : op'[w] = op[w], Creating(v)'
        PROVE  u = v
    BY <2>2, OverlapSteps DEF Creating
  <2> QED
    BY <1>0, <1>3, <2>1, <2>2, CreatingSteps
<1>4. ASSUME NEW s \in Sub, NEW t \in Sub, Creating(s)', op'[s].at = "insert", Exists(t)'
      PROVE  row'[t].ip # op'[s].ip
  <2>1. \/ op'[s] = op[s]
        \/ CreateCheck(s) /\ op'[s] = [op[s] EXCEPT !.at = "insert"] /\ ~AddressInUse(op[s].ip)
    <3>1. CASE ChangeCommit(s) /\ op'[s] = [op[s] EXCEPT !.at = "bridge"]
      <4>1. op[s] # Idle
        BY <3>1 DEF ChangeCommit, Change, Idle
      <4> QED
        BY <1>0, <1>4, <3>1, <4>1, OpKeeps
    <3>2. op'[s] # Idle
      BY <1>4 DEF Creating, Idle
    <3>3. \A a : op'[s] # [kind |-> "create", at |-> "check", ip |-> a]
      BY <1>4
    <3>4. \A k \in Change \cup {"activate"} : \A x : op'[s] # [kind |-> k, at |-> x]
      BY <1>4 DEF Creating, Change
    <3> QED
      BY <1>0, <3>1, <3>2, <3>3, <3>4, OpSteps
  <2>2. CASE op'[s] = op[s]
    <3>1. Creating(s) /\ op[s].at = "insert"
      BY <1>4, <2>2 DEF Creating
    <3>2. ~CreateInsert(t)
      BY <1>1, <1>2, <1>4, <3>1 DEF Creating, Idle
    <3> QED
      BY <1>0, <1>1, <1>4, <2>2, <3>1, <3>2, RowSteps
  <2>3. CASE CreateCheck(s) /\ op'[s] = [op[s] EXCEPT !.at = "insert"] /\ ~AddressInUse(op[s].ip)
    <3>1. op'[s].ip = op[s].ip /\ row' = row
      BY <1>0, <2>3, OpKeeps DEF CreateCheck, Creating, Idle
    <3>2. row[t].st \in Holding
      BY <1>0, <1>4, <3>1 DEF Exists, Row
    <3> QED
      BY <2>3, <3>1, <3>2 DEF AddressInUse
  <2> QED
    BY <2>1, <2>2, <2>3
<1>5. ASSUME NEW s \in Sub, NEW t \in Sub, s # t, Exists(s)', Exists(t)'
      PROVE  row'[s].ip # row'[t].ip
  BY <1>0, <1>1, <1>2, <1>5, RowSteps
<1> QED
  BY <1>3, <1>4, <1>5

-----------------------------------------------------------------------------
(* What the bridge was told.                                               *)

\* A request for another subscriber leaves this one alone.
LEMMA OthersTold ==
    ASSUME TypeOK, NEW s \in Sub, ToldAt(s), NEW t \in Sub \ {s}, RequestNext(t)
    PROVE  ToldAt(s)'
<1>0. row \in [Sub -> Row] /\ op \in [Sub -> Op]
  BY Types
<1>1. op'[s] = op[s] /\ row'[s] = row[s] /\ job' = job
  BY <1>0 DEF RequestNext, CreateBegin, CreateCheck, CreateInsert, Begin, ChangeCommit,
              ChangeBridge, ChangeFails, Activate, End
<1>2. s \in told => s \in told'
  BY DEF RequestNext, CreateBegin, CreateCheck, CreateInsert, Begin, ChangeCommit,
         ChangeBridge, ChangeFails, Activate
<1> QED
  BY <1>1, <1>2 DEF ToldAt, Working

\* A request's own steps.
LEMMA OwnTold ==
    ASSUME TypeOK, ExistsInv, NEW s \in Sub, Exists(s), ToldAt(s), s \notin drift', RequestNext(s)
    PROVE  ToldAt(s)'
<1>0. row \in [Sub -> Row] /\ op \in [Sub -> Op]
  BY Types
<1> USE DEF ToldAt, Working
<1>1. ~CreateCheck(s) /\ ~CreateInsert(s) /\ \A a \in Ip : ~CreateBegin(s, a)
  BY DEF CreateCheck, CreateInsert, CreateBegin, ExistsInv
<1>2. ASSUME NEW k \in Change \cup {"activate"}, Begin(k, s) PROVE ToldAt(s)'
  <2>1. /\ UNCHANGED <<row, told, job>> /\ job.wrote[s] = "-" /\ op[s] = Idle
        /\ op'[s] = [kind |-> k, at |-> IF k = "activate" THEN row[s].st ELSE "commit"]
    BY <1>0, <1>2 DEF Begin, Working
  <2>2. row[s].st # "bridge"
    BY <1>0 DEF Row, Holding, Stopped
  <2>3. op[s].at # "bridge"
    BY <2>1 DEF Idle
  <2>4. op'[s].at # "bridge"
    BY <2>1, <2>2
  <2> QED
    BY <2>1, <2>3, <2>4
<1>3. CASE ChangeCommit(s)
  <2>1. /\ op[s] # Idle /\ op[s].at = "commit" /\ op[s].kind \in Change
        /\ op'[s].kind = op[s].kind /\ op'[s].at = "bridge"
    <3>1. op[s] # Idle
      BY <1>3 DEF ChangeCommit, Change, Idle
    <3> QED
      BY <1>0, <1>3, <3>1, OpKeeps DEF ChangeCommit
  <2>2. op'[s].kind = "resume" => row'[s].st = "active"
    BY <1>0, <1>3, <2>1 DEF ChangeCommit, NewStatus, Row
  <2> QED
    BY <1>3, <2>1, <2>2 DEF ChangeCommit, Stopped
<1>4. CASE ChangeBridge(s)
  <2>1. op'[s] = Idle /\ op[s] # Idle /\ op[s].at = "bridge" /\ op[s].kind \in Change
    BY <1>0, <1>4, EndType DEF ChangeBridge, Idle
  <2>2. UNCHANGED <<row, job>>
    BY <1>4 DEF ChangeBridge
  <2>3. CASE op[s].kind = "resume"
    BY <2>1, <2>2, <2>3 DEF Idle
  <2>4. CASE op[s].kind # "resume"
    BY <1>4, <2>1, <2>2, <2>4 DEF ChangeBridge, Idle
  <2> QED
    BY <2>3, <2>4
<1>5. ~ChangeFails(s)
  BY DEF ChangeFails
<1>6. CASE Activate(s)
  <2>1. op'[s] = Idle /\ op[s] # Idle /\ op[s].kind = "activate" /\ UNCHANGED <<job, told>>
    BY <1>0, <1>6, EndType DEF Activate, Idle
  <2>2. op[s].at # "bridge"
    BY <1>0, <2>1, OpMoves DEF Change
  <2>3. row'[s].st \in {row[s].st, "active"}
    BY <1>0, <1>6 DEF Activate, Row
  <2> QED
    BY <2>1, <2>2, <2>3 DEF Idle, Stopped
<1> QED
  BY <1>1, <1>2, <1>3, <1>4, <1>5, <1>6 DEF RequestNext

\* The job's steps.
LEMMA JobTold ==
    ASSUME TypeOK, NEW s \in Sub, ToldAt(s), s \notin drift', JobNext
    PROVE  ToldAt(s)'
<1>0. /\ row \in [Sub -> Row] /\ op' = op
      /\ job \in [on : BOOLEAN, todo : SUBSET Sub, wrote : [Sub -> Wrote]]
  BY Types DEF JobState, JobNext, JobSelect, JobPrompts, JobSuspends, JobRaises, JobPauses, JobCommit
<1> USE DEF ToldAt, Working
<1>1. ASSUME NEW due \in SUBSET Sub, JobSelect(due) PROVE ToldAt(s)'
  <2>1. job'.wrote = job.wrote
    BY <1>0, <1>1 DEF JobSelect
  <2> QED
    BY <1>0, <1>1, <2>1 DEF JobSelect
<1>2. ASSUME NEW t \in Sub, JobPrompts(t) PROVE ToldAt(s)'
  <2>1. job'.wrote = job.wrote
    BY <1>0, <1>2 DEF JobPrompts
  <2> QED
    BY <1>0, <1>2, <2>1 DEF JobPrompts
<1>3. ASSUME NEW t \in Sub, JobSuspends(t) PROVE ToldAt(s)'
  <2>1. job'.wrote = [job.wrote EXCEPT ![t] = "suspending"] /\ UNCHANGED <<row, told>>
    BY <1>0, <1>3 DEF JobSuspends
  <2>2. t = s => ~Working(s)
    BY <1>3 DEF JobSuspends
  <2> QED
    BY <1>0, <2>1, <2>2
<1>4. ASSUME NEW t \in Sub, JobRaises(t) PROVE ToldAt(s)'
  <2>1. job'.wrote = [job.wrote EXCEPT ![t] = "pending_suspension"] /\ UNCHANGED <<row, told>>
    BY <1>0, <1>4 DEF JobRaises
  <2> QED
    BY <1>0, <2>1
<1>5. ASSUME NEW t \in Sub, NEW ok \in BOOLEAN, JobPauses(t, ok) PROVE ToldAt(s)'
  <2>1. job'.wrote = [job.wrote EXCEPT ![t] = "suspended"] /\ row' = row /\ told \subseteq told'
    BY <1>0, <1>5 DEF JobPauses
  <2>2. t = s => ~Working(s) /\ s \in told'
    BY <1>5 DEF JobPauses
  <2> QED
    BY <1>0, <2>1, <2>2
<1>6. CASE JobCommit
  <2>1. job'.wrote[s] = "-" /\ told' = told /\ job.wrote[s] # "suspending"
    BY <1>6 DEF JobCommit, Untouched, Between
  <2>2. row'[s].st = IF job.wrote[s] = "-" THEN row[s].st ELSE job.wrote[s]
    BY <1>0, <1>6 DEF JobCommit, Row
  <2>3. job.wrote[s] \in {"-", "suspended", "pending_suspension"}
    BY <1>0, <2>1 DEF Wrote
  <2>4. op[s].kind = "resume" => Working(s)
    BY DEF Idle
  <2> QED
    BY <1>0, <2>1, <2>2, <2>3, <2>4 DEF Stopped
<1> QED
  BY <1>1, <1>2, <1>3, <1>4, <1>5, <1>6 DEF JobNext

\* Whoever stops a subscriber tells the bridge, and only its own resumption revokes it.
LEMMA ToldStep == IInv /\ [Next]_vars => ToldInv'
<1> SUFFICES ASSUME IInv, [Next]_vars, NEW s \in Sub \ drift', Exists(s)'
             PROVE  ToldAt(s)'
  BY DEF ToldInv
<1>0. TypeOK /\ ExistsInv /\ op \in [Sub -> Op]
  BY Types DEF IInv
<1>1. CASE ~Exists(s)
  <2>1. CreateInsert(s) /\ row'[s].st = "active"
    BY <1>0, <1>1, RowSteps
  <2>2. op'[s] = Idle /\ job' = job /\ job.wrote[s] = "-"
    BY <1>0, <1>1, <2>1, EndType DEF CreateInsert, ExistsInv
  <2> QED
    BY <2>1, <2>2 DEF ToldAt, Working, Idle, Stopped
<1>2. CASE Exists(s)
  <2>1. drift \subseteq drift'
    BY DEF Next, RequestNext, JobNext, CreateBegin, CreateCheck, CreateInsert, Begin, ChangeCommit,
           ChangeBridge, ChangeFails, Activate, JobSelect, JobPrompts, JobSuspends, JobRaises,
           JobPauses, JobCommit, Crash, vars
  <2>2. ToldAt(s)
    BY <1>2, <2>1 DEF IInv, ToldInv
  <2>3. ASSUME NEW t \in Sub, RequestNext(t) PROVE ToldAt(s)'
    BY <1>0, <1>2, <2>2, <2>3, OthersTold, OwnTold
  <2>4. CASE JobNext
    BY <1>0, <2>2, <2>4, JobTold
  <2>5. CASE Crash
    <3>1. op'[s] = Idle /\ job'.wrote[s] = "-" /\ UNCHANGED <<row, told>> /\ op[s] = Idle
      BY <2>5 DEF Crash, Untouched, Working
    <3> QED
      BY <2>2, <3>1 DEF ToldAt, Working, Idle
  <2>6. CASE UNCHANGED vars
    BY <2>2, <2>6 DEF ToldAt, Working, vars
  <2> QED
    BY <2>3, <2>4, <2>5, <2>6 DEF Next
<1> QED
  BY <1>1, <1>2

-----------------------------------------------------------------------------
(* The theorems.                                                           *)

\* The inductive invariant holds in every behaviour.
THEOREM Invariance == Spec => []IInv
<1>1. IInv /\ [Next]_vars => IInv'
  BY TypeOKStep, ExistsStep, AddressStep, ToldStep DEF IInv
<1> QED
  BY <1>1, InitIInv, PTL DEF Spec

\* Every variable keeps its type; the job never writes a row it did not read.
THEOREM TypeCorrect == Spec => []TypeOK
<1>1. IInv => TypeOK
  BY DEF IInv
<1> QED
  BY <1>1, Invariance, PTL

\* No address is given to two, unless two creations overlapped.
THEOREM AddressesAreDistinct == Spec => []AddressesDistinct
<1>1. IInv => AddressesDistinct
  BY DEF IInv, AddressInv, AddressesDistinct
<1> QED
  BY <1>1, Invariance, PTL

\* Of who is paused or suspended the bridge was last told to pause the traffic,
\* unless a call failed or a crash or an overlap parted the two.
THEOREM StoppedAreTold == Spec => []StoppedIsTold
<1>1. ASSUME IInv, NEW s \in Sub, row[s].st \in Stopped, s \notin drift, ~Working(s)
      PROVE  s \in told
  BY <1>1 DEF IInv, ToldInv, ToldAt, Exists, Stopped, Working, Idle
<1>2. IInv => StoppedIsTold
  BY <1>1 DEF StoppedIsTold
<1> QED
  BY <1>2, Invariance, PTL

=============================================================================
