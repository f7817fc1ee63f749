------------------------- MODULE PortalDesignProofs -------------------------
(***************************************************************************)
(* Proofs about PortalDesign, for any looks, technicians and snapshots.    *)
(***************************************************************************)
EXTENDS PortalDesign, TLAPS

\* An empty form is a design, and the marks of a missing one are not.
MarksDiffer == /\ Default \in Look /\ NoTech \in Tech
               /\ None \notin Design /\ Gone \notin Design /\ None # Gone
               /\ None \notin Snap

-----------------------------------------------------------------------------
(* The inductive invariant.                                                *)

EditorState == [loading : BOOLEAN, locked : BOOLEAN, uploading : BOOLEAN,
                form : Design, active : Snap \cup {None}]
SaveState == [at : {"none", "sent", "handled"}, design : Design \cup {None}, touched : BOOLEAN]
RestoreState == [at : {"none", "sent", "handled"}, snap : Snap \cup {None},
                 design : Design \cup {None}]

\* A request under way carries what it is about, and none starts while the
\* editor loads.
RequestInv ==
    /\ save # NoSave => save.at # "none" /\ save.design \in Design /\ ~editor.loading
    /\ restore # NoRestore => restore.at # "none" /\ restore.snap \in Snap /\ ~editor.loading
    /\ restore.at = "handled" => restore.design \in Design

\* Requests that do not overlap: one is under way at a time; the badge is right
\* unless a handled request is about to change it.
BadgeInv == ~torn =>
    /\ save = NoSave \/ restore = NoRestore
    /\ save.at # "handled" /\ restore.at # "handled" /\ editor.active # None =>
         snapshot[editor.active] \in {published, Gone}
    /\ save.at = "handled" => published = save.design
    /\ restore.at = "handled" => /\ published = restore.design
                                 /\ snapshot[restore.snap] \in {published, Gone}

\* A form whose look is as loaded shows the look that is published, or is about
\* to be replaced.
LookInv == ~torn =>
    /\ ~touched /\ restore.at # "handled" => editor.form.look = published.look
    /\ ~touched /\ save # NoSave => save.design.look = editor.form.look
    /\ save.at = "sent" /\ ~save.touched => save.design.look = published.look

IInv == TypeOK /\ RequestInv /\ BadgeInv /\ LookInv

\* The ranges of TypeOK, by name.
LEMMA Types == TypeOK <=> /\ published \in Design \cup {None}
                          /\ snapshot \in [Snap -> Design \cup {None, Gone}]
                          /\ editor \in EditorState /\ save \in SaveState
                          /\ restore \in RestoreState
                          /\ touched \in BOOLEAN /\ torn \in BOOLEAN
BY DEF TypeOK, EditorState, SaveState, RestoreState

\* And after a step.
LEMMA TypesAfter == TypeOK' <=> /\ published' \in Design \cup {None}
                                /\ snapshot' \in [Snap -> Design \cup {None, Gone}]
                                /\ editor' \in EditorState /\ save' \in SaveState
                                /\ restore' \in RestoreState
                                /\ touched' \in BOOLEAN /\ torn' \in BOOLEAN
BY DEF TypeOK, EditorState, SaveState, RestoreState

\* The editor and the requests as they start.
LEMMA Openings ==
    ASSUME MarksDiffer
    PROVE  /\ Opening \in EditorState /\ Opening.active = None
           /\ NoSave \in SaveState /\ NoSave.at = "none"
           /\ NoRestore \in RestoreState /\ NoRestore.at = "none"
<1>1. [look |-> Default, tech |-> NoTech] \in Design
  BY DEF MarksDiffer, Design
<1>2. Opening \in EditorState /\ Opening.active = None
  BY <1>1 DEF Opening, EditorState
<1>3. NoSave \in SaveState /\ NoSave.at = "none"
  BY DEF NoSave, SaveState
<1>4. NoRestore \in RestoreState /\ NoRestore.at = "none"
  BY DEF NoRestore, RestoreState
<1> QED
  BY <1>2, <1>3, <1>4

\* The invariant holds at first.
LEMMA InitIInv == ASSUME MarksDiffer PROVE Init => IInv
<1> SUFFICES ASSUME Init PROVE IInv
  OBVIOUS
<1>1. TypeOK
  BY Openings, Types DEF Init
<1>2. RequestInv /\ BadgeInv /\ LookInv
  BY Openings DEF Init, RequestInv, BadgeInv, LookInv
<1> QED
  BY <1>1, <1>2 DEF IInv

-----------------------------------------------------------------------------
(* The steps.                                                              *)

\* What the actions make of the editor is an editor.
LEMMA EditorMoves ==
    ASSUME NEW e \in EditorState, NEW b \in BOOLEAN, NEW i \in Snap \cup {None}, NEW d \in Design
    PROVE  /\ [e EXCEPT !.loading = FALSE] \in EditorState
           /\ [e EXCEPT !.locked = FALSE] \in EditorState
           /\ [e EXCEPT !.uploading = b] \in EditorState
           /\ [e EXCEPT !.active = i] \in EditorState
           /\ [e EXCEPT !.active = i, !.form = d] \in EditorState
BY DEF EditorState

\* A new look in the form.
LEMMA LookMoves ==
    ASSUME NEW e \in EditorState, NEW k \in Look
    PROVE  /\ [e EXCEPT !.form.look = k] \in EditorState
           /\ [e EXCEPT !.form.look = k].active = e.active
           /\ [e EXCEPT !.form.look = k].loading = e.loading
           /\ [e EXCEPT !.form.look = k].form.look = k
<1>1. e.form \in Design
  BY DEF EditorState
<1>2. [e.form EXCEPT !.look = k] \in Design /\ [e.form EXCEPT !.look = k].look = k
  BY <1>1 DEF Design
<1>3. [e EXCEPT !.form.look = k] = [e EXCEPT !.form = [e.form EXCEPT !.look = k]]
  OBVIOUS
<1> QED
  BY <1>2, <1>3 DEF EditorState

\* Loading.
LEMMA LoadSteps ==
    ASSUME MarksDiffer, IInv, NEW ok \in BOOLEAN, Load(ok)
    PROVE  IInv'
<1> USE Types, TypesAfter
<1>0. TypeOK /\ RequestInv /\ BadgeInv /\ LookInv
  BY DEF IInv
<1>1. UNCHANGED <<published, snapshot, save, restore, torn>> /\ save = NoSave /\ restore = NoRestore
  BY <1>0 DEF Load, RequestInv
<1>2. CASE ok /\ published # None
  <2> DEFINE e == [editor EXCEPT !.loading = FALSE, !.locked = TRUE]
  <2>1. published.look \in Look
    BY <1>0, <1>2 DEF Design
  <2>2. e \in EditorState /\ e.active = editor.active /\ e.loading = FALSE
    BY <1>0 DEF EditorState
  <2>3. editor' = [e EXCEPT !.form.look = published.look] /\ touched' = FALSE
    BY <1>2 DEF Load
  <2> HIDE DEF e
  <2>4. editor' \in EditorState /\ editor'.active = editor.active
        /\ editor'.form.look = published.look
    BY <2>1, <2>2, <2>3, LookMoves
  <2>5. TypeOK'
    BY <1>0, <1>1, <2>3, <2>4
  <2> QED
    BY <1>0, <1>1, <2>3, <2>4, <2>5, Openings DEF IInv, RequestInv, BadgeInv, LookInv
<1>3. CASE ~(ok /\ published # None)
  <2>1. editor' = [editor EXCEPT !.loading = FALSE] /\ touched' = touched
    BY <1>3 DEF Load
  <2>2. editor' \in EditorState /\ editor'.active = editor.active /\ editor'.form = editor.form
    BY <1>0, <2>1 DEF EditorState
  <2>3. TypeOK'
    BY <1>0, <1>1, <2>1, <2>2
  <2> QED
    BY <1>0, <1>1, <2>1, <2>2, <2>3, Openings DEF IInv, RequestInv, BadgeInv, LookInv
<1> QED
  BY <1>2, <1>3

\* Opening the page again.
LEMMA ReloadSteps ==
    ASSUME MarksDiffer, IInv, Reload
    PROVE  IInv'
<1> USE Types, TypesAfter
<1>0. TypeOK
  BY DEF IInv
<1>1. /\ editor' = Opening /\ touched' = TRUE /\ torn' = FALSE
      /\ save' = NoSave /\ restore' = NoRestore /\ snapshot' = snapshot
  BY DEF Reload
<1>2. published' \in Design \cup {None}
  BY <1>0 DEF Reload, SaveState
<1>3. TypeOK'
  BY <1>0, <1>1, <1>2, Openings
<1>4. RequestInv' /\ BadgeInv' /\ LookInv'
  BY <1>1, Openings DEF RequestInv, BadgeInv, LookInv
<1> QED
  BY <1>3, <1>4 DEF IInv

\* A step of the form alone that keeps its look, or says that it was touched.
LEMMA FormStep ==
    ASSUME IInv, UNCHANGED <<published, snapshot, save, restore, torn>>,
           editor' \in EditorState, touched' \in BOOLEAN,
           editor'.active = editor.active, editor'.loading = editor.loading,
           touched' \/ (touched' = touched /\ editor'.form.look = editor.form.look)
    PROVE  IInv'
<1> USE Types, TypesAfter
<1>1. TypeOK'
  BY DEF IInv
<1> QED
  BY <1>1 DEF IInv, RequestInv, BadgeInv, LookInv

\* The form.
LEMMA FormSteps ==
    ASSUME IInv,
           \/ Unlock \/ Upload
           \/ \E k \in Look : EditLook(k) \/ Uploaded(k)
           \/ \E t \in Tech : EditTechnician(t)
    PROVE  IInv'
<1>0. IInv /\ editor \in EditorState /\ touched \in BOOLEAN
  BY Types DEF IInv
<1>1. CASE Unlock
  <2>1. editor' \in EditorState /\ editor'.active = editor.active
        /\ editor'.loading = editor.loading /\ editor'.form = editor.form
    BY <1>0, <1>1 DEF Unlock, EditorState
  <2> QED
    BY <1>0, <1>1, <2>1, FormStep DEF Unlock
<1>2. CASE Upload
  <2>1. editor' \in EditorState /\ editor'.active = editor.active
        /\ editor'.loading = editor.loading /\ editor'.form = editor.form
    BY <1>0, <1>2 DEF Upload, EditorState
  <2> QED
    BY <1>0, <1>2, <2>1, FormStep DEF Upload
<1>3. ASSUME NEW k \in Look, EditLook(k) PROVE IInv'
  <2>1. editor' = [editor EXCEPT !.form.look = k]
    BY <1>3 DEF EditLook, Styled
  <2>2. editor' \in EditorState /\ editor'.active = editor.active /\ editor'.loading = editor.loading
    BY <1>0, <2>1, LookMoves
  <2> QED
    BY <1>0, <1>3, <2>2, FormStep DEF EditLook
<1>4. ASSUME NEW k \in Look, Uploaded(k) PROVE IInv'
  <2> DEFINE e == [editor EXCEPT !.form.look = k]
  <2>1. e \in EditorState /\ e.active = editor.active /\ e.loading = editor.loading
    BY <1>0, LookMoves
  <2>2. editor' = [e EXCEPT !.uploading = FALSE]
    BY <1>4 DEF Uploaded, Styled
  <2> HIDE DEF e
  <2>3. editor' \in EditorState /\ editor'.active = editor.active /\ editor'.loading = editor.loading
    BY <2>1, <2>2 DEF EditorState
  <2> QED
    BY <1>0, <1>4, <2>3, FormStep DEF Uploaded
<1>5. ASSUME NEW t \in Tech, EditTechnician(t) PROVE IInv'
  <2> DEFINE f == [editor.form EXCEPT !.tech = t]
  <2>1. f \in Design /\ f.look = editor.form.look
    BY <1>0 DEF EditorState, Design
  <2>2. editor' = [editor EXCEPT !.form = f]
    BY <1>5 DEF EditTechnician
  <2> HIDE DEF f
  <2>3. editor' \in EditorState /\ editor'.active = editor.active
        /\ editor'.loading = editor.loading /\ editor'.form = f
    BY <1>0, <2>1, <2>2 DEF EditorState
  <2> QED
    BY <1>0, <1>5, <2>1, <2>3, FormStep DEF EditTechnician
<1> QED
  BY <1>1, <1>2, <1>3, <1>4, <1>5

\* Sending and handling a save.
LEMMA SaveSteps ==
    ASSUME MarksDiffer, IInv, Save \/ SaveHandled
    PROVE  IInv'
<1> USE Types, TypesAfter
<1>0. TypeOK /\ RequestInv /\ BadgeInv /\ LookInv
  BY DEF IInv
<1>1. CASE Save
  <2> DEFINE r == [at |-> "sent", design |-> editor.form, touched |-> touched]
  <2>1. r \in SaveState /\ r.design = editor.form /\ r.design \in Design
        /\ r.at = "sent" /\ r.touched = touched
    BY <1>0 DEF SaveState, EditorState
  <2>2. /\ save = NoSave /\ save' = r /\ torn' = (torn \/ restore # NoRestore) /\ ~editor.loading
        /\ UNCHANGED <<published, snapshot, editor, restore, touched>>
    BY <1>1 DEF Save, Editable
  <2> HIDE DEF r
  <2>3. TypeOK'
    BY <1>0, <2>1, <2>2
  <2>4. RequestInv'
    BY <1>0, <2>1, <2>2 DEF RequestInv
  <2>5. BadgeInv'
    BY <1>0, <2>1, <2>2, Openings DEF BadgeInv
  <2>6. LookInv'
    BY <1>0, <2>1, <2>2, Openings DEF LookInv
  <2> QED
    BY <2>3, <2>4, <2>5, <2>6 DEF IInv
<1>2. CASE SaveHandled
  <2> DEFINE r == [save EXCEPT !.at = "handled"]
  <2>1. save.at = "sent" /\ save # NoSave /\ save.design \in Design
    BY <1>0, <1>2, Openings DEF SaveHandled, RequestInv
  <2>2. r \in SaveState /\ r.at = "handled" /\ r.design = save.design
    BY <1>0 DEF SaveState
  <2>3. /\ save' = r /\ published' = save.design
        /\ UNCHANGED <<snapshot, editor, restore, touched, torn>>
    BY <1>2 DEF SaveHandled
  <2> HIDE DEF r
  <2>4. TypeOK'
    BY <1>0, <2>1, <2>2, <2>3
  <2>5. RequestInv'
    BY <1>0, <2>1, <2>2, <2>3 DEF RequestInv
  <2>6. BadgeInv'
    BY <1>0, <2>1, <2>2, <2>3, Openings DEF BadgeInv
  <2>7. LookInv'
    BY <1>0, <2>1, <2>2, <2>3, Openings DEF LookInv
  <2> QED
    BY <2>4, <2>5, <2>6, <2>7 DEF IInv
<1> QED
  BY <1>1, <1>2

\* The end of a save.
LEMMA SaveEnds ==
    ASSUME MarksDiffer, IInv, SaveAnswered \/ SaveFails
    PROVE  IInv'
<1> USE Types, TypesAfter
<1>0. TypeOK /\ RequestInv /\ BadgeInv /\ LookInv
  BY DEF IInv
<1>1. CASE SaveAnswered
  <2>1. editor' \in EditorState /\ editor'.active = None
        /\ editor'.form = editor.form /\ editor'.loading = editor.loading
    BY <1>0, <1>1 DEF SaveAnswered, DropsBadge, EditorState
  <2>2. /\ save.at = "handled" /\ save' = NoSave
        /\ touched' = (touched /\ editor.form.look # save.design.look)
        /\ UNCHANGED <<published, snapshot, restore, torn>>
    BY <1>1 DEF SaveAnswered
  <2>3. save # NoSave
    BY <2>2, Openings
  <2>4. TypeOK'
    BY <1>0, <2>1, <2>2, Openings
  <2>5. RequestInv'
    BY <1>0, <2>1, <2>2 DEF RequestInv
  <2>6. BadgeInv'
    BY <1>0, <2>1, <2>2, <2>3, Openings DEF BadgeInv
  <2>7. ~torn => published = save.design /\ restore = NoRestore
    BY <1>0, <2>2, <2>3 DEF BadgeInv
  <2>8. LookInv'
    BY <1>0, <2>1, <2>2, <2>3, <2>7, Openings DEF LookInv
  <2> QED
    BY <2>4, <2>5, <2>6, <2>8 DEF IInv
<1>2. CASE SaveFails
  <2>1. /\ save # NoSave /\ save' = NoSave /\ torn' = (torn \/ save.at = "handled")
        /\ UNCHANGED <<published, snapshot, editor, restore, touched>>
    BY <1>2 DEF SaveFails
  <2>2. TypeOK'
    BY <1>0, <2>1, Openings
  <2>3. RequestInv' /\ BadgeInv' /\ LookInv'
    BY <1>0, <2>1, Openings DEF RequestInv, BadgeInv, LookInv
  <2> QED
    BY <2>2, <2>3 DEF IInv
<1> QED
  BY <1>1, <1>2

\* Snapshots.
LEMMA SnapshotSteps ==
    ASSUME MarksDiffer, IInv, NEW i \in Snap, Create(i) \/ Delete(i)
    PROVE  IInv'
<1> USE Types, TypesAfter
<1>0. TypeOK /\ RequestInv /\ BadgeInv /\ LookInv
  BY DEF IInv
<1>1. UNCHANGED <<published, editor, save, restore, touched, torn>>
  BY DEF Create, Delete
<1>2. snapshot' \in [Snap -> Design \cup {None, Gone}]
      /\ \A j \in Snap : \/ snapshot'[j] = snapshot[j] \/ snapshot'[j] = Gone
                         \/ snapshot[j] = None /\ snapshot'[j] = published /\ published # None
  BY <1>0 DEF Create, Delete
<1>3. TypeOK'
  BY <1>0, <1>1, <1>2
<1>4. ASSUME NEW j \in Snap, snapshot[j] \in {published, Gone}
      PROVE  snapshot'[j] \in {published, Gone}
  BY <1>2, <1>4 DEF MarksDiffer
<1>5. editor.active # None => editor.active \in Snap
  BY <1>0 DEF EditorState
<1>6. restore.at = "handled" => restore.snap \in Snap
  BY <1>0, Openings DEF RequestInv
<1>7. RequestInv' /\ BadgeInv' /\ LookInv'
  BY <1>0, <1>1, <1>4, <1>5, <1>6 DEF RequestInv, BadgeInv, LookInv
<1> QED
  BY <1>3, <1>7 DEF IInv

\* Sending and handling a restore.
LEMMA RestoreSteps ==
    ASSUME MarksDiffer, IInv, RestoreHandled \/ \E i \in Snap : Restore(i)
    PROVE  IInv'
<1> USE Types, TypesAfter
<1>0. TypeOK /\ RequestInv /\ BadgeInv /\ LookInv
  BY DEF IInv
<1>1. CASE RestoreHandled
  <2> DEFINE d == snapshot[restore.snap]
             r == [restore EXCEPT !.at = "handled", !.design = d]
  <2>1. restore.at = "sent" /\ restore # NoRestore /\ d \in Design
    BY <1>1, Openings DEF RestoreHandled
  <2>2. restore.snap \in Snap /\ ~editor.loading
    BY <1>0, <2>1 DEF RequestInv
  <2>3. r \in RestoreState /\ r.at = "handled" /\ r.design = d /\ r.snap = restore.snap
    BY <1>0, <2>1 DEF RestoreState
  <2>4. /\ restore' = r /\ published' = d
        /\ UNCHANGED <<snapshot, editor, save, touched, torn>>
    BY <1>1 DEF RestoreHandled
  <2>5. snapshot'[restore'.snap] = d
    BY <2>3, <2>4
  <2>6. ~torn => save = NoSave
    BY <1>0, <2>1 DEF BadgeInv
  <2> HIDE DEF d, r
  <2>7. TypeOK'
    BY <1>0, <2>1, <2>3, <2>4
  <2>8. RequestInv'
    BY <1>0, <2>1, <2>2, <2>3, <2>4 DEF RequestInv
  <2>9. BadgeInv' /\ LookInv'
    BY <1>0, <2>1, <2>3, <2>4, <2>5, <2>6, Openings DEF BadgeInv, LookInv
  <2> QED
    BY <2>7, <2>8, <2>9 DEF IInv
<1>2. ASSUME NEW i \in Snap, Restore(i) PROVE IInv'
  <2> DEFINE r == [at |-> "sent", snap |-> i, design |-> None]
  <2>1. r \in RestoreState /\ r.at = "sent" /\ r.snap = i
    BY DEF RestoreState
  <2>2. /\ restore = NoRestore /\ restore' = r /\ torn' = (torn \/ save # NoSave)
        /\ ~editor.loading /\ UNCHANGED <<published, snapshot, editor, save, touched>>
    BY <1>2 DEF Restore, Shown
  <2> HIDE DEF r
  <2>3. TypeOK'
    BY <1>0, <2>1, <2>2
  <2>4. RequestInv' /\ BadgeInv' /\ LookInv'
    BY <1>0, <2>1, <2>2, Openings DEF RequestInv, BadgeInv, LookInv
  <2> QED
    BY <2>3, <2>4 DEF IInv
<1> QED
  BY <1>1, <1>2

\* The end of a restore.
LEMMA RestoreEnds ==
    ASSUME MarksDiffer, IInv, RestoreAnswered \/ RestoreFails
    PROVE  IInv'
<1> USE Types, TypesAfter
<1>0. TypeOK /\ RequestInv /\ BadgeInv /\ LookInv
  BY DEF IInv
<1>1. CASE RestoreAnswered
  <2>1. restore.at = "handled" /\ restore # NoRestore
    BY <1>1, Openings DEF RestoreAnswered
  <2>2. restore.snap \in Snap /\ restore.design \in Design
    BY <1>0, <2>1 DEF RequestInv
  <2>3. editor' = [editor EXCEPT !.active = restore.snap, !.form = restore.design]
    BY <1>1 DEF RestoreAnswered, ShowsRestored
  <2>4. editor' \in EditorState /\ editor'.active = restore.snap
        /\ editor'.form = restore.design /\ editor'.loading = editor.loading
    BY <1>0, <2>2, <2>3 DEF EditorState
  <2>5. /\ touched' = FALSE /\ restore' = NoRestore
        /\ UNCHANGED <<published, snapshot, save, torn>>
    BY <1>1 DEF RestoreAnswered
  <2>6. TypeOK'
    BY <1>0, <2>4, <2>5, Openings
  <2>7. RequestInv'
    BY <1>0, <2>4, <2>5, Openings DEF RequestInv
  <2>8. BadgeInv' /\ LookInv'
    BY <1>0, <2>1, <2>4, <2>5, Openings DEF BadgeInv, LookInv
  <2> QED
    BY <2>6, <2>7, <2>8 DEF IInv
<1>2. CASE RestoreFails
  <2>1. /\ restore # NoRestore /\ restore' = NoRestore
        /\ torn' = (torn \/ restore.at = "handled")
        /\ UNCHANGED <<published, snapshot, editor, save, touched>>
    BY <1>2 DEF RestoreFails
  <2>2. TypeOK'
    BY <1>0, <2>1, Openings
  <2>3. RequestInv' /\ BadgeInv' /\ LookInv'
    BY <1>0, <2>1, Openings DEF RequestInv, BadgeInv, LookInv
  <2> QED
    BY <2>2, <2>3 DEF IInv
<1> QED
  BY <1>1, <1>2

\* Every step keeps the invariant.
LEMMA StepIInv == ASSUME MarksDiffer PROVE IInv /\ [Next]_vars => IInv'
<1> SUFFICES ASSUME IInv, [Next]_vars PROVE IInv'
  OBVIOUS
<1>1. ASSUME NEW ok \in BOOLEAN, Load(ok) PROVE IInv'
  BY <1>1, LoadSteps
<1>2. CASE Reload
  BY <1>2, ReloadSteps
<1>3. CASE \/ Unlock \/ Upload
           \/ \E k \in Look : EditLook(k) \/ Uploaded(k)
           \/ \E t \in Tech : EditTechnician(t)
  BY <1>3, FormSteps
<1>4. CASE Save \/ SaveHandled \/ SaveAnswered \/ SaveFails
  BY <1>4, SaveSteps, SaveEnds
<1>5. ASSUME NEW i \in Snap, Create(i) \/ Delete(i) PROVE IInv'
  BY <1>5, SnapshotSteps
<1>6. CASE RestoreHandled \/ RestoreAnswered \/ RestoreFails \/ \E i \in Snap : Restore(i)
  BY <1>6, RestoreSteps, RestoreEnds
<1>7. CASE UNCHANGED vars
  BY <1>7 DEF vars, IInv, TypeOK, RequestInv, BadgeInv, LookInv
<1> QED
  BY <1>1, <1>2, <1>3, <1>4, <1>5, <1>6, <1>7 DEF Next

-----------------------------------------------------------------------------
(* Requests carry what they are about; without an overlap the badge and the *)
(* untouched form agree with what is published, up to the request that was  *)
(* handled and not answered.                                                *)
THEOREM Invariance == ASSUME MarksDiffer PROVE Spec => []IInv
<1>1. Init => IInv
  BY InitIInv
<1>2. IInv /\ [Next]_vars => IInv'
  BY StepIInv
<1> QED
  BY <1>1, <1>2, PTL DEF Spec

(* The design, the snapshots, the editor and the requests keep their types. *)
THEOREM TypeCorrect == ASSUME MarksDiffer PROVE Spec => []TypeOK
<1>1. IInv => TypeOK
  BY DEF IInv
<1>2. Spec => []IInv
  BY Invariance
<1> QED
  BY <1>1, <1>2, PTL

(* handleSave, restoreSnapshot, createSnapshot, deleteSnapshot: the snapshot *)
(* marked as active is the design published, unless requests overlapped or  *)
(* an answer was lost.                                                      *)
THEOREM BadgeIsRight == ASSUME MarksDiffer PROVE Spec => []ActiveIsPublished
<1>1. ASSUME IInv PROVE ActiveIsPublished
  <2>1. BadgeInv
    BY <1>1 DEF IInv
  <2> QED
    BY <2>1, Openings DEF BadgeInv, ActiveIsPublished, Idle
<1>2. Spec => []IInv
  BY Invariance
<1> QED
  BY <1>1, <1>2, PTL

(* handleSave: a form whose look was not edited is published with the look  *)
(* that the portal has.                                                     *)
THEOREM UntouchedIsKept == ASSUME MarksDiffer PROVE Spec => UntouchedSaveKeepsDesign
<1>1. ASSUME IInv, SaveHandled, ~save.touched, ~torn PROVE published'.look = published.look
  BY <1>1 DEF IInv, LookInv, SaveHandled
<1>2. IInv /\ [Next]_vars =>
        [SaveHandled /\ ~save.touched /\ ~torn => published'.look = published.look]_vars
  BY <1>1
<1>3. Spec => []IInv
  BY Invariance
<1> QED
  BY <1>2, <1>3, PTL DEF Spec, UntouchedSaveKeepsDesign
=============================================================================
