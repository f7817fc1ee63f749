---------------------------- MODULE PortalDesign ----------------------------
(***************************************************************************)
(* The portal design studio, app/dashboard/wizard/page.tsx, and the        *)
(* backend's portal_wizard.py: the editor's form is published by a save;   *)
(* named snapshots keep copies of the published design and can be          *)
(* published again by a restore. The editor shows which snapshot is the    *)
(* one published (activeSnapshotId). A design is how the portal looks and  *)
(* the technician's contact, which loading a design does not fill in.      *)
(***************************************************************************)
CONSTANTS
    Look,       \* template, brand, fonts, colours, logo
    Tech,       \* technician's contacts
    Default,    \* the look of an empty form
    NoTech,     \* no technician
    None, Gone,
    Snap        \* snapshots that can ever be made

VARIABLES
    published,  \* tenant.portal_config
    snapshot,   \* snapshot[i]: its design, None before it is made, Gone once deleted
    editor,     \* loadingConfig, isLocked, the form, activeSnapshotId, uploading
    save,       \* the save under way: sent or handled, the design, whether it was edited
    restore,    \* the restore under way: sent or handled, the snapshot, the design answered
    touched,    \* ghost: the form's look is not what was last loaded, restored or saved
    torn        \* ghost: a save and a restore overlapped, or an answer was lost

vars == <<published, snapshot, editor, save, restore, touched, torn>>

\* What buildConfig puts together.
Design == [look : Look, tech : Tech]
NoSave == [at |-> "none", design |-> None, touched |-> FALSE]
NoRestore == [at |-> "none", snap |-> None, design |-> None]
Idle == save = NoSave /\ restore = NoRestore
Opening == [loading |-> TRUE, locked |-> FALSE, uploading |-> FALSE, active |-> None,
            form |-> [look |-> Default, tech |-> NoTech]]
Editable == ~editor.loading /\ ~editor.locked

Init == /\ published \in Design \cup {None}
        /\ snapshot = [i \in Snap |-> None]
        /\ editor = Opening /\ touched = TRUE
        /\ save = NoSave /\ restore = NoRestore
        /\ torn = FALSE

----------------------------------------------------------------------------
(* loadConfig: a design is shown behind a lock; without one, or when the    *)
(* request fails, the editor opens on its defaults. The technician's        *)
(* contact stays empty.                                                     *)
Load(ok) ==
    /\ editor.loading
    /\ IF ok /\ published # None
       THEN /\ editor' = [editor EXCEPT !.loading = FALSE, !.locked = TRUE,
                                         !.form.look = published.look]
            /\ touched' = FALSE
       ELSE /\ editor' = [editor EXCEPT !.loading = FALSE]
            /\ UNCHANGED touched
    /\ UNCHANGED <<published, snapshot, save, restore, torn>>

(* The page is loaded again, or left and opened again. A request under way  *)
(* is handled or dropped, and its answer goes nowhere.                      *)
Reload ==
    /\ ~editor.loading
    /\ editor' = Opening /\ touched' = TRUE /\ torn' = FALSE
    /\ save' = NoSave /\ restore' = NoRestore
    /\ \/ UNCHANGED published
       \/ save.at = "sent" /\ published' = save.design
       \/ restore.at = "sent" /\ snapshot[restore.snap] \in Design /\ published' = snapshot[restore.snap]
    /\ UNCHANGED snapshot

Unlock ==
    /\ editor.locked
    /\ editor' = [editor EXCEPT !.locked = FALSE]
    /\ UNCHANGED <<published, snapshot, save, restore, touched, torn>>

(* The tabs: fonts and colours, like template, brand and sticker, only      *)
(* change the look.                                                         *)
Styled(k) == [editor EXCEPT !.form.look = k]

EditLook(k) ==
    /\ Editable
    /\ editor' = Styled(k)
    /\ touched' = TRUE
    /\ UNCHANGED <<published, snapshot, save, restore, torn>>

EditTechnician(t) ==
    /\ Editable
    /\ editor' = [editor EXCEPT !.form.tech = t]
    /\ UNCHANGED <<published, snapshot, save, restore, touched, torn>>

Upload ==
    /\ Editable /\ ~editor.uploading
    /\ editor' = [editor EXCEPT !.uploading = TRUE]
    /\ UNCHANGED <<published, snapshot, save, restore, touched, torn>>

(* The logo is set when the upload ends, whatever the form shows by then; a *)
(* failed upload sets the local file.                                       *)
Uploaded(k) ==
    /\ editor.uploading
    /\ editor' = [Styled(k) EXCEPT !.uploading = FALSE]
    /\ touched' = TRUE
    /\ UNCHANGED <<published, snapshot, save, restore, torn>>

----------------------------------------------------------------------------
(* handleSave *)
Save ==
    /\ Editable /\ save = NoSave
    /\ save' = [at |-> "sent", design |-> editor.form, touched |-> touched]
    /\ torn' = (torn \/ restore # NoRestore)
    /\ UNCHANGED <<published, snapshot, editor, restore, touched>>

SaveHandled ==
    /\ save.at = "sent"
    /\ published' = save.design
    /\ save' = [save EXCEPT !.at = "handled"]
    /\ UNCHANGED <<snapshot, editor, restore, touched, torn>>

KeepsBadge == editor
DropsBadge == [editor EXCEPT !.active = None]

SaveAnswered ==
    /\ save.at = "handled"
    /\ editor' = DropsBadge
    /\ touched' = (touched /\ editor.form.look # save.design.look)
    /\ save' = NoSave
    /\ UNCHANGED <<published, snapshot, restore, torn>>

SaveFails ==
    /\ save # NoSave
    /\ torn' = (torn \/ save.at = "handled")
    /\ save' = NoSave
    /\ UNCHANGED <<published, snapshot, editor, restore, touched>>

----------------------------------------------------------------------------
(* createSnapshot copies what is published, not what is being edited. *)
Create(i) ==
    /\ Editable /\ published # None
    /\ snapshot[i] = None
    /\ snapshot' = [snapshot EXCEPT ![i] = published]
    /\ UNCHANGED <<published, editor, save, restore, touched, torn>>

(* deleteSnapshot, from the list on the lock *)
Delete(i) ==
    /\ editor.locked /\ snapshot[i] \in Design
    /\ snapshot' = [snapshot EXCEPT ![i] = Gone]
    /\ UNCHANGED <<published, editor, save, restore, touched, torn>>

(* The lists may still show a snapshot that is deleted. *)
Shown(i) == ~editor.loading /\ snapshot[i] # None

(* restoreSnapshot, from the lock or from the export tab. A second one      *)
(* while the first is under way is left out: it would only set torn.        *)
Restore(i) ==
    /\ Shown(i) /\ restore = NoRestore
    /\ restore' = [at |-> "sent", snap |-> i, design |-> None]
    /\ torn' = (torn \/ save # NoSave)
    /\ UNCHANGED <<published, snapshot, editor, save, touched>>

RestoreHandled ==
    /\ restore.at = "sent" /\ snapshot[restore.snap] \in Design
    /\ published' = snapshot[restore.snap]
    /\ restore' = [restore EXCEPT !.at = "handled", !.design = snapshot[restore.snap]]
    /\ UNCHANGED <<snapshot, editor, save, touched, torn>>

(* The answer carries the design; it replaces the form. *)
BadgeOnly(i, d) == [editor EXCEPT !.active = i]
ShowsRestored(i, d) == [editor EXCEPT !.active = i, !.form = d]

RestoreAnswered ==
    /\ restore.at = "handled"
    /\ editor' = ShowsRestored(restore.snap, restore.design)
    /\ touched' = FALSE
    /\ restore' = NoRestore
    /\ UNCHANGED <<published, snapshot, save, torn>>

RestoreFails ==
    /\ restore # NoRestore
    /\ torn' = (torn \/ restore.at = "handled")
    /\ restore' = NoRestore
    /\ UNCHANGED <<published, snapshot, editor, save, touched>>

----------------------------------------------------------------------------
Next ==
    \/ Reload \/ Unlock \/ Save \/ SaveHandled \/ SaveAnswered \/ SaveFails
    \/ RestoreHandled \/ RestoreAnswered \/ RestoreFails
    \/ \E ok \in BOOLEAN : Load(ok)
    \/ Upload \/ \E k \in Look : EditLook(k) \/ Uploaded(k)
    \/ \E t \in Tech : EditTechnician(t)
    \/ \E i \in Snap : Create(i) \/ Delete(i) \/ Restore(i)

Spec == Init /\ [][Next]_vars

----------------------------------------------------------------------------
TypeOK == /\ published \in Design \cup {None}
          /\ snapshot \in [Snap -> Design \cup {None, Gone}]
          /\ editor \in [loading : BOOLEAN, locked : BOOLEAN, uploading : BOOLEAN,
                        form : Design, active : Snap \cup {None}]
          /\ save \in [at : {"none", "sent", "handled"}, design : Design \cup {None}, touched : BOOLEAN]
          /\ restore \in [at : {"none", "sent", "handled"}, snap : Snap \cup {None},
                         design : Design \cup {None}]
          /\ touched \in BOOLEAN /\ torn \in BOOLEAN

(* The snapshot marked as active in the editor is the design the portal     *)
(* shows, once the requests are answered and unless two of them overlapped  *)
(* or an answer was lost.                                                   *)
ActiveIsPublished ==
    editor.active # None /\ Idle /\ ~torn =>
        snapshot[editor.active] \in {published, Gone}

(* Saving a form whose look was loaded or restored and not edited since     *)
(* leaves the portal's look as it was. (Not so the technician's contact,    *)
(* which a save after a reload erases.)                                     *)
UntouchedSaveKeepsDesign ==
    [][SaveHandled /\ ~save.touched /\ ~torn => published'.look = published.look]_vars
=============================================================================
