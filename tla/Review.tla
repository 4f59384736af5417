------------------------------- MODULE Review -------------------------------
(***************************************************************************)
(* PredictionsRecentPage and its PredictionDetailModal, over Relabel: one   *)
(* reviewer's page, while other clients send relabels of their own.  The    *)
(* dialog is mounted exactly when openId names a row of the list on screen; *)
(* its state is gone when it unmounts, but the save it began goes on and    *)
(* then calls the page's onSaved.  The list is loaded on mount and by the   *)
(* Refresh button, which stays within reach of the keyboard under the       *)
(* dialog's backdrop.                                                       *)
(*                                                                         *)
(* A list answer may come from the predictions-recent cache, and how old it *)
(* may be is ReadCache's subject: here every row of it is some state that   *)
(* row has had.  All predictions fit in one list.  The role of the page's   *)
(* user lets it relabel; answers 401 and 403 are in Session.                *)
(***************************************************************************)
EXTENDS Relabel, SequencesExt

CONSTANTS Me,   \* the page's user
          Top5  \* prediction -> the labels of top5

(* The state of a dialog, and of one that has just been mounted.            *)
Modal == [selected : Label \cup {None}, confirming : BOOLEAN, saving : Request \cup {None}]
FreshModal == [selected |-> None, confirming |-> FALSE, saving |-> None]

ASSUME ReviewAssumption ==
    /\ Me \in Reviewer
    /\ Top5 \in [Prediction -> SUBSET Label]
    /\ None \notin Modal \cup [Prediction -> Version]

VARIABLES
    rows,    \* state rows: prediction -> the version shown, or None
    pending, \* state pending: a list request is under way
    openId,  \* state openId
    modal,   \* state of the mounted dialog, or None
    sent     \* relabels of this page whose answer has not arrived

page == <<rows, pending, openId, modal, sent>>
vars == <<server, page>>

TypeOK ==
    /\ RelabelTypeOK
    /\ rows \in [Prediction -> Version] \cup {None}
    /\ pending \in BOOLEAN
    /\ openId \in Prediction \cup {None}
    /\ modal \in Modal \cup {None}
    /\ modal # None <=> (rows # None /\ openId # None)
    /\ sent \subseteq Request

Init ==
    /\ RelabelInit
    /\ rows = None
    /\ pending = TRUE
    /\ openId = None
    /\ modal = None
    /\ sent = {}

(* The dialog stays when the list goes.                                     *)
Rendered_by_id(shown, open) ==
    IF open = None THEN None ELSE IF modal = None THEN FreshModal ELSE modal

(* React renders the dialog after rows or openId are set.                   *)
Rendered(shown, open) ==
    IF shown = None \/ open = None THEN None
    ELSE IF modal = None THEN FreshModal
    ELSE modal

-----------------------------------------------------------------------------
(* load: the Refresh button is disabled while a load is under way.          *)
Refresh ==
    /\ ~pending
    /\ pending' = TRUE
    /\ UNCHANGED <<server, rows, openId, modal, sent>>

ListAnswer ==
    /\ pending
    /\ pending' = FALSE
    /\ \E shown \in [Prediction -> UNION {ToSet(versions[p]) : p \in Prediction}] :
        /\ \A p \in Prediction : shown[p] \in ToSet(versions[p])
        /\ rows' = shown
        /\ modal' = Rendered(shown, openId)
    /\ UNCHANGED <<server, openId, sent>>

(* A failed load empties the list; openId stays, and so the next successful *)
(* one opens the dialog again.                                              *)
ListError ==
    /\ pending
    /\ pending' = FALSE
    /\ rows' = None
    /\ modal' = Rendered(None, openId)
    /\ UNCHANGED <<server, openId, sent>>

(* A dialog beside the list: another row may be clicked while it is open.   *)
OpenRow_beside(p) ==
    /\ rows # None
    /\ openId' = p
    /\ modal' = Rendered(rows, p)
    /\ UNCHANGED <<server, rows, pending, sent>>

(* The backdrop covers the rows while a dialog is open.                     *)
OpenRow(p) ==
    /\ rows # None /\ modal = None
    /\ openId' = p
    /\ modal' = Rendered(rows, p)
    /\ UNCHANGED <<server, rows, pending, sent>>

(* Escape, the cross or a click on the backdrop, also while saving.         *)
Close ==
    /\ modal # None
    /\ openId' = None
    /\ modal' = Rendered(rows, None)
    /\ UNCHANGED <<server, rows, pending, sent>>

SetModal(state) ==
    /\ modal' = state
    /\ UNCHANGED <<server, rows, pending, openId, sent>>

RelabelEnabled == modal # None /\ Top1[openId] < RELABEL_CONFIDENCE_THRESHOLD

(* The labels stay enabled while the confirmation is asked for.             *)
Select(l) ==
    /\ RelabelEnabled
    /\ modal.saving = None
    /\ l \in Top5[openId] \ {ModelLabel[openId]}
    /\ SetModal([modal EXCEPT !.selected = l])

ClearSelection ==
    /\ RelabelEnabled
    /\ modal.selected # None /\ ~modal.confirming
    /\ SetModal([modal EXCEPT !.selected = None])

Apply ==
    /\ RelabelEnabled
    /\ modal.selected # None /\ ~modal.confirming
    /\ SetModal([modal EXCEPT !.confirming = TRUE])

(* The confirmation is on screen.                                           *)
Confirmable ==
    /\ modal # None
    /\ modal.confirming /\ modal.selected # None /\ modal.saving = None

Cancel ==
    /\ Confirmable
    /\ SetModal([modal EXCEPT !.confirming = FALSE])

(* doSave sends the PATCH.                                                  *)
Save(r) ==
    /\ Confirmable
    /\ Begin(r, Me, openId, modal.selected)
    /\ modal' = [modal EXCEPT !.saving = r]
    /\ sent' = sent \cup {r}
    /\ UNCHANGED <<rows, pending, openId>>

(* The page takes its own request for the result.                           *)
Updated_requested(r) == [label |-> request[r].label, actor |-> request[r].actor]

(* The prediction in the answer.                                            *)
Updated(r) == request[r].flushed

(* onSaved: the row takes the answer, and openId is reset whichever dialog  *)
(* is open by now.                                                          *)
OnSaved(r) ==
    /\ r \in sent /\ InPhase(r, "saved")
    /\ rows' = IF rows = None THEN None
               ELSE [rows EXCEPT ![request[r].target] = Updated(r)]
    /\ openId' = None
    /\ modal' = None
    /\ sent' = sent \ {r}
    /\ UNCHANGED <<server, pending>>

(* The catch and finally of doSave; without effect on another dialog.       *)
NotSaved(r) ==
    /\ r \in sent /\ request[r].phase \in {"conflict", "error"}
    /\ modal' = IF modal # None /\ modal.saving = r
                THEN [modal EXCEPT !.saving = None] ELSE modal
    /\ sent' = sent \ {r}
    /\ UNCHANGED <<server, rows, pending, openId>>

(* Another page, tab or API client.                                         *)
OthersRelabel(r) ==
    /\ \E u \in Reviewer, p \in Prediction, l \in Label : Begin(r, u, p, l)
    /\ UNCHANGED page

Arrive(r) == OnSaved(r) \/ NotSaved(r)

PageNext ==
    \/ Refresh \/ ListAnswer \/ ListError
    \/ Close \/ ClearSelection \/ Apply \/ Cancel
    \/ \E p \in Prediction : OpenRow(p)
    \/ \E l \in Label : Select(l)
    \/ \E r \in Request : Save(r) \/ Arrive(r)

Next ==
    \/ PageNext
    \/ \E r \in Request : OthersRelabel(r) \/ (RelabelStep(r) /\ UNCHANGED page)

Spec == Init /\ [][Next]_vars

-----------------------------------------------------------------------------
(* The list never shows a correction that was not stored, however saves,    *)
(* loads and the relabels of others overlap.                                *)
ShownWasStored ==
    rows # None => \A p \in Prediction : rows[p] \in ToSet(versions[p])

(* A label chosen in the dialog of one document never reaches another: what *)
(* the page asks for is a candidate of the prediction it asks it for, which *)
(* is one that may be relabelled.                                           *)
SavesAreCandidates ==
    \A r \in sent : LET p == request[r].target IN
        /\ request[r].label \in Top5[p] \ {ModelLabel[p]}
        /\ Top1[p] < RELABEL_CONFIDENCE_THRESHOLD
=============================================================================
