------------------------------- MODULE WebForms --------------------------------
(***************************************************************************)
(* The administrator's forms that edit what a query has loaded: the        *)
(* settings (Economy, Quotas and Appearance tabs) and the bonus quota of   *)
(* one account after the other (Users tab).  A form keeps its own copy of  *)
(* the values; an effect fills it whenever the query's data are another    *)
(* object, and React Query keeps the object when a fetch brings equal data.*)
(***************************************************************************)
EXTENDS Integers

CONSTANTS
  Subjects,  \* what a form may edit: the settings, or the quota of an account
  OneByOne,  \* the subjects whose fields are written by a request each
  Fields,    \* the fields of a form
  Values,    \* what a field may hold
  Empty,     \* what a field shows before the data have come
  MaxEdits   \* bound: changes typed or made by another administrator

VARIABLES
  rows,   \* the panel's rows
  data,   \* per subject the query's data, or Unloaded
  form,   \* what the form shows, of which subject, and the fields typed in
  fetch,  \* the fetch of the open subject
  save,   \* the mutation: its step, subject, the values and the fields left
  edits   \* edits made so far

formVars == <<rows, data, form, fetch, save, edits>>

Rows == [Fields -> Values]
Unloaded == [f \in Fields |-> Empty]
NoFetch == [pc |-> "none", got |-> Unloaded]
NoSave == [pc |-> "none", subject |-> "none", values |-> Unloaded, left |-> {}]

\* The effect: all fields are filled; what was typed and not saved is gone.
Filled(values) == [form EXCEPT !.values = values, !.typed = {}]

Edited == edits < MaxEdits /\ edits' = edits + 1

-----------------------------------------------------------------------------
(* A form is opened: for an account, the draft is emptied; data in the     *)
(* cache fill it at once, and are fetched when missing or stale.           *)

\* The draft of the account edited before stays until the data have come.
OpenKeepsDraft(s) ==
  /\ form.subject # s
  /\ form' = [subject |-> s, typed |-> {},
              values |-> IF data[s] = Unloaded THEN form.values ELSE data[s]]
  /\ IF data[s] = Unloaded THEN fetch' = [NoFetch EXCEPT !.pc = "sent"]
     ELSE fetch' \in {NoFetch, [NoFetch EXCEPT !.pc = "sent"]}
  /\ UNCHANGED <<rows, data, save, edits>>

Open(s) ==
  /\ form.subject # s
  /\ form' = [subject |-> s, values |-> data[s], typed |-> {}]
  /\ IF data[s] = Unloaded THEN fetch' = [NoFetch EXCEPT !.pc = "sent"]
     ELSE fetch' \in {NoFetch, [NoFetch EXCEPT !.pc = "sent"]}
  /\ UNCHANGED <<rows, data, save, edits>>

Type(f, v) ==
  /\ form.subject \in Subjects /\ form.values[f] # v
  /\ Edited
  /\ form' = [form EXCEPT !.values[f] = v, !.typed = @ \cup {f}]
  /\ UNCHANGED <<rows, data, fetch, save>>

FormFetchServed ==
  /\ fetch.pc = "sent"
  /\ fetch' = [pc |-> "served", got |-> rows[form.subject]]
  /\ UNCHANGED <<rows, data, form, save, edits>>

FormFetchArrives ==
  /\ fetch.pc = "served"
  /\ fetch' = NoFetch
  /\ \/ /\ fetch.got = data[form.subject]
        /\ UNCHANGED <<data, form>>
     \/ /\ fetch.got # data[form.subject]
        /\ data' = [data EXCEPT ![form.subject] = fetch.got]
        /\ form' = Filled(fetch.got)
  /\ UNCHANGED <<rows, save, edits>>

FormFetchFails ==
  /\ fetch # NoFetch
  /\ fetch' = NoFetch
  /\ UNCHANGED <<rows, data, form, save, edits>>

-----------------------------------------------------------------------------
(* Saving: one field of the Economy and Quotas tabs, all of them one after *)
(* the other on the Appearance tab, all at once for an account.  A field   *)
(* that is still empty is sent as its default.                             *)

Sent(v) == IF v = Empty THEN CHOOSE d \in Values : \A e \in Values : d <= e ELSE v

Save(fields) ==
  /\ form.subject \in Subjects /\ save = NoSave
  /\ form.subject \notin OneByOne => fields = Fields
  /\ save' = [pc |-> "sent", subject |-> form.subject, left |-> fields,
              values |-> [f \in Fields |-> Sent(form.values[f])]]
  /\ UNCHANGED <<rows, data, form, fetch, edits>>

SaveServed ==
  /\ save.pc = "sent" /\ save.left # {}
  /\ \E now \in SUBSET save.left :
       /\ now # {} /\ (IF save.subject \in OneByOne
                       THEN \A f, g \in now : f = g ELSE now = save.left)
       /\ rows' = [rows EXCEPT ![save.subject] =
            [f \in Fields |-> IF f \in now THEN save.values[f] ELSE @[f]]]
       /\ save' = [save EXCEPT !.left = @ \ now]
  /\ UNCHANGED <<data, form, fetch, edits>>

\* onSuccess: the query is invalidated, a fetch under way starts over.
SaveAnswered ==
  /\ save.pc = "sent" /\ save.left = {}
  /\ save' = NoSave
  /\ IF form.subject = save.subject THEN fetch' = [NoFetch EXCEPT !.pc = "sent"]
     ELSE UNCHANGED fetch
  /\ UNCHANGED <<rows, data, form, edits>>

\* Some fields may have been written; nothing is fetched again.
SaveFails ==
  /\ save.pc = "sent"
  /\ save' = NoSave
  /\ UNCHANGED <<rows, data, form, fetch, edits>>

\* Another administrator changes a row.
OtherAdmin(s, f, v) ==
  /\ Edited /\ rows[s][f] # v
  /\ rows' = [rows EXCEPT ![s][f] = v]
  /\ UNCHANGED <<data, form, fetch, save>>

WebFormsInit ==
  /\ \E v \in Values : rows = [s \in Subjects |-> [f \in Fields |-> v]]
  /\ data = [s \in Subjects |-> Unloaded]
  /\ form = [subject |-> "none", values |-> Unloaded, typed |-> {}]
  /\ fetch = NoFetch /\ save = NoSave
  /\ edits = 0

WebFormsNext ==
  \/ \E s \in Subjects : Open(s)
  \/ \E f \in Fields, v \in Values : Type(f, v)
  \/ FormFetchServed \/ FormFetchArrives \/ FormFetchFails
  \/ \E fields \in SUBSET Fields \ {{}} : Save(fields)
  \/ SaveServed \/ SaveAnswered \/ SaveFails
  \/ \E s \in Subjects, f \in Fields, v \in Values : OtherAdmin(s, f, v)

WebFormsSpec == WebFormsInit /\ [][WebFormsNext]_formVars

-----------------------------------------------------------------------------
(* AdminUsersTab 25-41, 77-81: an untouched field shows what the query has *)
(* of the form's own subject, never the value of the account edited before,*)
(* and is empty, which a save sends as zero, while the query has nothing.  *)
FormShowsSubject ==
  form.subject \in Subjects =>
    \A f \in Fields \ form.typed : form.values[f] = data[form.subject][f]
=============================================================================
