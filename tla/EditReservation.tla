--------------------------- MODULE EditReservation ---------------------------
(***************************************************************************)
(* gui/dialogs/editreservation.cpp: the dialog that edits a reservation,   *)
(* on the GUI's main thread.  It follows the reservation's by_id stream,   *)
(* saves what is in its form, and merges its form with a newer version.    *)
(* While it asks how to solve a conflict, the message box runs the event   *)
(* loop.                                                                   *)
(*                                                                         *)
(* The backend is taken at its word: a batch is executed in one step, and  *)
(* what comes of it reaches the GUI later, in order.  Other clients update *)
(* the reservation, delete it or erase all data.                           *)
(*                                                                         *)
(* A description stands for the fields a form shows as they are, the       *)
(* number of adults for those whose widget has a range.                    *)
(***************************************************************************)
EXTENDS ChangeIntegrator, BackendOperations, FiniteSets

CONSTANTS FormMax,    \* the most adults the form can show
          Stored,     \* what is stored first
          Ours,       \* what the user may put into the form
          Theirs,     \* what other clients may store
          MaxSaves,   \* bound: saves
          MaxOthers   \* bound: operations of other clients

ASSUME EditReservationAssumption ==
  /\ \A f \in Fields : f = [description |-> f.description, adults |-> f.adults] /\ f.adults \in Nat
  /\ \A f, g \in Fields : [f EXCEPT !.adults = g.adults] \in Fields    \* members of their own
  /\ \A f \in Fields : f.adults > FormMax => [f EXCEPT !.adults = FormMax] \in Fields
  /\ Stored \in Fields /\ Ours \subseteq Fields /\ Theirs \subseteq Fields
  /\ FormMax \in Nat /\ MaxSaves \in Nat /\ MaxOthers \in Nat

VARIABLES
  storage,     \* the backend's data
  requests,    \* the saves queued in the backend
  outbox,      \* what the backend has yet to tell the GUI
  stream,      \* the dialog's stream: opened, following the storage or closed
  status,      \* _status
  reference,   \* _referenceVersion
  newest,      \* _newestVersion
  form,        \* the values in the form
  ui,          \* which of the dialog, its save and its merge button can be used
  dialogPc,    \* where the dialog's handlers are: saveClicked before then(), mergeChangesClicked asking
  saveTask,    \* the batch of the last save: queued, with a continuation, or its result
  resolution,  \* mergeChangesClicked: what is merged so far, and the conflicts to ask about
  visible,     \* close() was not called
  edited,      \* history: the fields set by the user since the form was filled
  overtaken,   \* history: a newer version has come in while conflicts were asked about
  saves, others

backendVars == <<storage, requests, stream, others>>
versionVars == <<status, reference, newest, ui>>
queueVars == <<changeList, eventScheduled, adder, integrator, applying>>
formVars == <<form, edited, resolution, overtaken>>
taskVars == <<dialogPc, saveTask, saves>>
vars == <<integratorVars, backendVars, outbox, versionVars, formVars, taskVars, visible>>

FieldNames == {"description", "adults"}

\* Form::setFormValues: a spin box takes the nearest value in its range.
Shown(fields) == IF fields.adults > FormMax THEN [fields EXCEPT !.adults = FormMax] ELSE fields

ById == [type |-> "Reservation", service |-> "by_id", id |-> 1]

The(version) == CHOOSE item \in version : TRUE

EmptyForm == [description |-> "", adults |-> 0]

\* No conflict is open.
Resolved == [merged |-> EmptyForm, ours |-> EmptyForm, theirs |-> EmptyForm, conflicts |-> << >>]

Init ==
  /\ IntegratorInit
  /\ \E part \in Part :
       storage = StoreNewItem(EmptyDatabase, [type |-> "Reservation", fields |-> Stored, parts |-> <<part>>])
  /\ requests = << >> /\ outbox = << >> /\ stream = "opened"
  /\ status = "NotInitialized" /\ reference = {} /\ newest = {}
  /\ ui = [enabled |-> FALSE, save |-> FALSE, merge |-> FALSE]
  /\ form = EmptyForm
  /\ dialogPc = "idle" /\ saveTask = "none" /\ visible = TRUE
  /\ resolution = Resolved
  /\ edited = {} /\ overtaken = FALSE /\ saves = 0 /\ others = 0

-----------------------------------------------------------------------------
(* The backend *)

Following(op) == IF stream = "following" THEN ChangesFor(storage, op, ById) ELSE << >>

StartStream ==
  /\ stream = "opened"
  /\ stream' = "following"
  /\ outbox' = outbox \o Append(InitialChanges(storage, ById), Initialized)
  /\ UNCHANGED <<integratorVars, storage, requests, others, versionVars, formVars, taskVars, visible>>

SaveOperation(item) == [op |-> "Update", item |-> item]

ExecuteSave ==
  /\ requests # << >>
  /\ requests' = Tail(requests)
  /\ LET op == SaveOperation(Head(requests))
     IN  /\ storage' = Effect(storage, op)
         /\ outbox' = outbox \o Following(op)
              \o <<[kind |-> "result", result |-> IF Succeeds(storage, op) THEN "Successful" ELSE "Error"]>>
  /\ UNCHANGED <<integratorVars, stream, others, versionVars, formVars, taskVars, visible>>

\* Another client changes what is stored, deletes the reservation or erases all data.
OtherOperations ==
  {[op |-> "Update", item |-> [item EXCEPT !.fields = fields]] :
     item \in Loaded(storage, ById), fields \in Theirs}
    \cup {[op |-> "Delete", type |-> "Reservation", id |-> 1], [op |-> "EraseAllData"]}

ExecuteOther ==
  /\ others < MaxOthers
  /\ others' = others + 1
  /\ \E op \in OtherOperations : storage' = Effect(storage, op) /\ outbox' = outbox \o Following(op)
  /\ UNCHANGED <<integratorVars, requests, stream, versionVars, formVars, taskVars, visible>>

\* A thread of the backend hands over a change ...
DeliverChange ==
  /\ outbox # << >> /\ Head(outbox).kind # "result"
  /\ AddStreamChange(Head(outbox))
  /\ outbox' = Tail(outbox)
  /\ UNCHANGED <<backendVars, versionVars, formVars, taskVars, visible>>

\* ... or resolves the promise of the save.  A continuation, unless it is canceled, is posted to
\* the main thread (QtMainThreadExecutor).
DeliverResult ==
  /\ adder = "idle" /\ outbox # << >> /\ Head(outbox).kind = "result"
  /\ outbox' = Tail(outbox)
  /\ IF saveTask = "continued"
       THEN saveTask' = "none" /\ events' = Append(events, Head(outbox))
       ELSE saveTask' = Head(outbox).result /\ UNCHANGED events
  /\ UNCHANGED <<queueVars, backendVars, versionVars, formVars,
                 dialogPc, saves, visible>>

-----------------------------------------------------------------------------
(* The dialog *)

\* updateUI
UpdateUI ==
  ui' = [enabled |-> status' = "Ready" /\ reference' # {},
         save    |-> status' = "Ready" /\ newest' = {},
         merge   |-> status' = "Ready" /\ newest' # {}]

\* close(), of a dialog that is to be deleted when it is closed
Close(posted) ==
  /\ visible' = FALSE
  /\ events' = IF visible THEN Append(posted, [kind |-> "delete"]) ELSE posted

\* The main thread waits for an event, in its loop or in that of the message box; the user can
\* use the dialog if no message box is open.
AtEventLoop == integrator = "idle" /\ applying = << >> /\ dialogPc # "saving"
Usable == AtEventLoop /\ dialogPc = "idle" /\ visible

UserEdits ==
  /\ Usable /\ ui.enabled
  /\ \E field \in FieldNames, fields \in Ours :
       /\ form[field] # Shown(fields)[field]
       /\ form' = [form EXCEPT ![field] = Shown(fields)[field]]
       /\ edited' = edited \cup {field}
  /\ UNCHANGED <<integratorVars, backendVars, outbox, versionVars, resolution, overtaken, taskVars, visible>>

UserCloses ==
  /\ Usable
  /\ Close(events)
  /\ UNCHANGED <<queueVars, backendVars, outbox, versionVars,
                 formVars, taskVars>>

\* saveClicked: the batch is queued ...
SaveClicked ==
  /\ Usable /\ ui.enabled /\ ui.save /\ saves < MaxSaves
  /\ saves' = saves + 1
  /\ status' = "Saving"
  /\ requests' = Append(requests, [The(reference) EXCEPT !.fields = form])
  /\ saveTask' = "queued"
  /\ dialogPc' = "saving"
  /\ UNCHANGED <<integratorVars, storage, stream, others, outbox, reference, newest, ui, formVars, visible>>

\* saveTaskUpdated
SaveTaskUpdated(result, posted) ==
  IF result = "Successful"
    THEN Close(posted) /\ UNCHANGED status
    ELSE status' = "Ready" /\ events' = posted /\ UNCHANGED visible

\* A mutated form of the next action: then() does not run the continuation of a ready future.
ThenWaits ==
  /\ dialogPc = "saving"
  /\ dialogPc' = "idle"
  /\ saveTask' = "continued"
  /\ UNCHANGED <<integratorVars, backendVars, outbox, status, reference, newest, formVars, saves, visible>>
  /\ UpdateUI

\* ... and a continuation is hung on its future.  If the result is there already, the continuation
\* runs at once, as it is spawned on the main thread.
ThenSaveTaskUpdated ==
  /\ dialogPc = "saving"
  /\ dialogPc' = "idle"
  /\ UNCHANGED <<reference, newest>>
  /\ IF saveTask = "queued"
       THEN saveTask' = "continued" /\ UNCHANGED <<status, events, visible>>
       ELSE saveTask' = "none" /\ SaveTaskUpdated(saveTask, events)
  /\ UpdateUI
  /\ UNCHANGED <<queueVars, backendVars, outbox, formVars, saves>>

\* The fields changed by both, not to the same value, in the order of the form
Conflict(base, ours, theirs, field) ==
  IF ours[field] # base[field] /\ theirs[field] # base[field] /\ ours[field] # theirs[field] THEN <<field>> ELSE << >>

Conflicts(base, ours, theirs) ==
  Conflict(base, ours, theirs, "description") \o Conflict(base, ours, theirs, "adults")

\* A mutated form of the next operator: what only they have changed is not taken over.
MergedOurs(base, ours, theirs) ==
  [merged    |-> [f \in DOMAIN base |-> IF theirs[f] = base[f] THEN ours[f] ELSE base[f]],
   conflicts |-> Conflicts(base, ours, theirs)]

\* Resolver::merge
Merge(base, ours, theirs) ==
  [merged    |-> [f \in DOMAIN base |-> IF ours[f] = theirs[f] \/ theirs[f] = base[f] THEN ours[f]
                                        ELSE IF ours[f] = base[f] THEN theirs[f] ELSE base[f]],
   conflicts |-> Conflicts(base, ours, theirs)]

\* A mutated form of the next operator: the form is left as it is.
TakeNewest(merged) ==
  /\ reference' = newest /\ newest' = {}
  /\ UNCHANGED <<status, form>>
  /\ UpdateUI

\* The end of mergeChangesClicked
FinishMerge(merged) ==
  /\ form' = Shown(merged)
  /\ reference' = newest /\ newest' = {}
  /\ UNCHANGED status
  /\ UpdateUI

\* mergeChangesClicked, up to the first message box.  The button is visible only if there is a
\* newer version.
MergeChangesClicked ==
  /\ Usable /\ ui.enabled /\ ui.merge
  /\ LET theirs == The(newest).fields
         merge == Merge(The(reference).fields, form, theirs)
     IN  IF merge.conflicts = << >>
           THEN FinishMerge(merge.merged) /\ UNCHANGED <<resolution, dialogPc>>
           ELSE /\ resolution' = [merged |-> merge.merged, ours |-> form, theirs |-> theirs,
                                  conflicts |-> merge.conflicts]
                /\ dialogPc' = "asking"
                /\ UNCHANGED <<form, versionVars>>
  /\ UNCHANGED <<integratorVars, backendVars, outbox, edited, overtaken, saveTask, saves, visible>>

\* The user chooses a version for the first conflict; the message box is gone.
UserChooses(version) ==
  /\ dialogPc = "asking" /\ AtEventLoop
  /\ LET field == Head(resolution.conflicts)
         merged == CASE version = "base"   -> resolution.merged
                     [] version = "ours"   -> [resolution.merged EXCEPT ![field] = resolution.ours[field]]
                     [] version = "theirs" -> [resolution.merged EXCEPT ![field] = resolution.theirs[field]]
         rest == Tail(resolution.conflicts)
     IN  /\ edited' = IF version = "theirs" THEN edited \ {field} ELSE edited \cup {field}
         /\ IF rest = << >>
              THEN FinishMerge(merged) /\ resolution' = Resolved /\ dialogPc' = "idle"
              ELSE /\ resolution' = [resolution EXCEPT !.merged = merged, !.conflicts = rest]
                   /\ UNCHANGED <<form, versionVars, dialogPc>>
  /\ UNCHANGED <<integratorVars, backendVars, outbox, overtaken, saveTask, saves, visible>>

-----------------------------------------------------------------------------
(* What the main thread tells the dialog *)

\* applyStreamChanges hands over the next change.
Handle(kind) ==
  /\ applying # << >> /\ Head(applying).kind = kind
  /\ applying' = Tail(applying)
  /\ UNCHANGED <<changeList, eventScheduled, adder, events, integrator, backendVars, outbox, taskVars, visible>>

ReservationsInitialized ==
  /\ Handle("initialized")
  /\ status' = "Ready"
  /\ UNCHANGED <<reference, newest, formVars>>
  /\ UpdateUI

ReservationsAdded ==
  /\ Handle("added")
  /\ reference' = Head(applying).items
  /\ form' = Shown(The(reference').fields)
  /\ UNCHANGED <<status, newest, ui, edited, resolution, overtaken>>

\* A mutated form of the next action: while saving, an update is taken for one's own.
UpdatedByOthers ==
  /\ Handle("updated")
  /\ newest' = IF status = "Saving" THEN newest ELSE Head(applying).items
  /\ overtaken' = (overtaken \/ dialogPc = "asking")
  /\ UNCHANGED <<status, reference, form, edited, resolution>>
  /\ UpdateUI

ReservationsUpdated ==
  /\ Handle("updated")
  /\ newest' = Head(applying).items
  /\ overtaken' = (overtaken \/ dialogPc = "asking")
  /\ UNCHANGED <<status, reference, form, edited, resolution>>
  /\ UpdateUI

\* reservationsRemoved and allReservationsRemoved
ReservationsRemoved ==
  /\ Handle("removed") \/ Handle("cleared")
  /\ reference' = {}
  /\ status' = "Removed"
  /\ UNCHANGED <<newest, formVars>>
  /\ UpdateUI

\* The continuation of a save, unless the dialog and with it _saveTask are gone: saveTaskUpdated
RunSaveTaskUpdated ==
  /\ AtEventLoop /\ events # << >> /\ Head(events).kind = "result"
  /\ UNCHANGED <<reference, newest>>
  /\ IF stream = "closed"
       THEN events' = Tail(events) /\ UNCHANGED <<status, ui, visible>>
       ELSE /\ SaveTaskUpdated(Head(events).result, Tail(events))
            /\ IF Head(events).result = "Error" THEN UpdateUI ELSE UNCHANGED ui
  /\ UNCHANGED <<queueVars, backendVars, outbox, formVars, taskVars>>

\* The destructor, which resets the stream's handle and the future.
DeleteDialog ==
  /\ AtEventLoop /\ events # << >> /\ Head(events).kind = "delete"
  /\ events' = Tail(events)
  /\ stream' = "closed"
  /\ UNCHANGED <<queueVars, storage, requests, others, outbox,
                 versionVars, formVars, taskVars, visible>>

ApplyChanges ==
  /\ (AtEventLoop /\ HandleAvailableResults) \/ ApplyStreamChanges(stream # "closed")
  /\ UNCHANGED <<backendVars, outbox, versionVars, formVars, taskVars, visible>>

AddChanges ==
  /\ EmitResultsAvailable \/ PostResultsAvailable
  /\ UNCHANGED <<backendVars, outbox, versionVars, formVars, taskVars, visible>>

-----------------------------------------------------------------------------
User == UserEdits \/ UserCloses \/ SaveClicked \/ MergeChangesClicked
          \/ \E version \in {"base", "ours", "theirs"} : UserChooses(version)

MainThread ==
  \/ ThenSaveTaskUpdated
  \/ ApplyChanges \/ RunSaveTaskUpdated \/ DeleteDialog
  \/ ReservationsInitialized \/ ReservationsAdded \/ ReservationsUpdated \/ ReservationsRemoved

Backend == StartStream \/ ExecuteSave \/ DeliverChange \/ DeliverResult \/ AddChanges

\* The dialog is gone and nothing is under way.
Terminated == stream = "closed" /\ UNCHANGED vars

Next == User \/ MainThread \/ Backend \/ ExecuteOther \/ Terminated

Spec == Init /\ [][Next]_vars

\* The event loop and the backend's thread run; a user or another client need not do anything.
FairSpec == Spec /\ WF_vars(MainThread) /\ WF_vars(Backend)

-----------------------------------------------------------------------------
(* Properties *)

Forms == [description : {f.description : f \in Fields} \cup {""}, adults : 0 .. FormMax]

\* Every variable has its type; what the form holds can be shown.
TypeOK ==
  /\ storage \in Database
  /\ \A version \in {reference, newest} : version \in SUBSET Item /\ Cardinality(version) <= 1
  /\ requests \in Seq(Item)
  /\ stream \in {"opened", "following", "closed"}
  /\ status \in {"NotInitialized", "Ready", "Removed", "Saving"}
  /\ form \in Forms
  /\ ui \in [enabled : BOOLEAN, save : BOOLEAN, merge : BOOLEAN]
  /\ dialogPc \in {"idle", "saving", "asking"}
  /\ dialogPc = "asking" <=> resolution.conflicts # << >>
  /\ saveTask \in {"none", "queued", "continued"} \cup Status
  /\ edited \subseteq FieldNames

\* editreservation.h: "The reference version to which we are currently editing against".  What
\* the form shows is the reference version, but for what the user has set.
EditsReferenceVersion ==
  dialogPc # "asking" /\ reference # {} =>
    \A f \in FieldNames : form[f] # Shown(The(reference).fields)[f] => f \in edited

\* The same, as long as no newer version has come in while conflicts were asked about.
FormFollowsReference == overtaken \/ EditsReferenceVersion

\* A save which the backend would accept changes what the user has set, and nothing that others
\* have changed meanwhile; but it brings a number into the range of its widget.
SaveKeepsOthersChanges ==
  ~overtaken =>
    \A i \in DOMAIN requests : Matches(storage, requests[i]) =>
      LET stored == storage["Reservation"][1].fields
      IN  \A f \in FieldNames : requests[i].fields[f] # Shown(stored)[f] => f \in edited

Quiet ==
  /\ stream = "following" /\ requests = << >> /\ outbox = << >>
  /\ adder = "idle" /\ changeList = << >> /\ events = << >> /\ applying = << >> /\ integrator = "idle"

\* However updates, a failed save and a merge have followed each other: when nothing is under
\* way any more, a dialog that can be used holds the stored reservation, as the version to merge
\* with or as the version it edits, so that the next save is not refused.
OffersNewestVersion ==
  Quiet /\ visible /\ ui.enabled /\ dialogPc = "idle" =>
    (IF newest # {} THEN newest ELSE reference) = Loaded(storage, ById)

\* A save ends, whether its result comes before or after then(): the dialog can be used again,
\* says that the reservation was removed, or is closed.
SaveEnds == status = "Saving" ~> status # "Saving" \/ stream = "closed"
=============================================================================
