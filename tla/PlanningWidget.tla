---------------------------- MODULE PlanningWidget ----------------------------
(***************************************************************************)
(* gui/planningwidget.cpp with its context and its scene: a GUI that keeps *)
(* a planning board in step with the stream of reservations, shows it as   *)
(* items of a scene, lets the user select and delete reservations, and     *)
(* runs the tools on it.  Everything of the GUI happens on its main        *)
(* thread; other clients work on the same storage.                         *)
(*                                                                         *)
(* The backend is taken at its word: it executes a batch in one step and   *)
(* keeps the order of changes.  Changes reach the widget one at a time; a  *)
(* longer list is one during which the user does nothing.                  *)
(***************************************************************************)
EXTENDS PlanningTools

CONSTANTS Stored,      \* the reservations stored first: a sequence of sequences of atoms
          Theirs,      \* what other clients may store
          MaxOthers    \* bound: operations of other clients

ASSUME WidgetAssumption ==
  /\ Addresses \subseteq Nat
  /\ Stored \in Seq(Seq(Atom)) /\ Theirs \subseteq Seq(Atom)
  /\ \A atoms \in ToSet(Stored) \cup Theirs : IsValid(atoms)
  /\ MaxOthers \in Nat

VARIABLES
  app,         \* running, or ended by an exception that no handler catches
  storage,     \* the backend's data
  changes,     \* the stream's changes the widget has yet to be told
  midway,      \* the widget is in the middle of the first of them
  scene,       \* the reservations, by address, which have an item in _scene
  selected,    \* Context::_selectedReservations
  others,      \* how many operations other clients have executed
  cleared,     \* history: allReservationsRemoved was called
  mistaken,    \* history: a ghost's item was taken for that of its reservation
  overlapped   \* history: the storage held two reservations for the same night

boardVars == <<reservations, rooms, outcome>>
ghostVars == <<draft, toolVars>>
backendVars == <<storage, others, overlapped>>
changeVars == <<changes, midway>>
sceneVars == <<scene, selected, mistaken, cleared>>
widgetVars == <<boardVars, ghostVars, requestVars, backendVars, changeVars, sceneVars, app>>

AllReservations == [type |-> "Reservation", service |-> "", id |-> 0]

\* No guest sleeps where another one does.
DoubleBooked(db) ==
  \E i, j \in DOMAIN db["Reservation"] :
    i # j /\ Nights(db["Reservation"][i].parts) \cap Nights(db["Reservation"][j].parts) # {}

\* The database with the reservations stored first
StoredFirst ==
  LET db[n \in 0 .. Len(Stored)] ==
        IF n = 0 THEN EmptyDatabase ELSE StoreNewItem(db[n - 1], NewItem(Stored[n]))
  IN  db[Len(Stored)]

\* The widget has opened its stream; the board is empty until it is told what is stored.
WidgetInit ==
  /\ Init /\ ToolsInit
  /\ app = "running"
  /\ storage = StoredFirst
  /\ changes = InitialChanges(storage, AllReservations) /\ midway = FALSE
  /\ scene = {} /\ selected = {}
  /\ others = 0
  /\ cleared = FALSE /\ mistaken = FALSE
  /\ overlapped = DoubleBooked(storage)

-----------------------------------------------------------------------------
(* The backend *)

\* A batch without an operation that fails
Executed(db, batch) ==
  LET run[n \in 0 .. Len(batch)] ==
        IF n = 0 THEN [db |-> db, changes |-> << >>]
        ELSE [db |-> Effect(run[n - 1].db, batch[n]),
              changes |-> run[n - 1].changes \o ChangesFor(run[n - 1].db, batch[n], AllReservations)]
  IN  run[Len(batch)]

Execute(batch) ==
  LET run == Executed(storage, batch)
  IN  /\ storage' = run.db
      /\ changes' = changes \o run.changes
      /\ overlapped' = (overlapped \/ DoubleBooked(run.db))

\* The widget's batches are of one operation, or of deletions, which do not fail.
ExecuteRequest ==
  /\ requests # << >>
  /\ requests' = Tail(requests)
  /\ Execute(Head(requests))
  /\ UNCHANGED <<boardVars, ghostVars, interactions, others, midway, sceneVars, app>>

OtherOperations ==
  {[op |-> "StoreNew", item |-> NewItem(atoms)] : atoms \in Theirs}
    \cup {[op |-> "Update", item |-> [item EXCEPT !.parts = atoms]] :
            item \in Loaded(storage, AllReservations), atoms \in Theirs}
    \cup {[op |-> "Delete", type |-> "Reservation", id |-> item.id] : item \in Loaded(storage, AllReservations)}
    \cup {[op |-> "EraseAllData"]}

ExecuteOther ==
  /\ others < MaxOthers
  /\ others' = others + 1
  /\ \E op \in OtherOperations : Execute(<<op>>)
  /\ UNCHANGED <<boardVars, ghostVars, requestVars, midway, sceneVars, app>>

-----------------------------------------------------------------------------
(* What the widget is told *)

Told(kind) == changes # << >> /\ Head(changes).kind = kind

\* A pointer to a reservation, or to an item of one, goes to the board's or to nothing.
Pointers == scene \cup selected
Dangling == Pointers \ UsedAddresses

\* An address no pointer refers to.
NewAddress == Min(Addresses \ (UsedAddresses \cup Pointers))

WithId(id) == {i \in DOMAIN reservations : reservations[i].id = id}

\* PlanningBoardWidget::removeReservation: of the items for the id the one on top is taken out,
\* which is the ghost's if the Move tool holds a copy of the reservation.
RemoveItem(id) ==
  IF moving # NotMoving /\ moving.shown /\ moving.id = id
    THEN /\ moving' = [moving EXCEPT !.shown = FALSE]
         /\ mistaken' = TRUE
         /\ UNCHANGED <<scene, selected>>
    ELSE LET items == {reservations[i].address : i \in WithId(id)} \cap scene
         IN  /\ IF items = {} THEN UNCHANGED <<scene, selected>>
                ELSE \E item \in items : scene' = scene \ {item} /\ selected' = selected \ {item}
             /\ UNCHANGED <<moving, mistaken>>

\* Context::removeReservation, for an id that may not be there.
RemoveFromBoard(id) ==
  IF WithId(id) = {} THEN UNCHANGED <<boardVars, draft>> ELSE RemoveReservationById(id)

\* A mutated form of the next action: the item stays in the scene.
RemovedFromContext ==
  /\ Told("removed") /\ ~midway
  /\ \E id \in Head(changes).ids : RemoveFromBoard(id)
  /\ changes' = Tail(changes)
  /\ UNCHANGED <<toolVars, requestVars, backendVars, midway, sceneVars, app>>

\* A removed change names one reservation.
ReservationsRemoved ==
  /\ Told("removed") /\ ~midway
  /\ \E id \in Head(changes).ids : RemoveItem(id) /\ RemoveFromBoard(id)
  /\ changes' = Tail(changes)
  /\ UNCHANGED <<activeTool, ghosts, start, asking, requestVars, backendVars, midway, cleared, app>>

\* The end of a step for one item of a change.
Handled(item) ==
  LET rest == Head(changes).items \ {item}
  IN  /\ changes' = IF rest = {} THEN Tail(changes) ELSE <<Added(rest)>> \o Tail(changes)
      /\ midway' = (rest # {})

\* Context::addReservation tells the tool, then the board; an exception of the board ends the GUI.
AddToBoard(item) ==
  /\ ReservationAdded(item.parts)
  /\ IF CanAddReservation(item.parts)
       THEN /\ PutOn(NewAddress, item.id, item.revision, item.parts)
            /\ scene' = scene \cup {NewAddress}
            /\ UNCHANGED app
       ELSE /\ outcome' = "exception" /\ app' = "ended"
            /\ UNCHANGED <<reservations, rooms, scene>>
  /\ UNCHANGED <<activeTool, asking, selected, mistaken, cleared>>

ReservationsAdded ==
  /\ Told("added")
  /\ IF Head(changes).items = {}
       THEN changes' = Tail(changes) /\ UNCHANGED <<boardVars, ghostVars, sceneVars, midway, app>>
       ELSE \E item \in Head(changes).items : AddToBoard(item) /\ Handled(item)
  /\ UNCHANGED <<requestVars, backendVars>>

\* A mutated form of the next action: the old version stays on the board.
UpdatedInScene ==
  /\ Told("updated") /\ ~midway
  /\ \E item \in Head(changes).items : RemoveItem(item.id)
  /\ changes' = <<Added(Head(changes).items)>> \o Tail(changes)
  /\ midway' = TRUE
  /\ UNCHANGED <<boardVars, draft, activeTool, ghosts, start, asking, requestVars, backendVars, cleared, app>>

\* reservationsUpdated takes the old version off and adds the new one, as reservationsAdded does.
ReservationsUpdated ==
  /\ Told("updated") /\ ~midway
  /\ \E item \in Head(changes).items : RemoveItem(item.id) /\ RemoveFromBoard(item.id)
  /\ changes' = <<Added(Head(changes).items)>> \o Tail(changes)
  /\ midway' = TRUE
  /\ UNCHANGED <<activeTool, ghosts, start, asking, requestVars, backendVars, cleared, app>>

\* allReservationsRemoved takes all items out of the scene, those of ghosts too; the context
\* keeps its board and the selection.
AllReservationsRemoved ==
  /\ Told("cleared") /\ ~midway
  /\ changes' = Tail(changes)
  /\ scene' = {}
  /\ moving' = IF moving = NotMoving THEN moving ELSE [moving EXCEPT !.shown = FALSE]
  /\ cleared' = TRUE
  /\ UNCHANGED <<boardVars, draft, activeTool, ghosts, start, asking, requestVars, backendVars,
                 midway, selected, mistaken, app>>

-----------------------------------------------------------------------------
(* What the user does *)

UserUnchanged == UNCHANGED <<boardVars, backendVars, changeVars, scene, mistaken, cleared, app>>

\* A press on an atom selects its item's reservation, with the control key in addition to
\* others, and tells the tool.
PressItem(i, n) ==
  /\ ~asking /\ reservations[i].address \in scene
  /\ \E kept \in {{}, selected} : selected' = kept \cup {reservations[i].address}
  /\ IF Moving /\ ~ReservationInHand
       THEN PressAtom(reservations[i], n)
       ELSE UNCHANGED <<ghostVars, requestVars>>
  /\ UserUnchanged

\* A press anywhere else takes the selection back.
PressElsewhere ==
  /\ ~asking /\ selected # {}
  /\ selected' = {}
  /\ UNCHANGED <<ghostVars, requestVars>>
  /\ UserUnchanged

PressRoom(room, date) ==
  /\ PressMouse(room, date)
  /\ selected' = {}
  /\ UserUnchanged

SelectedIds == {reservations[i].id : i \in {j \in DOMAIN reservations : reservations[j].address \in selected}}

\* keyPressEvent, of the delete key: one batch, and an empty one if nothing is selected.
PressDelete ==
  /\ ~asking
  /\ Interact
  /\ QueueOperations(<<[i \in 1 .. Cardinality(SelectedIds) |->
                          [op |-> "Delete", type |-> "Reservation", id |-> SetToSeq(SelectedIds)[i]]]>>)
  /\ UNCHANGED <<ghostVars, selected>>
  /\ UserUnchanged

\* What the tools do with keys and the mouse, and the buttons that activate them.
UseTool == User /\ UNCHANGED selected /\ UserUnchanged

-----------------------------------------------------------------------------
Backend == ExecuteRequest \/ ExecuteOther

MainThread == ReservationsAdded \/ ReservationsUpdated \/ ReservationsRemoved \/ AllReservationsRemoved

UserEvents ==
  \/ \E i \in DOMAIN reservations : \E n \in DOMAIN reservations[i].atoms : PressItem(i, n)
  \/ PressElsewhere
  \/ \E room \in Rooms, date \in MouseDates : PressRoom(room, date)
  \/ PressDelete
  \/ UseTool

\* What the program does with a pointer to a reservation that is gone is not followed, nor what
\* comes of a board that was not cleared.
Followed == app = "running" /\ Dangling = {} /\ ~cleared

Stopped == ~Followed /\ UNCHANGED widgetVars

WidgetNext ==
  \/ Followed /\ Backend
  \/ Followed /\ MainThread
  \/ Followed /\ ~midway /\ UserEvents
  \/ Stopped

WidgetSpec == WidgetInit /\ [][WidgetNext]_widgetVars

-----------------------------------------------------------------------------
(* Properties *)

Held == {i \in DOMAIN reservations : moving # NotMoving /\ reservations[i].id = moving.id
                                       /\ reservations[i].revision = moving.revision}

\* "the user cannot create two overlapping temporary reservation atoms", and what was free when it
\* was drawn stays free, whatever other clients add, update and remove meanwhile: ghosts lie beside
\* each other and beside all reservations, but for the one which the Move tool holds a copy of.
GhostsAreFree ==
  LET nights == [i \in DOMAIN ghosts |-> Nights(ghosts[i])]
  IN  /\ \A i \in DOMAIN ghosts :
           /\ Nights(draft) \cap nights[i] = {}
           /\ \A j \in 1 .. i - 1 : nights[i] \cap nights[j] = {}
           /\ \A j \in DOMAIN reservations : nights[i] \cap Nights(reservations[j].atoms) = {}
      /\ \A j \in DOMAIN reservations \ Held : Nights(draft) \cap Nights(reservations[j].atoms) = {}

\* The scene shows the board and what is selected is shown, so that nothing the user can reach
\* points to a reservation that is gone, unless allReservationsRemoved has left the board as it
\* was or a ghost's item was taken for that of its reservation.
SceneShowsBoard == cleared \/ mistaken \/ (scene = UsedAddresses /\ selected \subseteq scene)

\* The board's exception ends the GUI only if the storage, which does not look at rooms, has
\* accepted two reservations for the same night, or the board was not cleared: removing and adding
\* an updated reservation, and all that tools store, never does.
ThrowsOnlyOnDoubleBooking == app = "ended" => overlapped \/ cleared

\* A widget that was told everything shows what is stored, each reservation once and in its latest
\* version, unless the board was not cleared.
BoardShowsStorage ==
  app = "running" /\ changes = << >> /\ ~cleared =>
    /\ {[id |-> r.id, revision |-> r.revision, parts |-> r.atoms] : r \in ToSet(reservations)}
         = {[id |-> r.id, revision |-> r.revision, parts |-> r.parts] : r \in Loaded(storage, AllReservations)}
    /\ Len(reservations) = Cardinality(Loaded(storage, AllReservations))

\* What the user sees, and can press, is what is stored: from the storage over the stream and the
\* context's board to the items of the scene and the selection.
SceneShowsStorage == SceneShowsBoard /\ BoardShowsStorage

\* The database after batches, one after the other
ExecutedAll(db, batches) ==
  LET after[n \in 0 .. Len(batches)] == IF n = 0 THEN db ELSE Executed(after[n - 1], batches[n]).db
  IN  after[Len(batches)]

\* All that the tools commit at a time when the widget is up to date and nothing is queued, several
\* drawn reservations or a moved one, fits together and into what is stored; a move leaves the
\* guests all of the dates of their stay.
CommitsFit ==
  [][ /\ requests = << >> /\ changes = << >> /\ ~cleared /\ ~DoubleBooked(storage)
      /\ Len(requests') > Len(requests)
      => /\ ~DoubleBooked(ExecutedAll(storage, requests'))
         /\ \A i \in DOMAIN requests' : \A n \in DOMAIN requests'[i] :
              requests'[i][n].op = "Update" =>
                LET item == requests'[i][n].item
                IN  /\ IsValid(item.parts)
                    /\ DateRange(item.parts) = DateRange(storage["Reservation"][item.id].parts) ]_widgetVars
=============================================================================
