---------------------------- MODULE PlanningTools ----------------------------
(***************************************************************************)
(* gui/planningwidget/newreservationtool.cpp, movereservationtool.cpp and  *)
(* what context.cpp has to do with tools.  A tool shows ghosts, which are  *)
(* reservations being drawn or moved, on top of a board that changes under *)
(* them, and turns them into batches for the backend.                      *)
(*                                                                         *)
(* The atoms of the ghost in hand are in draft.  The mouse points at a     *)
(* room and a date; the layout's rows and pixels are left out.             *)
(***************************************************************************)
EXTENDS PlanningBoard, BackendOperations

CONSTANTS MouseDates,   \* the dates the mouse can point at
          MaxInteractions   \* bound: ghosts begun, and presses of the delete key

\* The days from 1400 to 9999 that boost knows are far fewer than Forever; only reservations are
\* stored here.
ASSUME ToolsAssumption ==
  /\ Dates \subseteq 0 .. Forever - 1 /\ MouseDates \subseteq Dates
  /\ Part = Atom /\ Fields # {}
  /\ MaxInteractions \in Nat

VARIABLES
  activeTool,   \* Context::_activeTool
  ghosts,       \* NewReservationTool::_ghosts: the atoms of each
  start,        \* NewReservationTool::_currentGhost: startRoomId and startDate
  moving,       \* MoveReservationTool::_currentGhost: what it is a copy of, and what is moved
  asking,       \* QInputDialog::getText runs the event loop
  requests,     \* the batches queued in the backend and not executed
  interactions  \* how many of them there were

toolVars == <<activeTool, ghosts, start, moving, asking>>
requestVars == <<requests, interactions>>

Nowhere == [room |-> "none"]
NotMoving == [id |-> 0]

ToolNames == {"", "new-reservation", "move-reservation"}

ToolsInit ==
  /\ activeTool = ""
  /\ ghosts = << >> /\ start = Nowhere /\ moving = NotMoving
  /\ asking = FALSE
  /\ requests = << >> /\ interactions = 0

QueueOperations(queued) == requests' = requests \o queued

Interact == interactions < MaxInteractions /\ interactions' = interactions + 1

-----------------------------------------------------------------------------
(* Tools in general *)

\* unload() of either tool, which forgets its ghosts.
Unload ==
  /\ ghosts' = << >>
  /\ start' = Nowhere /\ moving' = NotMoving
  /\ draft' = << >>

\* Context::activateTool, which the input dialog keeps the user from.
ActivateTool(name) ==
  /\ name # activeTool /\ ~asking
  /\ activeTool' = name
  /\ Unload
  /\ UNCHANGED <<asking, requestVars>>

\* A mutated form of the next operator: the ghosts drawn before are not looked at.
KeepsDrawnGhosts(atoms) ==
  /\ UNCHANGED ghosts
  /\ IF IntersectsWith(atoms, draft)
       THEN start' = Nowhere /\ moving' = NotMoving /\ draft' = << >>
       ELSE UNCHANGED <<start, moving, draft>>

\* The drawn ghosts that a new reservation leaves.
GhostsBeside(atoms) ==
  LET left[n \in 0 .. Len(ghosts)] ==
        IF n = 0 THEN << >>
        ELSE IF IntersectsWith(atoms, ghosts[n]) THEN left[n - 1] ELSE Append(left[n - 1], ghosts[n])
  IN  left[Len(ghosts)]

\* reservationAdded of the active tool: ghosts in the way of a new reservation are dropped.
ReservationAdded(atoms) ==
  /\ ghosts' = GhostsBeside(atoms)
  /\ IF IntersectsWith(atoms, draft)
       THEN start' = Nowhere /\ moving' = NotMoving /\ draft' = << >>
       ELSE UNCHANGED <<start, moving, draft>>

-----------------------------------------------------------------------------
(* NewReservationTool *)

Drawing == activeTool = "new-reservation" /\ ~asking
GhostInHand == start # Nowhere

\* boost: the largest number of days is infinite, as is the date it leads to.
AfterDays(from, days) == IF days = Forever THEN Forever ELSE from + days

\* A mutated form of the next operator: the drawn ghosts are not considered.
AvailableUntil(room, from) == AfterDays(from, GetAvailableDaysFrom(room, from))

\* computeMaximumDate
ComputeMaximumDate(room, from) ==
  LET atoms == {atom \in UNION {ToSet(ghosts[i]) : i \in DOMAIN ghosts} : atom.room = room}
  IN  IF \E atom \in atoms : HasDate(atom, from)
        THEN from
        ELSE Min({AfterDays(from, GetAvailableDaysFrom(room, from))}
                   \cup {atom.from : atom \in {a \in atoms : from <= a.from}})

\* mousePressEvent: a ghost without atoms, in place of the one in hand.
PressMouse(room, date) ==
  /\ Drawing
  /\ ComputeMaximumDate(room, date) # date
  /\ Interact
  /\ start' = [room |-> room, date |-> date]
  /\ draft' = << >>
  /\ UNCHANGED <<activeTool, ghosts, moving, asking, requests>>

Clipped(date, from, to) == Min({Max({date, from}), to})

\* The ghost's last atom is drawn anew, or another one is begun in the room under the mouse.
DrawAtom(atoms, room, from, date) ==
  LET to == Clipped(date, from, ComputeMaximumDate(room, from))
  IN  IF to = from THEN atoms ELSE Append(atoms, [room |-> room, from |-> from, to |-> to])

\* mouseMoveEvent
DragMouse(date) ==
  /\ Drawing /\ GhostInHand
  /\ draft' = IF draft = << >>
                THEN DrawAtom(<< >>, start.room, start.date, date)
                ELSE DrawAtom(RemovedLast(draft), LastAtom(draft).room, LastAtom(draft).from, date)
  /\ UNCHANGED <<toolVars, requestVars>>

\* The same with the shift key, in another room.
ShiftDragMouse(room, date) ==
  /\ Drawing /\ GhostInHand
  /\ Len(draft) < MaxAtoms
  /\ room # IF draft = << >> THEN start.room ELSE LastAtom(draft).room
  /\ draft' = DrawAtom(draft, room, IF draft = << >> THEN start.date ELSE LastAtom(draft).to, date)
  /\ UNCHANGED <<toolVars, requestVars>>

\* mouseReleaseEvent
ReleaseMouse ==
  /\ Drawing /\ GhostInHand
  /\ ghosts' = IF IsNull(DateRange(draft)) THEN ghosts ELSE Append(ghosts, draft)
  /\ start' = Nowhere /\ draft' = << >>
  /\ UNCHANGED <<activeTool, moving, asking, requestVars>>

\* keyPressEvent does nothing while a ghost is in hand.
PressEscape ==
  /\ Drawing /\ ~GhostInHand
  /\ Unload
  /\ UNCHANGED <<activeTool, asking, requestVars>>

PressBackspace ==
  /\ Drawing /\ ~GhostInHand /\ ghosts # << >>
  /\ ghosts' = Front(ghosts)
  /\ UNCHANGED <<activeTool, start, moving, asking, draft, requestVars>>

\* Return asks for a description ...
PressReturn ==
  /\ Drawing /\ ~GhostInHand /\ ghosts # << >>
  /\ asking' = TRUE
  /\ UNCHANGED <<activeTool, ghosts, start, moving, draft, requestVars>>

CancelDescription ==
  /\ asking
  /\ asking' = FALSE
  /\ UNCHANGED <<activeTool, ghosts, start, moving, draft, requestVars>>

\* One value stands for the scalar columns.
Columns == CHOOSE fields \in Fields : TRUE

NewItem(atoms) == [type |-> "Reservation", id |-> 0, revision |-> 0, fields |-> Columns, parts |-> atoms]

\* ... and then each of the ghosts which are left is stored by a batch of its own.
EnterDescription ==
  /\ asking
  /\ asking' = FALSE
  /\ QueueOperations([i \in DOMAIN ghosts |-> <<[op |-> "StoreNew", item |-> NewItem(ghosts[i])]>>])
  /\ ghosts' = << >>
  /\ UNCHANGED <<activeTool, start, moving, draft, interactions>>

-----------------------------------------------------------------------------
(* MoveReservationTool *)

Moving == activeTool = "move-reservation"
ReservationInHand == moving # NotMoving

\* atomMousePressEvent: a copy of the reservation, to be moved.
PressAtom(reservation, i) ==
  /\ Moving /\ ~ReservationInHand
  /\ Interact
  /\ moving' = [id |-> reservation.id, revision |-> reservation.revision,
                index |-> i, room |-> reservation.atoms[i].room, shown |-> TRUE]
  /\ draft' = reservation.atoms
  /\ UNCHANGED <<activeTool, ghosts, start, asking, requests>>

\* mouseMoveEvent: back to where it came from, or to a room that is free.
DragAtom(room) ==
  /\ Moving /\ ReservationInHand
  /\ room = moving.room \/ IsFree(room, draft[moving.index])
  /\ draft' = [draft EXCEPT ![moving.index].room = room]
  /\ UNCHANGED <<toolVars, requestVars>>

\* mouseReleaseEvent: the change is committed, whether there is one or not.
ReleaseAtom ==
  /\ Moving /\ ReservationInHand
  /\ QueueOperations(<< <<[op |-> "Update",
                           item |-> [type |-> "Reservation", id |-> moving.id, revision |-> moving.revision,
                                     fields |-> Columns, parts |-> Joined(draft)]]>> >>)
  /\ moving' = NotMoving /\ draft' = << >>
  /\ UNCHANGED <<activeTool, ghosts, start, asking, interactions>>

-----------------------------------------------------------------------------
User ==
  \/ \E name \in ToolNames : ActivateTool(name)
  \/ \E room \in Rooms, date \in MouseDates : PressMouse(room, date) \/ ShiftDragMouse(room, date)
  \/ \E date \in MouseDates : DragMouse(date)
  \/ ReleaseMouse
  \/ PressEscape \/ PressBackspace \/ PressReturn \/ CancelDescription \/ EnterDescription
  \/ \E room \in Rooms : DragAtom(room)
  \/ ReleaseAtom
=============================================================================
