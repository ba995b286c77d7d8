---------------------------- MODULE PlanningBoard ----------------------------
(***************************************************************************)
(* hotel/planning.cpp: the reservations of a hotel and, for each room, the *)
(* row of pointers to the atoms that occupy it, sorted by date.  The       *)
(* caller builds a reservation with the methods of hotel/reservation.cpp   *)
(* and gives it to the board, as the tools of the planning widget do.      *)
(*                                                                         *)
(* A room without an entry in _rooms has an empty row here: no method      *)
(* tells them apart.                                                       *)
(***************************************************************************)
EXTENDS Reservations, FiniteSetsExt, SequencesExt

CONSTANTS Ids,         \* ids of reservations; the board does not ask them to be unique
          Addresses,   \* bound: where reservations on the board may live
          MaxAtoms,    \* bound: atoms of the reservation being built
          MaxReservations   \* bound: reservations added to a board that is used by itself

ASSUME BoardAssumption == Ids \subseteq Nat /\ MaxAtoms \in Nat \ {0} /\ MaxReservations \in Nat

Forever == 2147483647   \* std::numeric_limits<int>::max()

\* A std::unique_ptr<Reservation> on the board, and a const ReservationAtom* with its atom
BoardReservation == [address : Addresses, id : Nat, revision : Nat, atoms : Seq(Atom)]
RowAtom == [address : Addresses, index : Nat \ {0}, from : Dates, to : Dates]

VARIABLES
  draft,         \* the atoms of the reservation being built
  reservations,  \* _reservations
  rooms,         \* _rooms
  outcome        \* of the last call of addReservation: none, a pointer, nullptr or an exception

vars == <<draft, reservations, rooms, outcome>>

Init ==
  /\ draft = << >>
  /\ reservations = << >>
  /\ rooms = [room \in Rooms |-> << >>]
  /\ outcome = "none"

-----------------------------------------------------------------------------
(* Queries *)

IsFree(room, period) == \A i \in DOMAIN rooms[room] : ~Intersects(rooms[room][i], period)

\* A mutated form of the next operator: only the first atom is looked at.
CanStartReservation(atoms) == IsValid(atoms) /\ IsFree(atoms[1].room, atoms[1])

CanAddReservation(atoms) ==
  IsValid(atoms) /\ \A i \in DOMAIN atoms : IsFree(atoms[i].room, atoms[i])

\* upper_bound finds the first atom of the row which ends after the date.
EndingAfter(row, date) == {i \in DOMAIN row : date < row[i].to}

\* A mutated form: an atom which ends on the date is found, too.
EndingFrom(row, date) == {i \in DOMAIN row : date <= row[i].to}

AvailableDaysFound(row, found, date) ==
  IF found = {} THEN Forever ELSE Max({0, row[Min(found)].from - date})

AvailableDaysNoLaterThan(room, date) ==
  AvailableDaysFound(rooms[room], EndingFrom(rooms[room], date), date)

GetAvailableDaysFrom(room, date) ==
  AvailableDaysFound(rooms[room], EndingAfter(rooms[room], date), date)

\* Of a board with reservations: from the earliest front to the latest back of a row.
GetPlanningExtent ==
  LET rows == {rooms[room] : room \in {r \in Rooms : rooms[r] # << >>}}
  IN  [from |-> Min({row[1].from : row \in rows}), to |-> Max({row[Len(row)].to : row \in rows})]

GetReservationsInPeriod(period) == {i \in DOMAIN reservations : Intersects(DateRange(reservations[i].atoms), period)}

-----------------------------------------------------------------------------
(* Building a reservation *)

BoardUnchanged == UNCHANGED <<reservations, rooms, outcome>>

\* The constructor takes any period.
NewReservation(atom) ==
  /\ draft' = <<atom>>
  /\ BoardUnchanged

AddAtom(atom) ==
  /\ Len(draft) < MaxAtoms
  /\ CanAddAtom(draft, atom)
  /\ draft' = Append(draft, atom)
  /\ BoardUnchanged

AddContinuation(room, date) ==
  /\ Len(draft) < MaxAtoms
  /\ CanAddContinuation(draft, date)
  /\ draft' = Continued(draft, room, date)
  /\ BoardUnchanged

RemoveLastAtom ==
  /\ draft' = RemovedLast(draft)
  /\ BoardUnchanged

JoinAdjacentAtoms ==
  /\ draft' = Joined(draft)
  /\ BoardUnchanged

\* atoms()[i].setRoomId(), as MoveReservationTool does
SetRoom(i, room) ==
  /\ i \in DOMAIN draft
  /\ draft' = [draft EXCEPT ![i].room = room]
  /\ BoardUnchanged

-----------------------------------------------------------------------------
(* Changing the board *)

\* A const ReservationAtom* and what it points to
PointerTo(address, atoms, n) == [address |-> address, index |-> n, from |-> atoms[n].from, to |-> atoms[n].to]

\* std::sort, of a row by the dates at which its atoms begin: each atom goes to the place that
\* leaves room for those before it.
Sorted(row) ==
  LET Precedes(m, n) == row[m].from < row[n].from \/ (row[m].from = row[n].from /\ m < n)
      place == [n \in DOMAIN row |-> 1 + Cardinality({m \in DOMAIN row : Precedes(m, n)})]
  IN  [i \in DOMAIN row |-> row[CHOOSE n \in DOMAIN row : place[n] = i]]

\* insertAtom, of one row
InsertedAtom(row, pointer) == Sorted(Append(row, pointer))

\* The row of a room with the atoms of a reservation.
WithAtoms(row, room, address, atoms) ==
  LET with[n \in 0 .. Len(atoms)] ==
        IF n = 0 THEN row
        ELSE IF atoms[n].room = room
          THEN InsertedAtom(with[n - 1], PointerTo(address, atoms, n))
          ELSE with[n - 1]
  IN  with[Len(atoms)]

UsedAddresses == {reservations[i].address : i \in DOMAIN reservations}

\* The new reservation is on the heap, where no other one is.
PutOn(address, id, revision, atoms) ==
  /\ address \in Addresses \ UsedAddresses
  /\ CanAddReservation(atoms)
  /\ rooms' = [room \in Rooms |-> WithAtoms(rooms[room], room, address, atoms)]
  /\ reservations' = Append(reservations, [address |-> address, id |-> id, revision |-> revision, atoms |-> atoms])
  /\ outcome' = "pointer"

AddReservation(address, id) ==
  /\ Len(reservations) < MaxReservations
  /\ PutOn(address, id, 1, draft)
  /\ draft' = << >>

\* The exception destroys the reservation.
AddReservationThrows ==
  /\ ~CanAddReservation(draft)
  /\ outcome' = "exception"
  /\ draft' = << >>
  /\ UNCHANGED <<reservations, rooms>>

\* The first pointer to an atom is erased.
ErasedAtom(row, address, n) ==
  LET found == {i \in DOMAIN row : row[i].address = address /\ row[i].index = n}
  IN  IF found = {} THEN row ELSE RemoveAt(row, Min(found))

\* A mutated form of the next operator: only the first atom leaves its row.
WithoutFirstAtom(row, room, address, atoms) ==
  IF atoms # << >> /\ atoms[1].room = room THEN ErasedAtom(row, address, 1) ELSE row

\* The row of a room without the atoms of a reservation.
WithoutAtoms(row, room, address, atoms) ==
  LET without[n \in 0 .. Len(atoms)] ==
        IF n = 0 THEN row
        ELSE IF atoms[n].room = room
          THEN ErasedAtom(without[n - 1], address, n)
          ELSE without[n - 1]
  IN  without[Len(atoms)]

TakeOff(i) ==
  /\ rooms' = [room \in Rooms |->
                 WithoutAtoms(rooms[room], room, reservations[i].address, reservations[i].atoms)]
  /\ reservations' = RemoveAt(reservations, i)
  /\ UNCHANGED <<draft, outcome>>

\* The overload that takes a pointer to a reservation on the board.
RemoveReservation(i) == i \in DOMAIN reservations /\ TakeOff(i)

\* The overload that takes an id removes the first reservation which has it.
RemoveReservationById(id) ==
  \E i \in DOMAIN reservations :
    /\ reservations[i].id = id
    /\ \A j \in 1 .. i - 1 : reservations[j].id # id
    /\ TakeOff(i)

Clear ==
  /\ reservations' = << >>
  /\ rooms' = [room \in Rooms |-> << >>]
  /\ UNCHANGED <<draft, outcome>>

Next ==
  \/ \E room \in Rooms, period \in Period :
       LET atom == [room |-> room, from |-> period.from, to |-> period.to]
       IN  NewReservation(atom) \/ AddAtom(atom)
  \/ \E room \in Rooms, date \in Dates : AddContinuation(room, date)
  \/ RemoveLastAtom
  \/ JoinAdjacentAtoms
  \/ \E i \in 1 .. MaxAtoms, room \in Rooms : SetRoom(i, room)
  \/ \E address \in Addresses, id \in Ids : AddReservation(address, id)
  \/ AddReservationThrows
  \/ \E i \in DOMAIN reservations : RemoveReservation(i)
  \/ \E id \in Ids : RemoveReservationById(id)
  \/ Clear

Spec == Init /\ [][Next]_vars

-----------------------------------------------------------------------------
(* Properties *)

\* Every variable has its type.
TypeOK ==
  /\ draft \in Seq(Atom) /\ Len(draft) <= MaxAtoms
  /\ reservations \in Seq(BoardReservation)
  /\ rooms \in [Rooms -> Seq(RowAtom)]
  /\ outcome \in {"none", "pointer", "nullptr", "exception"}

\* No room is given to two reservations for the same night (canAddReservation).
NoDoubleBooking ==
  \A i, j \in DOMAIN reservations :
    i # j => Nights(reservations[i].atoms) \cap Nights(reservations[j].atoms) = {}

\* Pointers to the atoms of a reservation which are in a room, and to those of all reservations
\* on the board.
PointersTo(room, address, atoms) ==
  {PointerTo(address, atoms, n) : n \in {k \in DOMAIN atoms : atoms[k].room = room}}

PointersInto(room) == UNION {PointersTo(room, r.address, r.atoms) : r \in ToSet(reservations)}

\* The pointers in the rows are those to the atoms of the reservations on the board: none
\* dangles and none is missing or doubled.  The binary search of getAvailableDaysFrom and
\* front() and back() in getPlanningExtent rely on rows in which each atom ends before the
\* next one begins.
RowsPointToReservations ==
  \A room \in Rooms :
    /\ ToSet(rooms[room]) = PointersInto(room)
    /\ Len(rooms[room]) = Cardinality(PointersInto(room))
    /\ \A i \in DOMAIN rooms[room] \ {1} : rooms[room][i - 1].to <= rooms[room][i].from

Taken(room, date) == \E i \in DOMAIN reservations : <<room, date>> \in Nights(reservations[i].atoms)

\* getAvailableDaysFrom counts the nights up to the first one which is taken, "if the room is
\* unavailable 0 ..., if always available max"; getPlanningExtent encompasses all of the
\* reservations, and nothing more.
QueriesTellTheTruth ==
  /\ \A room \in Rooms, date \in Dates :
       LET taken == {d \in Dates : d >= date /\ Taken(room, d)}
       IN  GetAvailableDaysFrom(room, date) = IF taken = {} THEN Forever ELSE Min(taken) - date
  /\ reservations # << >> =>
       LET ranges == {DateRange(reservations[i].atoms) : i \in DOMAIN reservations}
       IN  GetPlanningExtent = [from |-> Min({r.from : r \in ranges}), to |-> Max({r.to : r \in ranges})]

\* Joining atoms leaves a valid reservation with the same nights in which every atom is a
\* change of room.
JoiningKeepsNights ==
  [][JoinAdjacentAtoms /\ IsValid(draft) =>
       /\ Nights(draft') = Nights(draft)
       /\ IsValid(draft') /\ Length(draft') = Length(draft)
       /\ \A i \in DOMAIN draft' \ {1} : draft'[i].room # draft'[i - 1].room]_vars
=============================================================================
