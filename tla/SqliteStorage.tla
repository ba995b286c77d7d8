---------------------------- MODULE SqliteStorage ----------------------------
(***************************************************************************)
(* persistence/sqlite/sqlitestorage.cpp: what each SQL operation of        *)
(* SqliteStorage does to the database, as operators on a database value.   *)
(*                                                                         *)
(* A table is the sequence of its rows: the id of a row is its position,   *)
(* because AUTOINCREMENT gives out 1, 2, 3, ... and no statement of the    *)
(* code removes a row of h_hotel or h_reservation short of dropping the    *)
(* table.  The rows of the dependent tables (h_room and h_room_category of *)
(* a hotel, h_reservation_atom of a reservation) are the "parts" of the    *)
(* row they reference; the scalar columns (name; description, status,      *)
(* adults, children) are its "fields".  SQLite itself is external: a       *)
(* statement does what its SQL text says, and sqlite3_prepare_v2 compiles  *)
(* the first statement of its text only.                                   *)
(***************************************************************************)
EXTENDS Naturals, Sequences

CONSTANTS Fields,   \* values of the scalar columns of a row
          Part      \* rooms and categories of a hotel, atoms of a reservation

\* The tables h_hotel and h_reservation.
Tables == {"Hotel", "Reservation"}

\* The alternatives of op::StreamableTypePtr, and the null pointer.
ItemTypes == Tables \cup {"Person", "Null"}

\* An object in memory.  id 0 is that of an object which was never stored.
Item == [type : ItemTypes, id : Nat, revision : Nat, fields : Fields, parts : Seq(Part)]

Row == [revision : Nat, fields : Fields, parts : Seq(Part)]

Database == [Tables -> Seq(Row)]

EmptyDatabase == [t \in Tables |-> << >>]

-----------------------------------------------------------------------------
(* Reading *)

ItemAt(db, table, id) ==
  [type |-> table, id |-> id, revision |-> db[table][id].revision,
   fields |-> db[table][id].fields, parts |-> db[table][id].parts]

\* The reservation queries join h_reservation with h_reservation_atom: a row
\* without atoms has no result row.  The hotel queries read h_hotel alone.
IsLoadable(db, table, id) ==
  /\ id \in DOMAIN db[table]
  /\ table = "Reservation" => db[table][id].parts # << >>

LoadAll(db, table) == {ItemAt(db, table, id) : id \in {i \in DOMAIN db[table] : IsLoadable(db, table, i)}}

\* nullopt is the empty set
LoadById(db, table, id) == {ItemAt(db, table, i) : i \in {j \in {id} : IsLoadable(db, table, j)}}

-----------------------------------------------------------------------------
(* Writing *)

\* The id and revision which storing gives to the object.  A mutated form forgets the latter.
IdentifiedItem(db, item) == [item EXCEPT !.id = Len(db[item.type]) + 1]
StoredItem(db, item) == [item EXCEPT !.id = Len(db[item.type]) + 1, !.revision = 1]

StoreNewItem(db, item) ==
  [db EXCEPT ![item.type] = Append(@, [revision |-> 1, fields |-> item.fields, parts |-> item.parts])]

\* A mutated form of the next condition: "WHERE id = ?".
MatchesId(db, item) == item.id \in DOMAIN db[item.type]

\* "WHERE id = ? AND revision = ?" matches exactly one row.
Matches(db, item) ==
  /\ item.id \in DOMAIN db[item.type]
  /\ db[item.type][item.id].revision = item.revision

\* Updating a hotel writes its name only; updating a reservation replaces its atoms.
UpdateItem(db, item) ==
  [db EXCEPT ![item.type][item.id] =
     [revision |-> @.revision + 1,
      fields   |-> item.fields,
      parts    |-> IF item.type = "Hotel" THEN @.parts ELSE item.parts]]

\* The statement "reservation.delete" holds two DELETEs; the one on h_reservation
\* comes second and is never compiled.
DeleteReservationById(db, id) ==
  IF id \in DOMAIN db["Reservation"]
    THEN [db EXCEPT !["Reservation"][id].parts = << >>]
    ELSE db

\* All tables are dropped and created again, and their sequences with them.
DeleteAll == EmptyDatabase
=============================================================================
