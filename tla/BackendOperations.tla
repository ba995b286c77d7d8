-------------------------- MODULE BackendOperations --------------------------
(***************************************************************************)
(* The operations of persistence/op/operations.h as SqliteBackend executes *)
(* them (executeOperation): whether one succeeds, what it does to the      *)
(* storage and what it tells the streams.  Assertions are those of a       *)
(* release build, which continues past them.                               *)
(***************************************************************************)
EXTENDS DataStreams

\* op::Operation
Operation ==
  [op : {"EraseAllData"}]
    \cup [op : {"StoreNew", "Update"}, item : Item]
    \cup [op : {"Delete"}, type : {"Hotel", "Reservation", "Person"}, id : Nat]

Status == {"Successful", "Error"}    \* TaskResultStatus, of executed operations

Succeeds(db, op) ==
  CASE op.op = "EraseAllData" -> TRUE
    [] op.op = "StoreNew"     -> op.item.type # "Person"
    [] op.op = "Update"       -> op.item.type \in Tables /\ op.item.id # 0 /\ Matches(db, op.item)
    [] op.op = "Delete"       -> op.type = "Reservation"

\* Storing a null pointer succeeds and stores nothing.
Effect(db, op) ==
  IF ~Succeeds(db, op) THEN db ELSE
  CASE op.op = "EraseAllData" -> DeleteAll
    [] op.op = "StoreNew"     -> IF op.item.type = "Null" THEN db ELSE StoreNewItem(db, op.item)
    [] op.op = "Update"       -> UpdateItem(db, op.item)
    [] op.op = "Delete"       -> DeleteReservationById(db, op.id)

\* The changes an operation puts on a stream, given the database before it.  A
\* successful update raises the revision of the client's object and passes it on whole.
ChangesFor(db, op, e) ==
  IF ~Succeeds(db, op) THEN << >> ELSE
  CASE op.op = "EraseAllData" -> ClearChanges(e)
    [] op.op = "StoreNew"     ->
         IF op.item.type = "Null" THEN << >>
         ELSE LET item == StoredItem(db, op.item) IN ItemChanges(e, item, Added({item}))
    [] op.op = "Update"       ->
         LET item == [op.item EXCEPT !.revision = @ + 1] IN ItemChanges(e, item, Updated({item}))
    [] op.op = "Delete"       -> RemoveChanges(e, op.id)

\* A batch runs up to its first error.
Failed(rs) == \E i \in DOMAIN rs : rs[i] = "Error"
=============================================================================
