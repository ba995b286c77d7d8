----------------------------- MODULE DataStreams -----------------------------
(***************************************************************************)
(* The data streams of persistence/: the changes a stream carries, what    *)
(* the handlers of sqlitebackend.cpp put on a stream for an operation, and *)
(* what VectorDataStreamObserver makes of the changes it is given.         *)
(*                                                                         *)
(* Items in one change carry different ids (they are the rows of a table), *)
(* so a vector of items is a set here.                                     *)
(***************************************************************************)
EXTENDS SqliteStorage

\* An endpoint of the backend: the type streamed and the service.  The services
\* "hotel.by_id" and "reservation.by_id" are "by_id"; "unknown" stands for a name no
\* handler is registered for.  id is the option of a by_id stream.
Endpoint == [type : Tables \cup {"NullStream"}, service : {"", "by_id", "unknown"}, id : Nat]

\* DataStreamManager::findHandler() != nullptr
HasHandler(e) == e.service = "" \/ (e.service = "by_id" /\ e.type # "NullStream")

-----------------------------------------------------------------------------
(* Changes *)

Added(items)   == [kind |-> "added", items |-> items]
Updated(items) == [kind |-> "updated", items |-> items]
Removed(ids)   == [kind |-> "removed", ids |-> ids]
Cleared        == [kind |-> "cleared"]
Initialized    == [kind |-> "initialized"]

Change ==
  [kind : {"added", "updated"}, items : SUBSET Item]
    \cup [kind : {"removed"}, ids : SUBSET Nat]
    \cup {Cleared, Initialized}

-----------------------------------------------------------------------------
(* What the handlers emit *)

\* The items of a stream as the storage holds them.
Loaded(db, e) ==
  IF e.type \notin Tables \/ ~HasHandler(e) THEN {}
  ELSE IF e.service = "by_id" THEN LoadById(db, e.type, e.id) ELSE LoadAll(db, e.type)

\* DataStreamHandler::initialize: a stream of all items gets its items even if there are
\* none, a single-id stream only if the item exists.
InitialChanges(db, e) ==
  IF e.type \notin Tables \/ ~HasHandler(e) \/ (e.service = "by_id" /\ Loaded(db, e) = {})
    THEN << >>
    ELSE <<Added(Loaded(db, e))>>

\* The handler of a stream for a change of one item: a single-id stream passes on the
\* change if it concerns its item.
ItemChanges(e, item, change) ==
  IF HasHandler(e) /\ e.type = item.type /\ (e.service = "by_id" => e.id = item.id)
    THEN <<change>> ELSE << >>

\* A mutated form of the next operator: the id in place of a vector of ids.
RemoveChangesOfOne(e, id) ==
  IF HasHandler(e) /\ e.type = "Reservation" /\ (e.service = "by_id" => e.id = id)
    THEN <<[kind |-> "removed", id |-> id]>> ELSE << >>

RemoveChanges(e, id) ==
  IF HasHandler(e) /\ e.type = "Reservation" /\ (e.service = "by_id" => e.id = id)
    THEN <<Removed({id})>> ELSE << >>

\* A mutated form of the next operator: a single-id stream does not pass on a clear.
ClearChangesOfAll(e) == IF e.service = "" /\ e.type \in Tables THEN <<Cleared>> ELSE << >>

ClearChanges(e) == IF HasHandler(e) /\ e.type \in Tables THEN <<Cleared>> ELSE << >>

-----------------------------------------------------------------------------
(* What an observer holds: VectorDataStreamObserver *)

\* Assigning a hotel appends the rooms and categories of the other one to its own
\* (Hotel::operator=); a reservation is replaced.
AssignItem(old, new) ==
  IF new.type = "Hotel" THEN [new EXCEPT !.parts = old.parts \o new.parts] ELSE new

ReplaceItems(view, items) ==
  {IF \E n \in items : n.id = old.id
     THEN AssignItem(old, CHOOSE n \in items : n.id = old.id)
     ELSE old : old \in view}

ApplyChange(view, change) ==
  CASE change.kind = "added"       -> view \cup change.items
    [] change.kind = "updated"     -> ReplaceItems(view, change.items)
    [] change.kind = "removed"     -> {i \in view : i.id \notin change.ids}
    [] change.kind = "cleared"     -> {}
    [] change.kind = "initialized" -> view

\* What an observer holds after it was told the changes of a log: View(log)[n] after the
\* first n of them.
View(log) ==
  LET view[n \in 0 .. Len(log)] ==
        IF n = 0 THEN {} ELSE ApplyChange(view[n - 1], log[n])
  IN  view

Contents(log) == View(log)[Len(log)]
=============================================================================
