--------------------------- MODULE MCSqliteBackend ---------------------------
(***************************************************************************)
(* Instances of SqliteBackend for TLC.                                     *)
(***************************************************************************)
EXTENDS SqliteBackendStore, TLC

CONSTANTS f1, f2, part   \* model values

MCFields == {f1, f2}
MCPart == {part}

MCItem(type, id, revision, fields) ==
  [type |-> type, id |-> id, revision |-> revision, fields |-> fields, parts |-> <<part>>]

StoreOp(type) == [op |-> "StoreNew", item |-> MCItem(type, 0, 0, f1)]
UpdateOp(type, id, revision, fields) == [op |-> "Update", item |-> MCItem(type, id, revision, fields)]
DeleteOp(type, id) == [op |-> "Delete", type |-> type, id |-> id]
Erase == [op |-> "EraseAllData"]

\* Batches whose interplay the streams have to survive: stores, updates of the same
\* revision, a deletion, the erasure, and batches that fail after a first success.
StreamBatches ==
  { <<StoreOp("Reservation")>>,
    <<UpdateOp("Reservation", 1, 1, f2)>>,
    <<DeleteOp("Reservation", 1)>>,
    <<Erase>>,
    <<StoreOp("Reservation"), StoreOp("Hotel"), UpdateOp("Reservation", 1, 1, f2)>>,
    <<Erase, StoreOp("Person")>> }

StreamEndpoints ==
  { [type |-> "Reservation", service |-> "", id |-> 0],
    [type |-> "Reservation", service |-> "by_id", id |-> 1],
    [type |-> "Hotel", service |-> "", id |-> 0] }

\* For the progress of both threads and the implementation of the abstract store, with two
\* streams side by side: a batch that is committed; one that fails after it has stored and
\* deleted, or that, once the other was executed, deletes a reservation and updates it; an
\* empty one; and a stream without a handler.
StoreBatches ==
  { <<StoreOp("Reservation"), StoreOp("Hotel"), UpdateOp("Reservation", 1, 1, f2)>>,
    <<StoreOp("Reservation"), DeleteOp("Reservation", 1), UpdateOp("Reservation", 1, 2, f2)>>,
    << >> }

StoreEndpoints ==
  { [type |-> "Reservation", service |-> "by_id", id |-> 1],
    [type |-> "NullStream", service |-> "", id |-> 0] }
=============================================================================
