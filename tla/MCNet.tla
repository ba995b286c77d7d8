--------------------------------- MODULE MCNet ---------------------------------
(***************************************************************************)
(* Instances of Net for TLC.                                               *)
(***************************************************************************)
EXTENDS Net, TLC

CONSTANTS c1, c2, f1, f2, part   \* model values

MCFields == {f1, f2}
MCPart == {part}

MCReservation(id, revision, fields) ==
  [type |-> "Reservation", id |-> id, revision |-> revision, fields |-> fields, parts |-> <<part>>]

Store == [op |-> "StoreNew", item |-> MCReservation(0, 0, f1)]
StorePerson == [op |-> "StoreNew", item |-> [MCReservation(0, 0, f1) EXCEPT !.type = "Person"]]
Update == [op |-> "Update", item |-> MCReservation(1, 1, f2)]
Erase == [op |-> "EraseAllData"]

\* A batch whose person does not reach the server, and which adds to the streams and clears them.
MCStreamBatches == { <<Store, StorePerson, Erase>> }

\* A batch whose results tell whether it was executed first or second: then its update comes late.
MCProgressBatches == { <<Store, StorePerson, Update>> }

MCClearBatches == { <<Store>>, <<Erase>> }

MCSymmetry == Permutations({c1, c2})

MCEndpoints == { [type |-> "Reservation", service |-> "", id |-> 0] }
=============================================================================
