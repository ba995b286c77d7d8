--------------------------- MODULE MCPlanningWidget ---------------------------
(***************************************************************************)
(* An instance of PlanningWidget for TLC.                                  *)
(***************************************************************************)
EXTENDS PlanningWidget

CONSTANTS r1, r2, columns   \* model values

MCRooms == {r1, r2}
MCDates == 0 .. 2
MCFields == {columns}

Stay(room, from, to) == [room |-> room, from |-> from, to |-> to]

MCStored == << <<Stay(r1, 0, 1)>> >>
MCTheirs == { <<Stay(r1, 1, 2)>>, <<Stay(r1, 0, 1), Stay(r2, 1, 2)>> }
=============================================================================
