--------------------------- MODULE MCPlanningBoard ---------------------------
(***************************************************************************)
(* An instance of PlanningBoard for TLC: addresses are interchangeable.    *)
(***************************************************************************)
EXTENDS PlanningBoard, TLC

CONSTANTS a1, a2, r1, r2   \* model values

MCAddresses == {a1, a2}
MCRooms == {r1, r2}
MCDates == 0 .. 3
Symmetry == Permutations(MCAddresses) \cup Permutations(MCRooms)
=============================================================================
