-------------------------- MODULE MCEditReservation --------------------------
(***************************************************************************)
(* Instances of EditReservation for TLC.                                   *)
(***************************************************************************)
EXTENDS EditReservation

CONSTANTS d1, d2, d3, part   \* model values

MCPart == {part}

\* The form shows up to one adult: a reservation of two does not fit.
MCFields == [description : {d1, d2, d3}, adults : 0 .. 2]

\* The user and another client both change the description, or both the number of adults, or
\* each of them something else.
MCStored == [description |-> d1, adults |-> 0]
MCOurs == {[description |-> d2, adults |-> 1]}
MCTheirs == {[description |-> d3, adults |-> 0], [description |-> d1, adults |-> 2]}
=============================================================================
