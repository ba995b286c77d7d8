SPECIFICATION Spec
CONSTANTS
  a1 = a1
  a2 = a2
  r1 = r1
  r2 = r2
  Rooms <- MCRooms
  Dates <- MCDates
  Ids = {1, 2}
  Addresses <- MCAddresses
  MaxAtoms = 3
  MaxReservations = 2
SYMMETRY Symmetry
INVARIANTS
  NoDoubleBooking RowsPointToReservations QueriesTellTheTruth
PROPERTIES
  JoiningKeepsNights
