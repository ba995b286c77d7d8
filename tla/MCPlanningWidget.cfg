SPECIFICATION WidgetSpec
CONSTANTS
  r1 = r1
  r2 = r2
  columns = columns
  Rooms <- MCRooms
  Dates <- MCDates
  MouseDates <- MCDates
  Fields <- MCFields
  Part <- Atom
  Stored <- MCStored
  Theirs <- MCTheirs
  Ids = {1, 2, 3, 4}
  Addresses = {1, 2, 3, 4, 5}
  MaxAtoms = 2
  MaxReservations = 0
  MaxInteractions = 2
  MaxOthers = 2
INVARIANTS
  GhostsAreFree ThrowsOnlyOnDoubleBooking SceneShowsStorage
PROPERTIES
  CommitsFit
