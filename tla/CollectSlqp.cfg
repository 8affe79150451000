SPECIFICATION Spec
CONSTANTS
  Pool = 8
  TooLong = {2}
  Wanted = 4
  MaxCrashes = 3
  Tears = TRUE
INVARIANTS ArchiveWhole
PROPERTIES WorkReused ArchiveFinal ImplementsWalk Publishes
