CONSTANTS
  c1 = c1  c2 = c2
  Contract <- MCContract
  NoRow = NoRow
  Date = {1, 2}
  MaxFaults = 1
  MaxRebuilds = 1
  Raised <- MCRaised
  Ends = {1}
  AsOfDates = {1}
  Now = 1
  Limit = 1
  SkewedClocks = FALSE
  MaxSaves = 3
  MaxSnapshots = 1
SPECIFICATION ApartSpec
INVARIANTS TypeOK CaughtUpMeansExact AsOfIsPast
PROPERTY RenewalsDrain
CHECK_DEADLOCK FALSE
