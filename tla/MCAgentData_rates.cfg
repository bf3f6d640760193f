SPECIFICATION Spec
CONSTANTS
  Intervals = {"60000", "1000"}
  Default = "60000"
  Half <- MCHalf
  MaxMoved = 2
INVARIANTS TypeOK NotOverstated
PROPERTIES DetailsArrive
