SPECIFICATION RecordsSpec
CONSTANTS
  Top = 2
  Duration <- MCDuration
  MinShorter <- MCMinShorter
  Retention <- MCRetention
  RunEvery = 2
  CleanEvery = 1
  Readings = {6}
INVARIANTS RecordsTypeOK NoGap NoneSkipped Faithful
