SPECIFICATION Spec
CONSTANTS
  Series = {s1}
  Clients = {c1, c2}
  MaxValue = 1
  HourLen = 2
  HoursPerDay = 2
  BatchSize = 2
  MaxSpan = 3
  NoUnit = NoUnit
  NoBound = NoBound
  Times <- MCTimes
  PointLists <- MCPointLists
  Units <- MCUnits
  Convertible <- MCConvertible
  ConvertUnit <- MCConvertUnit
  Bounds <- MCBounds
PROPERTIES
  OutOfBoundsRejected
SYMMETRY ClientSymmetry
CHECK_DEADLOCK FALSE
