SPECIFICATION Spec
CONSTANTS
  ServoCount = 2
  Ticks = {3, 4}
  DEFAULT = 3
  REFRESH = 12
  Width = 32
  Half = 4
  Late = 1
  Lag = 1
INVARIANTS
  TypeOK
  PulsesAreNotTooLong
  NoMatchIsMissed
PROPERTIES
  PulsesAreNotTooShort
  RefreshedInTime
