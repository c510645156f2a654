SPECIFICATION Spec
CONSTANTS
  Period = 4
  TickMicros = 2
  Ms = 5
  FractUnit = 1
  Half = 4
  MaxDelay = 2
  MaxTime = 21
INVARIANTS
  TypeOK
  MillisNeverDrifts
  ValuesWereTrue
  DelayWaits
CHECK_DEADLOCK FALSE
