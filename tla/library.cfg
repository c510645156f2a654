SPECIFICATION LibrarySpec
CONSTANTS
  Value <- MCValue
  PulseRange <- MCPulseRange
  ByteSize = 8
  WordSize = 32
  LongSize = 128
  Ints <- MCInts
  Halves <- MCHalves
  ADC <- MCADC
  Wrap = 16
  Ms = 4
  Lag = 1
  MinLevel = 3
  Delays = {0, 1, 2}
  Timeouts = {1, 10}
  IntSize = 32
  MaxAge = 18
INVARIANTS
  TypeOK
  ReadsWhatWasWritten
  PulseIsWithinLimits
  PositionIsWithinLimits
  NumbersArrive
  WidthIsTrue
  TimeoutIsKept
  BusyWaitIsExact
PROPERTY WaitsEnd
CHECK_DEADLOCK FALSE
