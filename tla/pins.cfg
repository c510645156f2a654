SPECIFICATION Spec
CONSTANTS
  Pin <- MCPin
  HandlerPin <- MCHandlerPin
INVARIANTS
  PinsAreAsWanted
  InterruptsAreKept
