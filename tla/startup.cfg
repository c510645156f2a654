SPECIFICATION Spec
CONSTANTS
  Function = {"irISR", "once"}
  Once = {"once"}
INVARIANT BoardIsReady
PROPERTIES
  CallsWhatIsAttached
  EdgesAreServed
