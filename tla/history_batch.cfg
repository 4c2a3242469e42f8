SPECIFICATION Spec
CONSTANTS
  NReq = 3
  NHandlers = 2
  Bodies <- ShortBodies
INVARIANTS
  NoLostWakeup
PROPERTIES
  ImplementsBatch
  Terminates
