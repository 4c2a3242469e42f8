SPECIFICATION Spec
CONSTANTS
  NReq = 2
  NHandlers = 2
  Bodies <- MixedBodies
INVARIANTS
  NoUseAfterDestroy
  NoQueryDropped
  MarkedAfterInserts
  WaitsNeverOvershoot
  StepErrorLosesTheRest
