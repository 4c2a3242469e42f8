SPECIFICATION Spec
CONSTANTS
  T1 = T1
  T2 = T2
  T3 = T3
  Threads = {T1, T2, T3}
  Calls <- AllCalls
  Test <- Reached
  Fun <- Onward
  Limit <- OnceOrTwice
INVARIANTS
  NoMissedWakeup
PROPERTIES
  ImplementsAtomic
CHECK_DEADLOCK FALSE
