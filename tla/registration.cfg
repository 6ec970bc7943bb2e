SPECIFICATION Spec
CONSTANTS
  Calls <- MCCalls
  Api <- MCApi
  Type <- MCType
  Pointer <- MCCalls
  Name <- MCName
  Override <- MCOverride
CHECK_DEADLOCK FALSE
INVARIANTS TypeOK HandlersDecode ReturnedIsStarted
