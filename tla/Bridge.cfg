SPECIFICATION Spec
CONSTANTS
  Setups <- SomeSetups
  MaxCalls = 2
INVARIANTS
  TypeOK
  ToldIsTrue
  SuccessIsGranted
  VerifiedWasSeen
  OutcomesAreTold
  ForwardedIsValid
PROPERTIES
  DispatchIsAwaited
  LockIsFreed
CHECK_DEADLOCK FALSE
