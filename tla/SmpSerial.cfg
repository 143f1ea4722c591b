SPECIFICATION FairSpec
CONSTANTS
  NumCores = 3
  AndroidCoreCount = 3
  MaxSecondaryCores = 2
  Payloads = {1}
  GuestCalls = {"CPU_ON", "CPU_OFF", "SYSTEM_OFF"}
  SerialisedCallers = TRUE
  FirmwareMayFail = TRUE
  Parked = Parked
INVARIANT EntryContextPaired
PROPERTIES ImplementsCoreStart ArmedCoreStarts
CHECK_DEADLOCK FALSE
