SPECIFICATION FairKernelSpec
CONSTANTS
  NumCores = 2
  AndroidCoreCount = 2
  MaxSecondaryCores = 1
  Payloads = {1}
  GuestCalls = {"CPU_ON", "CPU_OFF"}
  SerialisedCallers = TRUE
  FirmwareMayFail = FALSE
  Parked = Parked
PROPERTY RequestedCoreStarts
CHECK_DEADLOCK FALSE
