CONSTANTS
  phone = phone 
  NumMessages = 2
  NumUsers = 1
  Device = {phone}
  Owner <- MCOwner
  NumSockets = 2
  DeviceOf <- MCDeviceOf
  SyncLimit = 1
  MaxLoad = 3
  MaxFaults = 1
SPECIFICATION FairSpec
INVARIANTS TypeOK 
PROPERTIES StatusNeverGoesBack 
CHECK_DEADLOCK FALSE
