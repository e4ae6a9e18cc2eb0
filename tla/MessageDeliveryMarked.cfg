CONSTANTS
  phone = phone 
  NumMessages = 1
  NumUsers = 1
  Device = {phone}
  Owner <- MCOwner
  NumSockets = 1
  DeviceOf <- MCDeviceOf
  SyncLimit = 1
  MaxLoad = 3
  MaxFaults = 0
SPECIFICATION Spec
INVARIANT DeliveredWasSent
CHECK_DEADLOCK FALSE
