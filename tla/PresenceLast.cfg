CONSTANTS
  phone = phone
  laptop = laptop
  Device = {phone, laptop}
  NumSockets = 3
  DeviceOf <- MCDeviceOf
  Conversation = {c1, c2}
  MaxEvents = 2
  MaxLoad = 3
  MaxFaults = 1
SPECIFICATION Spec
INVARIANT LastDisconnectIsOffline
CHECK_DEADLOCK FALSE
