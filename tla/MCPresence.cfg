CONSTANTS
  phone = phone
  laptop = laptop
  Device = {phone, laptop}
  NumSockets = 3
  DeviceOf <- MCDeviceOf
  Conversation = {c1, c2}
  MaxEvents = 2
  MaxLoad = 3
  MaxFaults = 1
SPECIFICATION Spec
INVARIANTS TypeOK ConnectedIsRegistered HeartbeatKeepsStatus TypingIsTimed GoneIsForgotten
CHECK_DEADLOCK FALSE
