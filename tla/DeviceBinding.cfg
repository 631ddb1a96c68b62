\* One device that may connect again on a second socket, two requests at a time,
\* one error or stop.
CONSTANTS
  s1 = s1
  s2 = s2
  d1 = d1
  d2 = d2
  Sockets = {s1, s2}
  Devices = {d1, d2}
  DeviceOf <- OneDevice
  Tasks = {t1, t2}
  Monitor = monitor
  MaxFaults = 1
  MaxResolved = 1
  None = None
CHECK_DEADLOCK FALSE
SPECIFICATION FairSpec
INVARIANT OnlyApprovedDevicesOpen
PROPERTY ClosedSocketForgotten
