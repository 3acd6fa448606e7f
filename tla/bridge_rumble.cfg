SPECIFICATION Spec
CONSTANTS
  c1 = c1
  c2 = c2
  p1 = p1
  NoConn = NoConn
  MaxClients = 2
  BufferSize = 1
  RecvMax = 1
  DefaultDuration = 2
  MaxDuration = 2
  Conns <- MCConns
  Commands <- MCCommands
  DeviceIds = {2}
  Profiles = {p1}
  RumbleProfiles = {p1}
  DeviceEvents = {}
  MaxXQueue = 1
  MaxInbox = 1
  MayStop = TRUE
INVARIANTS
  ActiveIsDemand
  MotorFollowsDemand
PROPERTIES
  QuietExit
