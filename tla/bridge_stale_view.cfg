SPECIFICATION Spec
CONSTANTS
  c1 = c1
  c2 = c2
  p1 = p1
  p2 = p2
  NoConn = NoConn
  MaxClients = 1
  BufferSize = 2
  RecvMax = 1
  DefaultDuration = 1
  MaxDuration = 2
  Conns <- MCConns
  Commands <- MCCommands
  DeviceIds = {2}
  Profiles = {p1}
  RumbleProfiles = {}
  DeviceEvents <- MCDeviceEvents
  MaxXQueue = 1
  MaxInbox = 1
  MayStop = FALSE
INVARIANTS
  NoStaleView
