SPECIFICATION FairSpec
CONSTANTS
  c1 = c1
  c2 = c2
  c3 = c3
  p1 = p1
  NoConn = NoConn
  MaxClients = 2
  BufferSize = 1
  RecvMax = 1
  DefaultDuration = 1
  MaxDuration = 2
  Conns <- MCConns
  Commands <- MCCommands
  DeviceIds = {2}
  Profiles = {p1}
  RumbleProfiles = {}
  DeviceEvents = {}
  MaxXQueue = 1
  MaxInbox = 1
  MayStop = FALSE
PROPERTIES
  DeviceSettles
  BacklogServed
  InboxServed
