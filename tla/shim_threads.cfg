SPECIFICATION Spec
CONSTANTS
  t1 = t1
  t2 = t2
  b1 = b1
  Threads <- TwoThreads
  MaxFd = 1
  TG_MAX_FAKE_FDS = 2
  TG_MAX_EFFECTS = 1
  Effects <- OneEffect
  Half = 1
  Gains <- SomeGains
  Controls <- OneControl
  Values <- Bits
  Rest = 0
  MaxQueue = 4
  MaxFaults = 0
INVARIANTS
  JoyFramed
