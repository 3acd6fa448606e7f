SPECIFICATION Spec
CONSTANTS
  MovedAxes <- MCMovedAxes
  RawValues <- MCRawValues
  Buttons <- MCButtons
  MaxHeld = 3
INVARIANTS
  TypeOK
  ChangesAddUpToSnapshot
  HatsFollowButtons
  EveryHeldButtonSeen
  OnlyAdvertisedValues
PROPERTIES
  LibAxesMonotone
