SPECIFICATION Spec
CONSTANTS
  MovedAxes <- MCMovedAxes
  RawValues <- MCRawValues
  Buttons <- MCButtons
  MaxHeld = 1
PROPERTIES
  JoyAxesMonotone
