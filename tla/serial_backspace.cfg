SPECIFICATION Spec
CONSTANTS
  Chips <- MCChips
  Factory <- MCFactory
  Width = 1
  SerialLen = 3
  Digits = {0, 7}
  MaxBackspaces = 1
PROPERTY
  BackspaceTakesBack
