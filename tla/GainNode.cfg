CONSTANTS
  N = 3
  Gains = {0, 1, 2}
SPECIFICATION FairSpec
PROPERTIES ImplementsRegister BlockCompletes Settles
CHECK_DEADLOCK FALSE
