SPECIFICATION Spec
CONSTANTS
  Lengths = {0, 1, 3}
  Dates = {0, 1, 2}
  MaxVersion = 3
PROPERTIES RecoveryWorks
