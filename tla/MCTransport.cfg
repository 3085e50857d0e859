SPECIFICATION Spec
CONSTANTS
  Plans <- MCPlans
  Size = 3
  PerMicro = 2
  PerMilli = 4
  Millis = 2
  Word = 8
INVARIANTS TypeOK Kept OnceInOrder FlushedAll NotEarly NotLate PurgedWhole
CHECK_DEADLOCK FALSE
