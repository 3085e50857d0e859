SPECIFICATION Spec
CONSTANTS
  Cases <- MCCases
  Capacity = 70
  MaxTries = 2
  MaxAsked = 8
INVARIANTS TypeOK Intact Transparent SafeOnLine AbortHeard Consented Preferred SoonRecovers SlicesAgree
CHECK_DEADLOCK FALSE
