CONSTANTS
  N = 2
  Listed <- MCListed
  Actual <- MCActual
  Configs <- MCLate
SPECIFICATION Spec
INVARIANT FailedBytesNotCounted
