SPECIFICATION Spec
CONSTANTS
  zero = zero
  pair = pair
  Keys = {zero, pair}
  Limit <- MCLimit
  Window = 3
  MaxTime = 7
INVARIANTS
  TypeOK
  LessThanTwiceTheLimit
  RefusalsAreEarned
