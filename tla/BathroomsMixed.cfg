CONSTANTS
  Threads = {r1, r2, r3}
  Men = {m1, m2}
  Women = {w1, w2}
  MaxRounds = 3
  BATH_MAX = 2
  MaxValue = 3
SPECIFICATION CoordSpec
INVARIANTS Apart
CHECK_DEADLOCK FALSE
