CONSTANTS
  Threads = {r1, r2, r3, r4}
  Men = {m1, m2}
  Women = {w1, w2}
  MaxRounds = 3
  BATH_MAX = 2
  MaxValue = 3
SPECIFICATION CoordSpec
INVARIANTS NobodyLeavesEarly PostsMatchWaiters CountExact SpokenInTurn
CHECK_DEADLOCK FALSE
