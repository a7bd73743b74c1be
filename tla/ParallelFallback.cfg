SPECIFICATION Spec
CONSTANTS
  u1 = u1
  u2 = u2
  u3 = u3
  Accounts = {u1, u2, u3}
  Balances <- MCBalances
  Batches <- MCBatches
  Speculation = {TRUE, FALSE}
  Workers = {1, 2, 3}
  MaxRetries = 2
INVARIANTS SequentialConsistency
CHECK_DEADLOCK FALSE
