SPECIFICATION Spec
CONSTANTS
    Workers = {p1, p2}
    None = None
    payout = payout
    reward = reward
    spend = spend
    gift = gift
    topup = topup
    Keys <- MCKeys
    Delta <- MCDelta
    Txs <- MCTxs
    Lag = 1
    MaxStarts = 4
SYMMETRY Symmetry
CHECK_DEADLOCK FALSE
INVARIANT TailIsSum
