SPECIFICATION Spec
CONSTANTS
    Workers = {p1, p2, p3}
    None = None
    payout = payout
    reward = reward
    spend = spend
    gift = gift
    topup = topup
    Keys <- MCKeys
    Delta <- MCDelta
    Txs <- MCTxs
    Lag = 0
    MaxStarts = 6
SYMMETRY Symmetry
CHECK_DEADLOCK FALSE
INVARIANTS TypeOK TailIsSum NeverOverdrawn AppliedOnce AllOrNothing
PROPERTY ImplementsAccount
