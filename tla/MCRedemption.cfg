CONSTANTS
    Voucher = {v1}
    Token = {t1}
    Session = {s1, s2}
    Redeemer = {r1, r2}
    Clerk = {c1, c2}
    Account = Account
    Campaign = Campaign
    Points = 2
    Reward = 1
    Retries = 1
    MaxCalls = 1
    MaxCrashes = 1
    None = None
SPECIFICATION Spec
SYMMETRY Symmetry
INVARIANT TypeOK
INVARIANT SpentOnce
INVARIANT SpentIsServed
INVARIANT PointsAddUp
INVARIANT LaunchedOnce
CHECK_DEADLOCK FALSE
