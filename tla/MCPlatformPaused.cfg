CONSTANTS
    Today = 2
    Txn = {t1}
    Clerk = {k1}
    MaxDesk = 2
    Platform = Platform
    None = None
SPECIFICATION FairSpec
CHECK_DEADLOCK FALSE
PROPERTY PayingReactivates
