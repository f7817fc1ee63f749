CONSTANTS
    Today = 2
    Txn = {t1}
    Clerk = {k1}
    MaxDesk = 2
    Platform = Platform
    None = None
SPECIFICATION FairSpec
INVARIANT TypeOK
INVARIANT ReceiptIsReal
INVARIANT DialogTellsTruth
INVARIANT OutcomeIsThePayers
PROPERTY ImplementsMpesaPayment
PROPERTY OverdueIsLocked
CHECK_DEADLOCK FALSE
