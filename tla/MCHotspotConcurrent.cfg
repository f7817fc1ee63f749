SPECIFICATION Spec
CONSTANTS
    Device = {d1}
    Placeholder = {}
    MacForms = {"upper", "lower"}
    Session = {s1}
    Txn = {t1, t2}
    Request = {r1, r2}
    Callback = {c1, c2}
    DashboardPay = TRUE
    BridgeFaults = TRUE
    MaxDeliveries = 2
    MaxCrashes = 1
    None = None
SYMMETRY Symmetry
CHECK_DEADLOCK FALSE
INVARIANTS
    TypeOK
    NoServiceWithoutPayment
    ReceiptsAreReal
    FailedIsUnpaid
    NotCutShort
PROPERTIES
    RevenueIsRecorded
    ImplementsMpesaPayment
    ImplementsPaidAccess
