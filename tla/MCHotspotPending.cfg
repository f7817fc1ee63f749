SPECIFICATION EventLoopSpec
CONSTANTS
    Device = {d1}
    Placeholder = {}
    MacForms = {"upper"}
    Session = {s1}
    Txn = {t1}
    Request = {r1}
    Callback = {c1}
    DashboardPay = FALSE
    BridgeFaults = FALSE
    MaxDeliveries = 2
    MaxCrashes = 0
    None = None
CHECK_DEADLOCK FALSE
PROPERTIES
    PendingIsResolved
