SPECIFICATION FairSpec
CONSTANTS
    Device = {d1, d2}
    Placeholder = {d2}
    MacForms = {"upper"}
    Session = {s1, s2}
    Txn = {t1, t2}
    Request = {r1}
    Callback = {c1}
    DashboardPay = FALSE
    BridgeFaults = FALSE
    MaxDeliveries = 2
    MaxCrashes = 1
    None = None
CHECK_DEADLOCK FALSE
INVARIANTS
    OneLiveSessionPerDevice
    ExpiredIsOffRouter
PROPERTIES
    DueSessionsEnd
    ImplementsDeviceLease
