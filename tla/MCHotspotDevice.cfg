SPECIFICATION Spec
CONSTANTS
    Device = {d1}
    Placeholder = {}
    MacForms = {"upper"}
    Session = {s1, s2}
    Txn = {t1}
    Request = {r1, r2}
    Callback = {c1}
    DashboardPay = FALSE
    BridgeFaults = FALSE
    MaxDeliveries = 1
    MaxCrashes = 0
    None = None
CHECK_DEADLOCK FALSE
INVARIANTS
    OneLiveSessionPerDevice
