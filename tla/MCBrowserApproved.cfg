SPECIFICATION Spec
CONSTANTS
    Tab = {t1}
    Isp = {a1}
    Admin = admin
    None = None
    MaxAsks = 2
INVARIANT ApprovedCanLogin
CHECK_DEADLOCK FALSE
