SPECIFICATION Spec
CONSTANTS
    Tab = {t1}
    Isp = {a1, a2}
    Admin = admin
    None = None
    MaxAsks = 2
SYMMETRY Symmetry
INVARIANT TypeOK
INVARIANT StorageIsTokens
INVARIANT TokenIsAdmitted
INVARIANT InviteOnce
CHECK_DEADLOCK FALSE
