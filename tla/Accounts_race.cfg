SPECIFICATION Spec
CONSTANTS
    Account = {u1, u2}
    Email = {e1, e2}
    Request = {r1, r2, r3}
    Operation = {"register", "verify", "login", "resend", "changeEmail", "cancelEmail", "changePassword", "forgot", "reset", "close", "suspend"}
    None = None
    First = First
SYMMETRY Interchangeable
CHECK_DEADLOCK FALSE
INVARIANTS
    CurrentSessionsKnowThePassword
PROPERTIES
    AddressesAreProven
    ClosedAccountsStayPut
