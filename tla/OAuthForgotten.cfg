SPECIFICATION OAuthSpec
CONSTANTS
    Client = {c1}
    User = {u1}
    Code = {k1}
    Pair = {p1, p2}
    Request = {r1, r2}
    NoOne = NoOne
INVARIANTS ForgottenHoldsNothing
CHECK_DEADLOCK FALSE
