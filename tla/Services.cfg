SPECIFICATION ServicesSpec
CONSTANTS
    Client = {c1}
    User = {u1}
    Code = {k1}
    Pair = {p1, p2, p3}
    Request = {r1, r2}
    NoOne = NoOne
    Passkey = {key1, key2}
    Ticket = {t1, t2, t3}
    Visit = {v1, v2}
    Null = Null
    Session = {s1, s2, s3}
    Device = {d1, d2}
    Passwords = 2
    NoSession = NoSession
    Username = {name1, name2}
    Account = {acc1, acc2}
    Limit = 2
    Capacity = 2
    Window = 2
    Guesser = {g1, g2, g3}
    Watcher = {w1}
    Events = 4
    SendBuffer = 2
    Link = {l1, l2}
    Worker = {worker}
    Hand = {hand}
    Batch = 1
    Crashes = 1
INVARIANTS
    ServicesTypeOK
    OneLiveRefresh
    AlwaysAWayIn
    OneChangePerProof
    SignedOutByChange
    GuessesBounded
    FloodHarmsNobody
    NoSilentGap
    OneLateEvent
PROPERTIES
    EndsAllItFound
    EveryLinkRefreshed
CHECK_DEADLOCK FALSE
