SPECIFICATION FairSpec
CONSTANTS
    Event = {e1}
    Subscription = {s1}
    User = {u1, u2}
    NoUser = NoUser
    Worker = {w1, w2}
    NoWorker = NoWorker
    NoClaim = NoClaim
    Audience <- Everybody
    BatchSize = 1
    MaxAttempts = 1
    MaxClaims = 2
INVARIANTS TypeOK KeysMatchUser NoRecipientForgotten
PROPERTIES EventsAreLeased DeliveriesAreLeased EventsSettle DeliveriesSettle
CHECK_DEADLOCK FALSE
