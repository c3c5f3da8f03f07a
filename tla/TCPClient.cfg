SPECIFICATION FairSpec
CONSTANTS
    Clients = {c1, c2}
    NoOne = NoOne
    CounterSpace = 3
    TidSpace = 3
    IdleTimeout = 1
    Segmented = TRUE
    MaxInFlight = 2
    MaxClosers = 1
INVARIANTS
    ExchangeOwnsConnection
PROPERTIES
    OwnReply
    CallsReturn
    IdleConnectionCloses
