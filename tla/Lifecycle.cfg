CONSTANTS
    None = None
    a1 = a1  c1 = c1  c2 = c2  h1 = h1  h2 = h2
    Caller = {"console"}
    Key = {"k1"}
    Actor = {"ann"}
    Organization = {"org"}
    Name = {"build"}
    NameKey <- Identity
    Subject = {"s1"}
    Account = {a1}
    Credential = {c1}
    Request <- LifecycleRequests
    Handler = {h1, h2}
    CredentialTtl = 3
    RotationOverlap = 1
    TokenTtl = 2
    ReceiptTtl = 1
    ExchangeWindow = 1
    MaxExchanges = 2
    ExchangeLockout = 1
    MaxAccounts = 1
    MaxClock = 2
    Secret = {"old", "new", "short"}
    LongSecret = {"old", "new"}
    MaxGeneration = 2
SPECIFICATION PluginSpec
SYMMETRY Handlers2
PROPERTIES DatabaseQuiet KeysCurrent ExecutionsSpaced
CHECK_DEADLOCK FALSE
