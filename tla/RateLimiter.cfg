CONSTANTS
    None = None
    x1 = x1  x2 = x2  x3 = x3
    Caller = {"console"}
    Key = {}
    Actor = {}
    Organization = {}
    Name = {}
    NameKey <- Identity
    Subject = {}
    Account = {}
    Credential = {}
    Request = {}
    CredentialTtl = 2
    RotationOverlap = 1
    TokenTtl = 1
    ReceiptTtl = 1
    ExchangeWindow = 3
    MaxExchanges = 2
    ExchangeLockout = 2
    MaxAccounts = 1
    Call = {x1, x2, x3}
    MaxGrants = 8
    LastTime = 9
SPECIFICATION LimiterSpec
SYMMETRY Calls3
INVARIANTS RateBounded LockoutBounded
PROPERTIES LockoutHolds
