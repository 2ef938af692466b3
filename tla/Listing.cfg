CONSTANTS
    None = None
    a1 = a1  a2 = a2  a3 = a3  c1 = c1  c2 = c2  c3 = c3
    h1 = h1  s1 = s1  s2 = s2  s3 = s3
    Caller = {"console"}
    Key = {"build", "deploy", "test"}
    Actor = {"ann"}
    Organization = {"org", "other"}
    Name = {"build", "deploy", "test"}
    NameKey <- Identity
    Subject = {s1, s2, s3}
    Account = {a1, a2, a3}
    Credential = {c1, c2, c3}
    Request <- ListRequests
    Handler = {h1}
    CredentialTtl = 3
    RotationOverlap = 1
    TokenTtl = 2
    ReceiptTtl = 1
    ExchangeWindow = 1
    MaxExchanges = 1
    ExchangeLockout = 1
    MaxAccounts = 3
    MaxClock = 1
    IdOrder <- Ids
    MaxPageSize = 2
    PageLimit = {0, 1, 2, 3}
SPECIFICATION ListingSpec
SYMMETRY Anonymous
INVARIANTS WalkComplete ListedOnce CursorLeadsOn
