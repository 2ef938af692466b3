CONSTANTS
    None = None
    a1 = a1  a2 = a2  a3 = a3  c1 = c1  c2 = c2  c3 = c3  h1 = h1  h2 = h2
    Caller = {"console"}
    Key = {"k1", "k2", "k3", "k4"}
    Actor = {"ann"}
    Organization = {"org"}
    Name = {"build", "Build", "deploy", "test"}
    NameKey <- MCNameKey
    Subject = {"s1", "s2", "s3"}
    Account = {a1, a2, a3}
    Credential = {c1, c2, c3}
    Request <- OrganizationRequests
    Handler = {h1, h2}
    CredentialTtl = 3
    RotationOverlap = 1
    TokenTtl = 2
    ReceiptTtl = 1
    ExchangeWindow = 1
    MaxExchanges = 1
    ExchangeLockout = 1
    MaxAccounts = 2
    MaxClock = 1
SPECIFICATION Spec
SYMMETRY AnonymousRows
INVARIANTS OrganizationBounded OutcomesTruthful
