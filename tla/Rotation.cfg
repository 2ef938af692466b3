CONSTANTS
    None = None
    a1 = a1  c1 = c1  c2 = c2  c3 = c3  h1 = h1  h2 = h2
    Caller = {"console"}
    Key = {"k1", "k2"}
    Actor = {"ann"}
    Organization = {"org"}
    Name = {"build"}
    NameKey <- Identity
    Subject = {"s1"}
    Account = {a1}
    Credential = {c1, c2, c3}
    Request <- RotationRequests
    Handler = {h1, h2}
    CredentialTtl = 3
    RotationOverlap = 1
    TokenTtl = 2
    ReceiptTtl = 3
    ExchangeWindow = 1
    MaxExchanges = 1
    ExchangeLockout = 1
    MaxAccounts = 1
    MaxClock = 3
    CredentialOrder <- CredentialIds
SPECIFICATION Spec
SYMMETRY Handlers2
INVARIANTS OverlapBounded RevisionWonOnce OutcomesTruthful RevokedReportsEnded ExpiryNotOverstated
PROPERTIES NothingRevived
