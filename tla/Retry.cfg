CONSTANTS
    None = None
    a1 = a1  a2 = a2  a3 = a3  c1 = c1  c2 = c2  c3 = c3  h1 = h1  h2 = h2
    Caller = {"console"}
    Key = {"k1"}
    Actor = {"ann"}
    Organization = {"org"}
    Name = {"build"}
    NameKey <- MCNameKey
    Subject = {"s1"}
    Account = {a1}
    Credential = {c1}
    Request <- RetryRequests
    Handler = {h1, h2}
    CredentialTtl = 4
    RotationOverlap = 1
    TokenTtl = 2
    ReceiptTtl = 1
    ExchangeWindow = 3
    MaxExchanges = 1
    ExchangeLockout = 1
    MaxAccounts = 1
    MaxClock = 5
SPECIFICATION Spec
SYMMETRY Handlers2
INVARIANTS ReceiptMatchesExecution
PROPERTIES ExecutionsSpaced ImplementsLedger
