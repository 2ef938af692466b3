CONSTANTS
    None = None
    FutureCode = "future"
    Payload = {"payload"}
    MaxHops = 2
SPECIFICATION ContractSpec
INVARIANTS OutcomeKept VariantsUnderstood
CHECK_DEADLOCK FALSE
