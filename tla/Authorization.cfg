CONSTANTS
    x1 = x1
    None = None
    Call = {x1}
    Instance = {"console", "gateway"}
    ManagementCallers = {"console"}
    AuthenticationCallers = {"gateway"}
    Person = {"ann", "?"}
    ValidSubject = {"ann"}
    Org = {"org"}
SPECIFICATION AuthSpec
INVARIANTS AdmittedWithAllFactors RefusalsTrue NothingDisclosed
