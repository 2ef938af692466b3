CONSTANTS
    Proposed <- AtEdges
    ReadAt = {1, 1000000}
SPECIFICATION ConfigSpec
INVARIANTS AcceptedIsUsable SchemaAgrees
CHECK_DEADLOCK FALSE
