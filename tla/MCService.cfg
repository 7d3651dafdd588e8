SPECIFICATION Spec
CONSTANTS
    Orders = {"o1", "o2"}
    Skus = {"table", "chair"}
    Refs = {"b1", "b2"}
    NoEta = NoEta
    IntMax = 7
    SizeMax = 63
    Failures = {}
    Commands <- MCCommands
    Dtos <- MCDtos
    UnsetEtas = {}
    Bus <- MCBus
    MaxRequests = 7
INVARIANTS
    TypeOK
    StoreSound
    RefusalsNotifiedOnce
    AcceptedLinesAccounted
    RowsAreHeld
CHECK_DEADLOCK FALSE
