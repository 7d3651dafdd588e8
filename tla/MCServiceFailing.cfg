SPECIFICATION Spec
CONSTANTS
    Orders = {"o1", "o2"}
    Skus = {"table", "chair"}
    Refs = {"b1", "b2"}
    NoEta = NoEta
    IntMax = 7
    SizeMax = 63
    Failures = {"commit", "begin", "view"}
    Commands <- MCCommands
    Dtos <- MCDtos
    UnsetEtas = {}
    Bus <- MCBus
    MaxRequests = 5
INVARIANTS
    StoreSound
    NoSpareNotification
PROPERTIES
    HandleEnds
CHECK_DEADLOCK FALSE
