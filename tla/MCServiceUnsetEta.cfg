SPECIFICATION Spec
CONSTANTS
    Orders = {"o1", "o2"}
    Skus = {"table", "chair"}
    Refs = {"b1", "b2"}
    NoEta = NoEta
    IntMax = 7
    SizeMax = 63
    Failures = {}
    Commands = {}
    Dtos <- MCStockDtos
    UnsetEtas = {2}
    Bus <- MCBus
    MaxRequests = 7
PROPERTIES
    PrefersWarehouseBatches
CHECK_DEADLOCK FALSE
