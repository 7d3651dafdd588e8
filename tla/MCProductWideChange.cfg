SPECIFICATION Spec
CONSTANTS
    Orders = {"o1", "o2", "o3"}
    Skus = {"table", "chair"}
    Refs = {"b1", "b2"}
    NoEta = NoEta
    NoRef = NoRef
    IntMax = 7
    SizeMax = 63
    ProductSku = "table"
    Lines <- WideLines
    NewBatches <- MCWideBatches
    BatchVectors <- MCWideVectors
    Quantities = {0, 8, 12, 40}
    MaxVersion = 4
    MaxMessages = 2
PROPERTIES
    ChangeOfKnownBatchSucceeds
CHECK_DEADLOCK FALSE
