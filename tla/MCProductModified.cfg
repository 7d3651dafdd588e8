SPECIFICATION Spec
CONSTANTS
    Orders = {"o1", "o2", "o3"}
    Skus = {"table", "chair"}
    Refs = {"b1", "b2", "b3"}
    NoEta = NoEta
    NoRef = NoRef
    IntMax = 7
    SizeMax = 63
    ProductSku = "table"
    Lines <- MCLines
    NewBatches <- MCNewBatches
    BatchVectors <- MCBatchVectors
    Quantities = {0, 2, 5}
    MaxVersion = 3
    MaxMessages = 1
PROPERTIES
    AddBatchMarksModified
CHECK_DEADLOCK FALSE
