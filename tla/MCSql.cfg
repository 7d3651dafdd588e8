SPECIFICATION Spec
CONSTANTS
    Orders = {"o1"}
    Skus = {"table", "chair"}
    Refs = {"b1", "table"}
    NoEta = NoEta
    IntMax = 7
    SizeMax = 63
    Failures = {"commit", "begin"}
    Clients = {u1, u2}
    Databases <- MCDatabases
    NewProducts <- MCProducts
    NewBatches <- MCBatches
    Lines <- MCLines
    Quantities = {1}
    ProductsAtOnce = 1
    MaxVersion = 2
SYMMETRY ClientSymmetry
INVARIANTS
    TypeOK
    
    

    
