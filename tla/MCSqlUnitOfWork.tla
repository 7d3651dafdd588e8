--------------------------- MODULE MCSqlUnitOfWork ---------------------------
(***************************************************************************)
(* Instances of SqlUnitOfWork for TLC.                                     *)
(***************************************************************************)
EXTENDS SqlUnitOfWork

Line(order, of, qty) == [reference |-> order, sku |-> of, quantity |-> qty]

MCBatch(ref, of, qty, due) ==
    [reference |-> ref, sku |-> of, purchased |-> qty, eta |-> due,
     allocations |-> {}]

\* A product of another program, with a batch that is called like a SKU.
MCFilled(allocated) ==
    [products  |-> [s \in {"chair"} |-> 1],
     batches   |-> [r \in {"b1", "table"} |->
                      [sku |-> "chair", purchased |-> 2, eta |-> NoEta]],
     allocated |-> allocated]

MCDatabases == {EmptyDatabase, MCFilled({"b1"}), MCFilled({"b1", "table"})}

MCBatches == {MCBatch("b1", "table", 2, NoEta)}

MCProducts ==
    {[sku |-> "table", batches |-> <<>>, version |-> 0],
     [sku |-> "table", batches |-> <<>>, version |-> 1],
     [sku |-> "table", batches |-> <<MCBatch("b1", "table", 2, NoEta)>>,
      version |-> 0],
     [sku |-> "chair", batches |-> <<>>, version |-> 0]}

MCLines == {Line("o1", "table", 1)}

ClientSymmetry == Permutations(Clients)
=============================================================================
