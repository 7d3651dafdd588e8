------------------------------ MODULE MCProduct ------------------------------
(***************************************************************************)
(* Instances of Product for TLC.  The integers are scaled down: int32_t    *)
(* ranges over -8 .. 7 and size_t over 0 .. 63.                            *)
(***************************************************************************)
EXTENDS Product

Line(order, of, qty) == [reference |-> order, sku |-> of, quantity |-> qty]

MCBatch(ref, of, qty, due) ==
    [reference |-> ref, sku |-> of, purchased |-> qty, eta |-> due,
     allocations |-> {}]

MCLines == {Line("o1", "table", 1), Line("o2", "table", 2),
            Line("o3", "table", 2), Line("o1", "chair", 1)}

InStock  == MCBatch("b1", "table", 2, NoEta)
Shipment == MCBatch("b2", "table", 3, 1)
SameDay  == MCBatch("b3", "table", 2, 1)
Later    == MCBatch("b3", "table", 2, 2)
Stocked  == MCBatch("b2", "table", 1, NoEta)
Chairs   == MCBatch("b3", "chair", 2, 1)

MCNewBatches == {InStock, Shipment, SameDay, Later, Stocked, Chairs}

\* A vector that repeats a reference, one with a foreign batch, and plain ones.
MCBatchVectors == {<<>>, <<Later, Stocked, Shipment>>,
                   <<Shipment, Chairs>>, <<Shipment, SameDay>>}

\* Quantities beyond the largest int32_t, and a line that asks for nothing.
WideLines == {Line("o1", "table", 0), Line("o2", "table", 6),
              Line("o3", "table", 9)}

Full == MCBatch("b1", "table", 15, NoEta)
Small == MCBatch("b2", "table", 6, 1)

MCWideBatches == {Full, Small}

MCWideVectors == {<<>>, <<Full>>}

\* Two deliveries of one SKU due on the same day, and nothing else.
SameDayVectors == {<<Shipment, SameDay>>}

SameDayBatches == {Shipment, SameDay}
=============================================================================
