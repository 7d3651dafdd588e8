------------------------- MODULE MCAllocationService -------------------------
(***************************************************************************)
(* Instances of AllocationService for TLC.                                 *)
(***************************************************************************)
EXTENDS AllocationService

Line(order, of, qty) == [reference |-> order, sku |-> of, quantity |-> qty]

MCBatch(ref, of, qty, due) ==
    [reference |-> ref, sku |-> of, purchased |-> qty, eta |-> due,
     allocations |-> {}]

\* Two orders of one SKU, an order with two lines of it, and a second SKU
\* that reuses a batch reference.  Only the tests give the bus a CreateBatch
\* without an eta, and a ChangeBatchQuantity.
MCCommands ==
    {CreateBatch(MCBatch("b1", "table", 3, NoEta)),
     CreateBatch(MCBatch("b1", "chair", 1, NoEta)),
     ChangeBatchQuantity("b1", 1),
     ChangeBatchQuantity("b2", 0)}

MCDtos ==
    {CreateBatch(MCBatch("b2", "table", 2, 1)),
     Allocate(Line("o1", "table", 1)),
     Allocate(Line("o1", "table", 2)),
     Allocate(Line("o2", "table", 2)),
     Allocate(Line("o1", "chair", 1))}

\* A delivery, goods in stock and a line, all from REST clients.
MCStockDtos ==
    {CreateBatch(MCBatch("b1", "table", 2, NoEta)),
     CreateBatch(MCBatch("b2", "table", 2, 1)),
     Allocate(Line("o1", "table", 1)),
     Allocate(Line("o2", "table", 2))}

\* The wiring of the fixture of the views, with the notification of the
\* tests of the handlers.
MCSubscribed ==
    SubscribeToEvent(
      SubscribeToEvent(
        SubscribeToEvent(
          SubscribeToEvent(ClearHandlers,
            "Allocated", "AddAllocationToReadModel"),
          "Deallocated", "RemoveAllocationFromReadModel"),
        "Deallocated", "Reallocate"),
      "OutOfStock", "SendOutOfStockNotification")

MCBus ==
    SetCommandHandler(
      SetCommandHandler(
        SetCommandHandler(MCSubscribed, "Allocate", "Allocate"),
        "CreateBatch", "AddBatch"),
      "ChangeBatchQuantity", "ChangeBatchQuantity")
=============================================================================
