------------------------------ MODULE Handlers ------------------------------
(***************************************************************************)
(* What the handlers of the message bus do to the store and to the unit of *)
(* work they are given: src/src/ServiceLayer/MessageBus/Handlers/          *)
(* Handlers.cpp.  A handler runs from its lookup to its commit as one      *)
(* step, and its result is one of a set: the store and the unit of work    *)
(* after it, and whether it threw.                                         *)
(***************************************************************************)
EXTENDS UnitOfWork

CreateBatch(batch) == [type |-> "CreateBatch", batch |-> batch]
Allocate(line)     == [type |-> "Allocate", line |-> line]
ChangeBatchQuantity(ref, qty) ==
    [type |-> "ChangeBatchQuantity", ref |-> ref, qty |-> qty]

-----------------------------------------------------------------------------
\* The aggregate's methods on a product as a value (see Product).

WithBatch(product, batch) ==
    [product EXCEPT !.batches = Merged(@, ByReference(batch))]

PlacedIn(product, line, ref) ==
    [product EXCEPT !.batches[ref] = Holding(@, line),
                    !.version = @ + 1,
                    !.messages = Append(@, Allocated(line, ref))]

Refused(product, line) ==
    [product EXCEPT !.messages = Append(@, OutOfStock(line.sku))]

AfterAllocate(product, line) ==
    {PlacedIn(product, line, ref) :
        ref \in {r \in DOMAIN product.batches :
                    MayChoose(product.batches, line, r)}}
      \cup {p \in {Refused(product, line)} : MayRefuse(product.batches, line)}

\* Faulty variant: the loop stops one unit early.
Releases_OneShort(batch, qty) ==
    {released \in SetToAllKPermutations(batch.allocations) :
        \E difference \in Differences(batch, qty) :
            /\ difference + Total(ToSet(released)) >= -1
            /\ \A n \in 0 .. (Len(released) - 1) :
                  difference + Total(ToSet(SubSeq(released, 1, n))) < -1}

(***************************************************************************)
(* The lines a change to qty may release, in order: any line of the hash   *)
(* set goes next, while the sum of `difference` and what has gone is       *)
(* negative.  The sums are exact for quantities that fit an int32_t, and   *)
(* the loop does not run out of lines then (ReductionFindsALine).          *)
(***************************************************************************)
Releases(batch, qty) ==
    {released \in SetToAllKPermutations(batch.allocations) :
        \E difference \in Differences(batch, qty) :
            /\ difference + Total(ToSet(released)) >= 0
            /\ \A n \in 0 .. (Len(released) - 1) :
                  difference + Total(ToSet(SubSeq(released, 1, n))) < 0}

Shrunk(batch, qty, released) ==
    [batch EXCEPT !.allocations = @ \ ToSet(released), !.purchased = qty]

Reduced(product, ref, qty, released) ==
    [product EXCEPT
        !.batches[ref] = Shrunk(@, qty, released),
        !.version = @ + 1,
        !.messages = @ \o [i \in DOMAIN released |-> Deallocated(released[i])]]

AfterChange(product, ref, qty) ==
    {Reduced(product, ref, qty, released) :
        released \in Releases(product.batches[ref], qty)}

-----------------------------------------------------------------------------
\* The handlers.

HandleCreateBatch(store, uow, batch) ==
    LET product == IF Known(store, uow, batch.sku)
                   THEN Get(store, uow, batch.sku)
                   ELSE NewProduct
    IN  IF Admissible(product.batches, batch.sku, batch)
        THEN Commit(store, Seeing(uow, batch.sku, WithBatch(product, batch)))
        ELSE {Threw(store, Seeing(uow, batch.sku, product))}

(***************************************************************************)
(* Both the handler of the command Allocate and, through Reallocate, a     *)
(* subscriber of Deallocated.  A unit of work whose transaction has failed *)
(* can still answer for the products it has seen, and for no other.        *)
(***************************************************************************)
HandleAllocate(store, uow, line) ==
    IF \/ ~Known(store, uow, line.sku)
       \/ uow.broken /\ line.sku \notin DOMAIN uow.seen
    THEN {Threw(store, uow)}
    ELSE LET product == Get(store, uow, line.sku)
         IN  IF DOMAIN product.batches = {}
             THEN {Threw(store, Seeing(uow, line.sku, product))}
             ELSE UNION {Commit(store, Seeing(uow, line.sku, after)) :
                            after \in AfterAllocate(product, line)}

HandleChangeBatchQuantity(store, uow, ref, qty) ==
    IF ByBatchRef(store, uow, ref) = {}
    THEN {Threw(store, uow)}
    ELSE UNION {LET product == Get(store, uow, sku)
                IN  UNION {Commit(store, Seeing(uow, sku, after)) :
                              after \in AfterChange(product, ref, qty)}
                : sku \in ByBatchRef(store, uow, ref)}

\* The handler that is registered for the type of the command.
HandleCommand(store, uow, handler, command) ==
    CASE handler = "AddBatch" -> HandleCreateBatch(store, uow, command.batch)
      [] handler = "Allocate" -> HandleAllocate(store, uow, command.line)
      [] handler = "ChangeBatchQuantity" ->
            HandleChangeBatchQuantity(store, uow, command.ref, command.qty)
=============================================================================
