------------------------------- MODULE Product -------------------------------
(***************************************************************************)
(* One product aggregate as a state machine: its batches, its version and  *)
(* the domain events it has collected (src/src/Domain/Product/Product.cpp).*)
(* One action per method; ChangeBatchQuantity, whose loop may throw half   *)
(* way, is taken apart into its iterations.                                *)
(***************************************************************************)
EXTENDS Aggregate

CONSTANTS
    ProductSku,     \* the SKU of this aggregate
    NoRef,          \* no batch is being changed
    Lines,          \* the order lines callers ask to allocate
    NewBatches,     \* the batches callers add
    BatchVectors,   \* the vectors of batches callers add or construct with
    Quantities,     \* the quantities callers change a batch to
    MaxVersion,     \* bound: no call starts at this version
    MaxMessages     \* bound: no call starts with this many events unread

ASSUME ProductAssumption ==
    /\ ProductSku \in Skus
    /\ NoRef \notin Refs
    /\ Lines \subseteq OrderLine
    /\ NewBatches \subseteq {b \in BatchType : b.allocations = {}}
    /\ BatchVectors \subseteq Seq(NewBatches)
    /\ Quantities \subseteq Size
    /\ MaxVersion \in Nat
    /\ MaxMessages \in Nat

VARIABLES
    batches,        \* _referenceByBatches
    version,        \* _version
    messages,       \* _messages
    loop,           \* the locals of a ChangeBatchQuantity under way
    outcome         \* how the last call ended

vars == <<batches, version, messages, loop, outcome>>

NotLooping == [ref |-> NoRef, newQty |-> 0, difference |-> 0]

Looping == loop.ref # NoRef

\* The aggregate is used by one caller at a time: a call starts when the
\* one before it has ended.  The bounds are here and nowhere else.
CallStarts ==
    /\ ~Looping
    /\ version < MaxVersion
    /\ Len(messages) < MaxMessages

-----------------------------------------------------------------------------
\* The constructor does not look at the SKU of the batches it is given.
Init ==
    /\ \E vector \in BatchVectors : batches = Emplaced(vector)
    /\ version = 0
    /\ messages = <<>>
    /\ loop = NotLooping
    /\ outcome = "returned"

AddBatch(b) ==
    /\ CallStarts
    /\ \/ /\ Admissible(batches, ProductSku, b)
          /\ batches' = Merged(batches, ByReference(b))
          /\ outcome' = "returned"
       \/ /\ ~Admissible(batches, ProductSku, b)
          /\ outcome' = "threw"
          /\ UNCHANGED batches
    /\ UNCHANGED <<version, messages, loop>>

AddBatches(vector) ==
    LET admissible == \A i \in DOMAIN vector :
                         Admissible(batches, ProductSku, vector[i])
    IN  /\ CallStarts
        /\ \/ /\ admissible
              /\ batches' = Merged(batches, Emplaced(vector))
              /\ outcome' = "returned"
           \/ /\ ~admissible
              /\ outcome' = "threw"
              /\ UNCHANGED batches
        /\ UNCHANGED <<version, messages, loop>>

-----------------------------------------------------------------------------
AllocateTo(line, ref) ==
    /\ CallStarts
    /\ line.sku = ProductSku
    /\ MayChoose(batches, line, ref)
    /\ batches' = [batches EXCEPT ![ref] = Holding(@, line)]
    /\ version' = version + 1
    /\ messages' = Append(messages, Allocated(line, ref))
    /\ outcome' = "returned"
    /\ UNCHANGED loop

AllocateOutOfStock(line) ==
    /\ CallStarts
    /\ line.sku = ProductSku
    /\ DOMAIN batches # {}
    /\ MayRefuse(batches, line)
    /\ messages' = Append(messages, OutOfStock(line.sku))
    /\ outcome' = "returned"
    /\ UNCHANGED <<batches, version, loop>>

AllocateThrows(line) ==
    /\ CallStarts
    /\ line.sku # ProductSku \/ DOMAIN batches = {}
    /\ outcome' = "threw"
    /\ UNCHANGED <<batches, version, messages, loop>>

Allocate(line) ==
    \/ \E ref \in DOMAIN batches : AllocateTo(line, ref)
    \/ AllocateOutOfStock(line)
    \/ AllocateThrows(line)

-----------------------------------------------------------------------------
ChangeBatchQuantity(ref, qty) ==
    /\ CallStarts
    /\ \/ /\ ref \in DOMAIN batches
          /\ \E d \in Differences(batches[ref], qty) :
                loop' = [ref |-> ref, newQty |-> qty, difference |-> d]
          /\ UNCHANGED outcome
       \/ /\ ref \notin DOMAIN batches
          /\ outcome' = "threw"
          /\ UNCHANGED loop
    /\ UNCHANGED <<batches, version, messages>>

\* Faulty variant: each release counts as one unit.
DeallocateOne_CountsLines(line) ==
    /\ Looping
    /\ loop.difference < 0
    /\ line \in batches[loop.ref].allocations
    /\ batches' = [batches EXCEPT ![loop.ref] = Without(@, line)]
    /\ messages' = Append(messages, Deallocated(line))
    /\ loop' = [loop EXCEPT !.difference = @ + 1]
    /\ UNCHANGED <<version, outcome>>

\* Faulty variant: the loop goes on at zero.
DeallocateOne_AtZero(line) ==
    /\ Looping
    /\ loop.difference <= 0
    /\ line \in batches[loop.ref].allocations
    /\ batches' = [batches EXCEPT ![loop.ref] = Without(@, line)]
    /\ messages' = Append(messages, Deallocated(line))
    /\ loop' = [loop EXCEPT !.difference = @ + ToInt32(line.quantity)]
    /\ UNCHANGED <<version, outcome>>

\* One turn of the loop: a line of the batch goes, and its event is recorded.
DeallocateOne(line) ==
    /\ Looping
    /\ loop.difference < 0
    /\ line \in batches[loop.ref].allocations
    /\ batches' = [batches EXCEPT ![loop.ref] = Without(@, line)]
    /\ messages' = Append(messages, Deallocated(line))
    /\ \E d \in Int32Results(loop.difference + ToInt32(line.quantity)) :
          loop' = [loop EXCEPT !.difference = d]
    /\ UNCHANGED <<version, outcome>>

\* Faulty variant: an empty batch is skipped and the loop tries again.
NothingToDeallocate_Retries ==
    /\ Looping
    /\ loop.difference < 0
    /\ batches[loop.ref].allocations = {}
    /\ UNCHANGED vars

\* The batch is empty and the loop still wants more: the exception leaves
\* the lines released so far released and the quantity as it was.
NothingToDeallocate ==
    /\ Looping
    /\ loop.difference < 0
    /\ batches[loop.ref].allocations = {}
    /\ loop' = NotLooping
    /\ outcome' = "threw"
    /\ UNCHANGED <<batches, version, messages>>

\* Faulty variant: the quantity is set before the loop has run.
SetPurchasedQuantity_Early ==
    /\ Looping
    /\ batches' = [batches EXCEPT ![loop.ref] = Resized(@, loop.newQty)]
    /\ version' = version + 1
    /\ loop' = NotLooping
    /\ outcome' = "returned"
    /\ UNCHANGED messages

SetPurchasedQuantity ==
    /\ Looping
    /\ loop.difference >= 0
    /\ batches' = [batches EXCEPT ![loop.ref] = Resized(@, loop.newQty)]
    /\ version' = version + 1
    /\ loop' = NotLooping
    /\ outcome' = "returned"
    /\ UNCHANGED messages

\* Called by the unit of work when it has taken the events.
ClearMessages ==
    /\ ~Looping
    /\ messages # <<>>
    /\ messages' = <<>>
    /\ UNCHANGED <<batches, version, loop, outcome>>

Next ==
    \/ \E b \in NewBatches : AddBatch(b)
    \/ \E vector \in BatchVectors : AddBatches(vector)
    \/ \E line \in Lines : Allocate(line)
    \/ \E ref \in Refs, qty \in Quantities : ChangeBatchQuantity(ref, qty)
    \/ \E line \in Lines : DeallocateOne(line)
    \/ NothingToDeallocate
    \/ SetPurchasedQuantity
    \/ ClearMessages

LoopStep ==
    \/ \E line \in Lines : DeallocateOne(line)
    \/ NothingToDeallocate
    \/ SetPurchasedQuantity

\* The loop is synchronous code: once entered, it goes on.
Spec == Init /\ [][Next]_vars /\ WF_vars(LoopStep)

-----------------------------------------------------------------------------
\* A map from reference to batch, each batch under its own reference.
MapOfBatches(f) ==
    /\ f = [r \in DOMAIN f |-> f[r]]
    /\ DOMAIN f \subseteq Refs
    /\ \A r \in DOMAIN f : /\ f[r] \in BatchType
                          /\ f[r].reference = r
                          /\ f[r].allocations \subseteq Lines
                          /\ IsFiniteSet(f[r].allocations)

(***************************************************************************)
(* The type invariant: what the members of the aggregate and the locals of *)
(* its one loop may hold (Product.hpp:69-73, Product.cpp:72-77).           *)
(***************************************************************************)
TypeOK ==
    /\ MapOfBatches(batches)
    /\ version \in Nat
    /\ messages \in Seq(Event)
    /\ loop \in [ref : Refs \cup {NoRef}, newQty : Size, difference : Int]
    /\ Looping => loop.ref \in DOMAIN batches
    /\ outcome \in {"returned", "threw"}

(***************************************************************************)
(* The quantities callers may use while every cast of ChangeBatchQuantity  *)
(* is exact: the properties below that depend on it say so.                *)
(***************************************************************************)
QuantitiesFit ==
    /\ \A b \in NewBatches : b.purchased <= IntMax
    /\ \A qty \in Quantities : qty <= IntMax

(***************************************************************************)
(* A batch never holds more than was purchased, whatever calls are made    *)
(* and also between two turns of a reduction (Batch::CanAllocate lets a    *)
(* line in, Product::ChangeBatchQuantity must let enough lines out before  *)
(* it lowers the quantity).  Otherwise GetAvailableQuantity, an unsigned   *)
(* difference, turns into a huge number and every line fits.               *)
(***************************************************************************)
NoOverAllocation ==
    \A r \in DOMAIN batches :
        Total(batches[r].allocations) <= batches[r].purchased

(***************************************************************************)
(* While a batch is being reduced, `difference` is what its new quantity   *)
(* leaves over the lines it still holds: the three casts and the running   *)
(* sum of Product.cpp:75-81 lose nothing.                                  *)
(***************************************************************************)
LoopTracksShortfall ==
    Looping =>
        loop.difference = loop.newQty - Total(batches[loop.ref].allocations)

(***************************************************************************)
(* A reduction that still needs units always finds a line to release:      *)
(* DeallocateOne never throws out of the loop of ChangeBatchQuantity, which *)
(* would leave lines released, their events recorded, and the quantity and *)
(* version as they were.                                                   *)
(***************************************************************************)
ReductionFindsALine ==
    Looping /\ loop.difference < 0 => batches[loop.ref].allocations # {}

(***************************************************************************)
(* Lines are released only by a reduction, only from the batch being       *)
(* reduced, and only while what it holds exceeds its new quantity: an order *)
(* that still fits is not thrown out (Product.cpp:78-83).                  *)
(***************************************************************************)
ReleasesOnlyExcess ==
    [][\A r \in DOMAIN batches :
         ~(batches[r].allocations \subseteq batches'[r].allocations) =>
            /\ r = loop.ref
            /\ Total(batches[r].allocations) > loop.newQty]_vars

(***************************************************************************)
(* An earlier batch with room is passed over only when another batch is    *)
(* due on the same day (Product.cpp:50-65 and operator< of batches).       *)
(***************************************************************************)
PassedOverOnlyBehindTwin ==
    [][\A line \in Lines, r \in DOMAIN batches :
         AllocateTo(line, r) =>
            \A s \in DOMAIN batches :
               /\ Earlier(batches[s], batches[r])
               /\ CanAllocate(batches[s], line)
               => HasTwin(batches, s)]_vars

(***************************************************************************)
(* OutOfStock is reported for a line that some batch could take only when  *)
(* another batch is due on the same day as that one.                       *)
(***************************************************************************)
OutOfStockOnlyBehindTwin ==
    [][\A line \in Lines :
         AllocateOutOfStock(line) =>
            \A r \in DOMAIN batches :
               CanAllocate(batches[r], line) => HasTwin(batches, r)]_vars

(***************************************************************************)
(* A change of quantity ends, whatever the casts make of its operands and  *)
(* also when the lines it releases have quantity zero (Product.cpp:78-83). *)
(***************************************************************************)
ChangeEnds == Looping ~> ~Looping

-----------------------------------------------------------------------------
(***************************************************************************)
(* The aggregate implements the abstract stock: what a batch was purchased *)
(* with is the capacity of a delivery and its allocations are what the     *)
(* delivery holds; versions, events and the loop are hidden.  A reduction  *)
(* becomes releases followed by a resize that is only allowed when what is *)
(* held fits.                                                              *)
(***************************************************************************)
Promise == INSTANCE Stock WITH
    Deliveries <- Refs,
    Demands    <- Lines,
    Capacities <- Size,
    Load       <- Total,
    capacity   <- [r \in DOMAIN batches |-> batches[r].purchased],
    held       <- [r \in DOMAIN batches |-> batches[r].allocations]

ImplementsStock == Promise!Spec

-----------------------------------------------------------------------------
(***************************************************************************)
(* Statements of the repository that the code does not keep.               *)
(***************************************************************************)

(***************************************************************************)
(* "Out of stock" means that no batch has room for the line (Events.hpp:60 *)
(* and the test test_records_out_of_stock_event_if_cannot_allocate).  Two  *)
(* batches due on the same day break it: one of them is never looked at.   *)
(***************************************************************************)
OutOfStockMeansNoRoom ==
    [][\A line \in Lines :
         AllocateOutOfStock(line) =>
            \A r \in DOMAIN batches : ~CanAllocate(batches[r], line)]_vars

(***************************************************************************)
(* Adding a batch marks the aggregate modified, as the test named          *)
(* test_add_batch_marks_modified says; the only mark there is is the       *)
(* version, which SqlRepository::Flush compares and AddBatch leaves alone. *)
(***************************************************************************)
AddBatchMarksModified ==
    [][DOMAIN batches' # DOMAIN batches => version' # version]_vars

(***************************************************************************)
(* Changing the quantity of a batch that exists succeeds: the quantity     *)
(* parameter is a size_t (Product.hpp:43) and the only failure of the call *)
(* is an unknown reference.  A quantity that does not fit an int32_t makes *)
(* the loop look for lines that are not there.                             *)
(***************************************************************************)
ChangeOfKnownBatchSucceeds ==
    [][Looping /\ loop'.ref = NoRef => outcome' = "returned"]_vars
=============================================================================
