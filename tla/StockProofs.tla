----------------------------- MODULE StockProofs -----------------------------
(***************************************************************************)
(* Product implements Stock, for every value of the constants within an    *)
(* int32_t: the inductive invariant of ProductProofs is what makes the     *)
(* guards of Stock true.                                                   *)
(***************************************************************************)
EXTENDS ProductProofs

-----------------------------------------------------------------------------
(***************************************************************************)
(* The aggregate implements the abstract stock: every call, and every turn *)
(* of a reduction, is a step of Stock or leaves its variables alone.       *)
(***************************************************************************)
Capacity == [r \in DOMAIN batches |-> batches[r].purchased]
Held     == [r \in DOMAIN batches |-> batches[r].allocations]

\* A new aggregate is a stock of empty deliveries.
LEMMA InitImplements ==
    ASSUME Init
    PROVE  Promise!Init
<1>1. /\ DOMAIN batches \in SUBSET Refs
      /\ \A r \in DOMAIN batches : batches[r] \in NewBatches
  BY EmplacedIsMap DEF Init, MapOfBatches
<1>2. \A r \in DOMAIN batches : /\ batches[r].purchased \in Size
                               /\ batches[r].allocations = {}
  BY <1>1, ProductAssumption DEF BatchType
<1>3. /\ Capacity \in [DOMAIN batches -> Size]
      /\ Held = [d \in DOMAIN batches |-> {}]
  BY <1>2 DEF Capacity, Held
<1> QED  BY <1>1, <1>3 DEF Promise!Init, Capacity, Held

\* Adding batches announces deliveries.
LEMMA ReceiveImplements ==
    ASSUME TypeOK, OnlyReceives
    PROVE  Promise!Receive
<1>1. /\ DOMAIN batches' \in SUBSET Refs
      /\ DOMAIN batches \subseteq DOMAIN batches'
      /\ DOMAIN Capacity = DOMAIN batches
  BY DEF OnlyReceives, MapOfBatches, Capacity
<1>2. Capacity' \in [DOMAIN batches' -> Size]
  BY DEF OnlyReceives, MapOfBatches, Capacity, BatchType
<1>3. \A d \in DOMAIN batches : Capacity'[d] = Capacity[d]
  BY DEF OnlyReceives, Capacity
<1>4. Held' = [d \in DOMAIN batches' |-> IF d \in DOMAIN batches THEN Held[d] ELSE {}]
  <2>1. \A d \in DOMAIN batches' :
           batches'[d].allocations = IF d \in DOMAIN batches THEN Held[d] ELSE {}
    BY ProductAssumption DEF OnlyReceives, Held
  <2> QED  BY <2>1 DEF Held
<1> QED  BY <1>1, <1>2, <1>3, <1>4 DEF Promise!Receive, Capacity, Held

\* Allocating a line places it where it fits.
LEMMA AllocateImplements ==
    ASSUME IInv, NEW line \in Lines, NEW ref \in DOMAIN batches,
           AllocateTo(line, ref)
    PROVE  Promise!Place(line, ref)
<1> DEFINE b == batches[ref]
           new == Holding(b, line)
<1>1. /\ b \in BatchType
      /\ IsFiniteSet(b.allocations)
      /\ Sound(b)
      /\ line \in OrderLine
      /\ ref \in Refs
  BY ProductAssumption DEF IInv, TypeOK, MapOfBatches
<1>2. CanAllocate(b, line)
  BY DEF AllocateTo, MayChoose, FirstAble, Able
<1>3. /\ new.allocations = b.allocations \cup {line}
      /\ new.purchased = b.purchased
  BY <1>1, <1>2 DEF Holding, BatchType
<1>4. Total(b.allocations \cup {line}) <= b.purchased
  <2> HIDE DEF b
  <2> QED  BY <1>1, <1>3, HoldingKeepsWithinPurchased DEF Sound
<1>5. batches' = [batches EXCEPT ![ref] = new]
  BY DEF AllocateTo
<1>6. Capacity' = Capacity
  <2> HIDE DEF new
  <2> QED  BY <1>3, <1>5 DEF Capacity
<1>7. Held' = [Held EXCEPT ![ref] = @ \cup {line}]
  <2> HIDE DEF new
  <2> QED  BY <1>3, <1>5 DEF Held
<1>8. /\ ref \in DOMAIN Capacity
      /\ Total(Held[ref] \cup {line}) <= Capacity[ref]
  BY <1>4 DEF Held, Capacity
<1> QED  BY <1>6, <1>7, <1>8 DEF Promise!Place, Capacity, Held

\* A turn of a reduction releases a line.
LEMMA DeallocateImplements ==
    ASSUME IInv, NEW line \in Lines, DeallocateOne(line), NEW ref, ref = loop.ref
    PROVE  Promise!Release(line, ref)
<1> DEFINE b == batches[ref]
           new == Without(b, line)
<1>1. ref \in DOMAIN batches /\ b \in BatchType
  BY DEF IInv, TypeOK, MapOfBatches, DeallocateOne
<1>2. new.allocations = b.allocations \ {line} /\ new.purchased = b.purchased
  BY <1>1 DEF Without, BatchType
<1>3. batches' = [batches EXCEPT ![ref] = new]
  BY DEF DeallocateOne
<1>4. Capacity' = Capacity
  <2> HIDE DEF new
  <2> QED  BY <1>2, <1>3 DEF Capacity
<1>5. Held' = [Held EXCEPT ![ref] = @ \ {line}]
  <2> HIDE DEF new
  <2> QED  BY <1>2, <1>3 DEF Held
<1>6. ref \in DOMAIN Capacity
  BY <1>1 DEF Capacity
<1> QED  BY <1>4, <1>5, <1>6 DEF Promise!Release, Capacity, Held

\* The end of a reduction resizes a delivery whose load fits.
LEMMA SetQuantityImplements ==
    ASSUME IInv, SetPurchasedQuantity,
           NEW ref, ref = loop.ref, NEW qty, qty = loop.newQty
    PROVE  Promise!Resize(ref, qty)
<1> DEFINE b == batches[ref]
           new == Resized(b, qty)
<1>1. /\ ref \in DOMAIN batches
      /\ b \in BatchType
      /\ IsFiniteSet(b.allocations)
      /\ qty \in Nat
      /\ loop.difference = qty - Total(b.allocations)
      /\ loop.difference >= 0
  BY BatchAssumption
     DEF IInv, TypeOK, MapOfBatches, SetPurchasedQuantity, LoopTracksShortfall, Size
<1>2. Total(b.allocations) \in Nat
  BY <1>1, HeldUnitsFinite, TotalType
<1>3. Total(b.allocations) <= qty
  <2> HIDE DEF b
  <2> QED  BY <1>1, <1>2
<1>4. new.allocations = b.allocations /\ new.purchased = qty
  BY <1>1 DEF Resized, BatchType
<1>5. batches' = [batches EXCEPT ![ref] = new]
  BY DEF SetPurchasedQuantity
<1>6. Capacity' = [Capacity EXCEPT ![ref] = qty]
  <2> HIDE DEF new
  <2> QED  BY <1>4, <1>5 DEF Capacity
<1>7. Held' = Held
  <2> HIDE DEF new
  <2> QED  BY <1>4, <1>5 DEF Held
<1>8. ref \in DOMAIN Capacity /\ Total(Held[ref]) <= qty
  BY <1>1, <1>3 DEF Capacity, Held
<1> QED  BY <1>6, <1>7, <1>8 DEF Promise!Resize, Capacity, Held

\* Every step is a step of Stock or changes nothing in it.
LEMMA StepImplements ==
    ASSUME IInv, [Next]_vars
    PROVE  [Promise!Next]_(Promise!stockVars)
<1>1. ASSUME UNCHANGED batches PROVE UNCHANGED Promise!stockVars
  BY <1>1 DEF Promise!stockVars
<1>2. CASE \E b \in NewBatches : AddBatch(b)
  BY <1>2, AddBatchReceives, ReceiveImplements DEF IInv, Promise!Next
<1>3. CASE \E vector \in BatchVectors : AddBatches(vector)
  BY <1>3, AddBatchesReceives, ReceiveImplements DEF IInv, Promise!Next
<1>4. CASE \E line \in Lines : Allocate(line)
  <2>1. PICK line \in Lines : Allocate(line)
    BY <1>4
  <2>2. CASE \E ref \in DOMAIN batches : AllocateTo(line, ref)
    <3>1. PICK ref \in DOMAIN batches : AllocateTo(line, ref)
      BY <2>2
    <3>2. ref \in Refs
      BY DEF IInv, TypeOK, MapOfBatches
    <3> QED  BY <3>1, <3>2, AllocateImplements DEF Promise!Next
  <2>3. CASE AllocateOutOfStock(line) \/ AllocateThrows(line)
    BY <1>1, <2>3 DEF AllocateOutOfStock, AllocateThrows
  <2> QED  BY <2>1, <2>2, <2>3 DEF Allocate
<1>5. CASE \E ref \in Refs, qty \in Quantities : ChangeBatchQuantity(ref, qty)
  BY <1>1, <1>5 DEF ChangeBatchQuantity
<1>6. CASE \E line \in Lines : DeallocateOne(line)
  <2>1. PICK line \in Lines : DeallocateOne(line)
    BY <1>6
  <2>2. PICK ref \in Refs : ref = loop.ref
    BY <2>1 DEF DeallocateOne, IInv, TypeOK, MapOfBatches
  <2>3. Promise!Release(line, ref)
    BY <2>1, <2>2, DeallocateImplements
  <2>4. Promise!Next
    BY <2>2, <2>3 DEF Promise!Next
  <2> QED  BY <2>4
<1>7. CASE SetPurchasedQuantity
  <2>1. PICK ref \in Refs, qty \in Size : ref = loop.ref /\ qty = loop.newQty
    BY <1>7 DEF SetPurchasedQuantity, IInv, TypeOK, MapOfBatches
  <2>2. Promise!Resize(ref, qty)
    BY <1>7, <2>1, SetQuantityImplements
  <2>3. Promise!Next
    BY <2>1, <2>2 DEF Promise!Next
  <2> QED  BY <2>3
<1>8. CASE NothingToDeallocate \/ ClearMessages \/ UNCHANGED vars
  BY <1>1, <1>8 DEF NothingToDeallocate, ClearMessages, vars
<1> QED
  BY <1>2, <1>3, <1>4, <1>5, <1>6, <1>7, <1>8 DEF Next

(***************************************************************************)
(* While no quantity exceeds an int32_t, the aggregate implements Stock:   *)
(* deliveries are only ever announced, lines are placed where they fit,    *)
(* and a delivery is cut only when what it holds fits.                     *)
(***************************************************************************)
THEOREM ProductImplementsStock ==
    ASSUME QuantitiesFit
    PROVE  Spec => ImplementsStock
<1>1. Init => Promise!Init
  BY InitImplements
<1>2. IInv /\ [Next]_vars => [Promise!Next]_(Promise!stockVars)
  BY StepImplements
<1> QED  BY <1>1, <1>2, Inductive, PTL DEF Spec, ImplementsStock, Promise!Spec
=============================================================================
