---------------------------- MODULE ProductProofs ----------------------------
(***************************************************************************)
(* Theorems about Product, for every set of orders, SKUs, batches and      *)
(* quantities and for every width of the integers.                         *)
(***************************************************************************)
EXTENDS Product, BatchProofs

-----------------------------------------------------------------------------
\* What the constructor and AddBatches build is a map of new batches.
LEMMA EmplacedIsMap ==
    ASSUME NEW vector \in BatchVectors
    PROVE  /\ MapOfBatches(Emplaced(vector))
           /\ \A r \in DOMAIN Emplaced(vector) : Emplaced(vector)[r] \in NewBatches
<1> DEFINE f == Emplaced(vector)
<1>1. vector \in Seq(NewBatches)
  BY ProductAssumption
<1>2. \A r \in DOMAIN f : f[r] \in NewBatches /\ f[r].reference = r
  BY <1>1, EmplacedFirst
<1>3. \A b \in NewBatches : b \in BatchType /\ b.allocations = {} /\ b.reference \in Refs
                               /\ IsFiniteSet(b.allocations)
  BY ProductAssumption, FS_EmptySet DEF BatchType
<1>4. f = [r \in DOMAIN f |-> f[r]]
  BY DEF Emplaced
<1>5. DOMAIN f \subseteq Refs
  BY <1>2, <1>3
<1> HIDE DEF f
<1>6. MapOfBatches(f)
  BY <1>2, <1>3, <1>4, <1>5 DEF MapOfBatches
<1> QED  BY <1>2, <1>6 DEF f

(***************************************************************************)
(* One batch under its own reference.                                      *)
(***************************************************************************)
LEMMA ByReferenceIsMap ==
    ASSUME NEW b \in NewBatches
    PROVE  /\ MapOfBatches(ByReference(b))
           /\ \A r \in DOMAIN ByReference(b) : ByReference(b)[r] \in NewBatches
<1>1. /\ b \in BatchType /\ b.allocations = {} /\ b.reference \in Refs
      /\ IsFiniteSet(b.allocations)
  BY ProductAssumption, FS_EmptySet DEF BatchType
<1> QED  BY <1>1 DEF ByReference, MapOfBatches

(***************************************************************************)
(* Merging keeps every batch that was there and takes the others from the  *)
(* second map.                                                             *)
(***************************************************************************)
LEMMA MergedIsMap ==
    ASSUME NEW f, NEW g, MapOfBatches(f), MapOfBatches(g)
    PROVE  /\ MapOfBatches(Merged(f, g))
           /\ DOMAIN Merged(f, g) = DOMAIN f \cup DOMAIN g
           /\ \A r \in DOMAIN f : Merged(f, g)[r] = f[r]
           /\ \A r \in DOMAIN g \ DOMAIN f : Merged(f, g)[r] = g[r]
<1>1. DOMAIN Merged(f, g) = DOMAIN f \cup DOMAIN g
  BY DEF Merged
<1>2. /\ \A r \in DOMAIN f : Merged(f, g)[r] = f[r]
      /\ \A r \in DOMAIN g \ DOMAIN f : Merged(f, g)[r] = g[r]
  BY DEF Merged
<1>3. Merged(f, g) = [r \in DOMAIN Merged(f, g) |-> Merged(f, g)[r]]
  BY DEF Merged
<1> QED  BY <1>1, <1>2, <1>3 DEF MapOfBatches

(***************************************************************************)
(* Replacing one batch of a map by another of the same reference.          *)
(***************************************************************************)
LEMMA ReplacedIsMap ==
    ASSUME NEW f, NEW ref \in DOMAIN f, NEW b \in BatchType,
           MapOfBatches(f), b.reference = ref, b.allocations \subseteq Lines,
           IsFiniteSet(b.allocations)
    PROVE  /\ MapOfBatches([f EXCEPT ![ref] = b])
           /\ DOMAIN [f EXCEPT ![ref] = b] = DOMAIN f
           /\ [f EXCEPT ![ref] = b][ref] = b
           /\ \A r \in DOMAIN f \ {ref} : [f EXCEPT ![ref] = b][r] = f[r]
BY DEF MapOfBatches
(***************************************************************************)
(* `difference` starts from an integer, whatever the casts do.             *)
(***************************************************************************)
LEMMA DifferencesType ==
    ASSUME NEW b \in BatchType, IsFiniteSet(b.allocations), NEW qty \in Int
    PROVE  Differences(b, qty) \subseteq Int
<1>1. AvailableQuantity(b) \in Int /\ b.purchased \in Int
  BY AvailableType DEF BatchType, Size
<1>2. ToInt32(qty) + ToInt32(AvailableQuantity(b)) - ToInt32(b.purchased) \in Int
  BY <1>1, ToInt32Type
<1> QED  BY <1>2, Int32ResultsType DEF Differences

-----------------------------------------------------------------------------
(***************************************************************************)
(* Type correctness, step by step.                                         *)
(***************************************************************************)
LEMMA InitTyped == Init => TypeOK
<1> SUFFICES ASSUME Init PROVE TypeOK
  OBVIOUS
<1>1. MapOfBatches(batches)
  BY EmplacedIsMap DEF Init
<1>2. messages \in Seq(Event)
  BY EmptySeq DEF Init
<1>3. loop = NotLooping /\ version = 0 /\ outcome = "returned"
  BY DEF Init
<1>4. 0 \in Size
  BY BatchAssumption DEF Size
<1> QED  BY <1>1, <1>2, <1>3, <1>4 DEF TypeOK, NotLooping, Looping

(***************************************************************************)
(* Adding batches leaves every batch there is alone and takes the new ones *)
(* as they are, or changes nothing (Product.cpp:16-40).                    *)
(***************************************************************************)
OnlyReceives ==
    /\ MapOfBatches(batches')
    /\ DOMAIN batches \subseteq DOMAIN batches'
    /\ \A r \in DOMAIN batches : batches'[r] = batches[r]
    /\ \A r \in DOMAIN batches' \ DOMAIN batches : batches'[r] \in NewBatches

\* Merging a map of new batches, or leaving the batches alone, only adds.
LEMMA MergingReceives ==
    ASSUME NEW more, MapOfBatches(batches), MapOfBatches(more),
           \A r \in DOMAIN more : more[r] \in NewBatches,
           \/ batches' = Merged(batches, more)
           \/ UNCHANGED batches
    PROVE  OnlyReceives
<1>1. CASE UNCHANGED batches
  BY <1>1 DEF OnlyReceives, MapOfBatches
<1>2. CASE batches' = Merged(batches, more)
  <2>1. /\ MapOfBatches(Merged(batches, more))
        /\ DOMAIN Merged(batches, more) = DOMAIN batches \cup DOMAIN more
        /\ \A r \in DOMAIN batches : Merged(batches, more)[r] = batches[r]
        /\ \A r \in DOMAIN more \ DOMAIN batches :
              Merged(batches, more)[r] = more[r]
    BY MergedIsMap
  <2> QED  BY <1>2, <2>1 DEF OnlyReceives
<1> QED  BY <1>1, <1>2

\* AddBatch only adds.
LEMMA AddBatchReceives ==
    ASSUME TypeOK, NEW b \in NewBatches, AddBatch(b)
    PROVE  OnlyReceives
<1>1. /\ MapOfBatches(ByReference(b))
      /\ \A r \in DOMAIN ByReference(b) : ByReference(b)[r] \in NewBatches
  BY ByReferenceIsMap
<1>2. \/ batches' = Merged(batches, ByReference(b))
      \/ UNCHANGED batches
  BY DEF AddBatch
<1>3. MapOfBatches(batches)
  BY DEF TypeOK
<1> QED  BY <1>1, <1>2, <1>3, MergingReceives

\* AddBatches only adds.
LEMMA AddBatchesReceives ==
    ASSUME TypeOK, NEW vector \in BatchVectors, AddBatches(vector)
    PROVE  OnlyReceives
<1>1. /\ MapOfBatches(Emplaced(vector))
      /\ \A r \in DOMAIN Emplaced(vector) : Emplaced(vector)[r] \in NewBatches
  BY EmplacedIsMap
<1>2. \/ batches' = Merged(batches, Emplaced(vector))
      \/ UNCHANGED batches
  BY DEF AddBatches
<1>3. MapOfBatches(batches)
  BY DEF TypeOK
<1> QED  BY <1>1, <1>2, <1>3, MergingReceives

\* AddBatch keeps the types, whether it accepts the batch or throws.
LEMMA AddBatchTyped ==
    ASSUME TypeOK, NEW b \in NewBatches, AddBatch(b)
    PROVE  TypeOK'
<1>1. MapOfBatches(batches')
  BY AddBatchReceives DEF OnlyReceives
<1>2. /\ ~Looping
      /\ UNCHANGED <<version, messages, loop>>
      /\ outcome' \in {"returned", "threw"}
  BY DEF AddBatch, CallStarts
<1> QED  BY <1>1, <1>2 DEF TypeOK, Looping

\* AddBatches keeps the types, whether it accepts the vector or throws.
LEMMA AddBatchesTyped ==
    ASSUME TypeOK, NEW vector \in BatchVectors, AddBatches(vector)
    PROVE  TypeOK'
<1>1. MapOfBatches(batches')
  BY AddBatchesReceives DEF OnlyReceives
<1>2. /\ ~Looping
      /\ UNCHANGED <<version, messages, loop>>
      /\ outcome' \in {"returned", "threw"}
  BY DEF AddBatches, CallStarts
<1> QED  BY <1>1, <1>2 DEF TypeOK, Looping

(***************************************************************************)
(* A line goes to a batch of the map, and only that batch changes.         *)
(***************************************************************************)
LEMMA AllocateTyped ==
    ASSUME TypeOK, NEW line \in Lines, Allocate(line)
    PROVE  TypeOK'
<1>1. line \in OrderLine
  BY ProductAssumption
<1>2. ASSUME NEW ref \in DOMAIN batches, AllocateTo(line, ref)
      PROVE  TypeOK'
  <2> DEFINE new == Holding(batches[ref], line)
  <2>1. /\ batches[ref] \in BatchType
        /\ batches[ref].reference = ref
        /\ batches[ref].allocations \subseteq Lines
        /\ IsFiniteSet(batches[ref].allocations)
        /\ ref \in Refs
    BY DEF TypeOK, MapOfBatches
  <2>2. /\ new \in BatchType
        /\ new.reference = ref
        /\ new.allocations \subseteq Lines
    BY <1>1, <2>1 DEF Holding, BatchType
  <2>3. IsFiniteSet(new.allocations)
    <3>1. new.allocations \in {batches[ref].allocations, batches[ref].allocations \cup {line}}
      BY <2>1 DEF Holding, BatchType
    <3> QED  BY <2>1, <3>1, FS_AddElement
  <2>4. batches' = [batches EXCEPT ![ref] = new]
    BY <1>2 DEF AllocateTo
  <2>5. MapOfBatches(batches')
    <3> HIDE DEF new
    <3> QED  BY <2>2, <2>3, <2>4, ReplacedIsMap DEF TypeOK
  <2>6. messages' \in Seq(Event)
    <3>1. Allocated(line, ref) \in Event
      BY <1>1, <2>1 DEF Allocated, Event
    <3> QED  BY <1>2, <3>1, AppendProperties DEF AllocateTo, TypeOK
  <2>7. version' \in Nat /\ outcome' = "returned" /\ UNCHANGED loop /\ ~Looping
    BY <1>2 DEF AllocateTo, TypeOK, CallStarts
  <2> QED  BY <2>5, <2>6, <2>7 DEF TypeOK, Looping
<1>3. CASE AllocateOutOfStock(line)
  <2>1. OutOfStock(line.sku) \in Event
    BY <1>1 DEF OutOfStock, Event, OrderLine
  <2>2. messages' \in Seq(Event)
    BY <1>3, <2>1, AppendProperties DEF AllocateOutOfStock, TypeOK
  <2> QED  BY <1>3, <2>2 DEF AllocateOutOfStock, TypeOK, Looping
<1>4. CASE AllocateThrows(line)
  BY <1>4 DEF AllocateThrows, TypeOK, Looping
<1> QED  BY <1>2, <1>3, <1>4 DEF Allocate

\* Entering the loop of ChangeBatchQuantity keeps the types.
LEMMA ChangeTyped ==
    ASSUME TypeOK, NEW ref \in Refs, NEW qty \in Quantities,
           ChangeBatchQuantity(ref, qty)
    PROVE  TypeOK'
<1>1. CASE ref \notin DOMAIN batches
  BY <1>1 DEF ChangeBatchQuantity, TypeOK, Looping
<1>2. CASE ref \in DOMAIN batches
  <2>1. PICK d \in Differences(batches[ref], qty) :
           loop' = [ref |-> ref, newQty |-> qty, difference |-> d]
    BY <1>2 DEF ChangeBatchQuantity
  <2>2. qty \in Size /\ qty \in Int
    BY ProductAssumption DEF Size
  <2>3. d \in Int
    BY <1>2, <2>2, DifferencesType DEF TypeOK, MapOfBatches
  <2>4. UNCHANGED <<batches, version, messages, outcome>>
    BY <1>2 DEF ChangeBatchQuantity
  <2> QED  BY <1>2, <2>1, <2>2, <2>3, <2>4 DEF TypeOK, Looping
<1> QED  BY <1>1, <1>2

\* A turn of the loop keeps the types.
LEMMA DeallocateOneTyped ==
    ASSUME TypeOK, NEW line \in Lines, DeallocateOne(line)
    PROVE  TypeOK'
<1> DEFINE ref == loop.ref
           new == Without(batches[ref], line)
<1>1. line \in OrderLine /\ line.quantity \in Int
  BY ProductAssumption DEF OrderLine, Size
<1>2. /\ ref \in DOMAIN batches
      /\ batches[ref] \in BatchType
      /\ batches[ref].reference = ref
      /\ batches[ref].allocations \subseteq Lines
      /\ IsFiniteSet(batches[ref].allocations)
  BY DEF TypeOK, MapOfBatches, DeallocateOne
<1>3. /\ new \in BatchType
      /\ new.reference = ref
      /\ new.allocations \subseteq Lines
      /\ IsFiniteSet(new.allocations)
  <2>1. /\ new \in BatchType
        /\ new.reference = ref
        /\ new.allocations = batches[ref].allocations \ {line}
    BY <1>2 DEF Without, BatchType
  <2> QED  BY <1>2, <2>1, FS_RemoveElement
<1>4. batches' = [batches EXCEPT ![ref] = new]
  BY DEF DeallocateOne
<1>5. MapOfBatches(batches') /\ DOMAIN batches' = DOMAIN batches
  <2> HIDE DEF new, ref
  <2> QED  BY <1>2, <1>3, <1>4, ReplacedIsMap DEF TypeOK
<1>6. messages' \in Seq(Event)
  <2>1. Deallocated(line) \in Event
    BY <1>1 DEF Deallocated, Event
  <2> QED  BY <2>1, AppendProperties DEF DeallocateOne, TypeOK
<1>7. loop.difference \in Int /\ loop.newQty \in Size /\ loop.ref \in Refs \cup {NoRef}
  BY DEF TypeOK
<1>8. PICK d \in Int32Results(loop.difference + ToInt32(line.quantity)) :
         loop' = [loop EXCEPT !.difference = d]
  BY DEF DeallocateOne
<1>9. d \in Int
  BY <1>1, <1>7, ToInt32Type, Int32ResultsType
<1>10. /\ loop' \in [ref : Refs \cup {NoRef}, newQty : Size, difference : Int]
       /\ loop'.ref = loop.ref
  BY <1>8, <1>9 DEF TypeOK
<1>11. UNCHANGED <<version, outcome>>
  BY DEF DeallocateOne
<1> QED  BY <1>2, <1>5, <1>6, <1>10, <1>11 DEF TypeOK, Looping
\* Both ways out of the loop keep the types.
LEMMA EndOfLoopTyped ==
    ASSUME TypeOK, NothingToDeallocate \/ SetPurchasedQuantity
    PROVE  TypeOK'
<1>1. loop' = NotLooping /\ ~Looping'
  BY DEF NothingToDeallocate, SetPurchasedQuantity, Looping, NotLooping
<1>2. 0 \in Size
  BY BatchAssumption DEF Size
<1>3. loop' \in [ref : Refs \cup {NoRef}, newQty : Size, difference : Int]
  BY <1>1, <1>2 DEF NotLooping
<1>4. CASE NothingToDeallocate
  BY <1>1, <1>3, <1>4 DEF NothingToDeallocate, TypeOK
<1>5. CASE SetPurchasedQuantity
  <2> DEFINE ref == loop.ref
             new == Resized(batches[ref], loop.newQty)
  <2>1. /\ ref \in DOMAIN batches
        /\ batches[ref] \in BatchType
        /\ batches[ref].reference = ref
        /\ batches[ref].allocations \subseteq Lines
        /\ IsFiniteSet(batches[ref].allocations)
        /\ loop.newQty \in Size
    BY <1>5 DEF TypeOK, MapOfBatches, SetPurchasedQuantity
  <2>2. /\ new \in BatchType
        /\ new.reference = ref
        /\ new.allocations = batches[ref].allocations
    BY <2>1 DEF Resized, BatchType
  <2>3. batches' = [batches EXCEPT ![ref] = new]
    BY <1>5 DEF SetPurchasedQuantity
  <2>4. MapOfBatches(batches')
    <3> HIDE DEF new, ref
    <3> QED  BY <2>1, <2>2, <2>3, ReplacedIsMap DEF TypeOK
  <2>5. version' \in Nat /\ outcome' = "returned" /\ UNCHANGED messages
    BY <1>5 DEF SetPurchasedQuantity, TypeOK
  <2> QED  BY <1>1, <1>3, <2>4, <2>5 DEF TypeOK
<1> QED  BY <1>4, <1>5

\* Emptying the list of events keeps the types.
LEMMA ClearMessagesTyped ==
    ASSUME TypeOK, ClearMessages
    PROVE  TypeOK'
<1>1. messages' \in Seq(Event)
  BY EmptySeq DEF ClearMessages
<1> QED  BY <1>1 DEF ClearMessages, TypeOK, Looping

\* Every step keeps the types.
LEMMA StepTyped == TypeOK /\ [Next]_vars => TypeOK'
<1> SUFFICES ASSUME TypeOK, [Next]_vars PROVE TypeOK'
  OBVIOUS
<1>1. ASSUME NEW b \in NewBatches, AddBatch(b) PROVE TypeOK'
  BY <1>1, AddBatchTyped
<1>2. ASSUME NEW vector \in BatchVectors, AddBatches(vector) PROVE TypeOK'
  BY <1>2, AddBatchesTyped
<1>3. ASSUME NEW line \in Lines, Allocate(line) PROVE TypeOK'
  BY <1>3, AllocateTyped
<1>4. ASSUME NEW ref \in Refs, NEW qty \in Quantities,
             ChangeBatchQuantity(ref, qty)
      PROVE  TypeOK'
  BY <1>4, ChangeTyped
<1>5. ASSUME NEW line \in Lines, DeallocateOne(line) PROVE TypeOK'
  BY <1>5, DeallocateOneTyped
<1>6. CASE NothingToDeallocate \/ SetPurchasedQuantity
  BY <1>6, EndOfLoopTyped
<1>7. CASE ClearMessages
  BY <1>7, ClearMessagesTyped
<1>8. CASE UNCHANGED vars
  BY <1>8 DEF vars, TypeOK, Looping
<1> QED
  BY <1>1, <1>2, <1>3, <1>4, <1>5, <1>6, <1>7, <1>8 DEF Next

(***************************************************************************)
(* The members of the aggregate and the locals of its loop keep their      *)
(* types through every sequence of calls, casts that wrap included.        *)
(***************************************************************************)
THEOREM TypeCorrect == Spec => []TypeOK
<1>1. Init => TypeOK
  BY InitTyped
<1>2. TypeOK /\ [Next]_vars => TypeOK'
  BY StepTyped
<1> QED  BY <1>1, <1>2, PTL DEF Spec

-----------------------------------------------------------------------------
(***************************************************************************)
(* The inductive invariant behind the capacity theorem.  That a batch      *)
(* holds no more than was purchased is preserved by the last step of a     *)
(* reduction only because `difference` has tracked the shortfall, and the  *)
(* casts in `difference` are exact only because no quantity exceeds an     *)
(* int32_t, so both are carried along.                                     *)
(***************************************************************************)
Sound(b) ==
    /\ Total(b.allocations) <= b.purchased
    /\ b.purchased <= IntMax

IInv ==
    /\ TypeOK
    /\ \A r \in DOMAIN batches : Sound(batches[r])
    /\ LoopTracksShortfall
    /\ Looping => loop.newQty <= IntMax

\* A new batch holds nothing, and no quantity exceeds an int32_t.
LEMMA NewBatchSound ==
    ASSUME QuantitiesFit, NEW b \in NewBatches
    PROVE  Sound(b)
<1>1. b \in BatchType /\ b.allocations = {} /\ b.purchased \in Nat
  BY ProductAssumption, BatchAssumption DEF BatchType, Size
<1>2. Total(b.allocations) = 0
  BY <1>1, NoLinesNoUnits
<1> QED  BY <1>1, <1>2 DEF Sound, QuantitiesFit

\* The constructor establishes the invariant.
LEMMA InitInductive ==
    ASSUME QuantitiesFit, Init
    PROVE  IInv
<1>1. TypeOK
  BY InitTyped
<1>2. \A r \in DOMAIN batches : Sound(batches[r])
  BY EmplacedIsMap, NewBatchSound DEF Init
<1>3. ~Looping
  BY DEF Init, Looping, NotLooping
<1> QED  BY <1>1, <1>2, <1>3 DEF IInv, LoopTracksShortfall

(***************************************************************************)
(* A call outside the loop that leaves every batch sound keeps the         *)
(* invariant.                                                              *)
(***************************************************************************)
LEMMA OutsideLoop ==
    ASSUME TypeOK', ~Looping', \A r \in DOMAIN batches' : Sound(batches'[r])
    PROVE  IInv'
BY DEF IInv, LoopTracksShortfall

\* Adding batches leaves every batch sound.
LEMMA ReceivesSound ==
    ASSUME QuantitiesFit, IInv, OnlyReceives
    PROVE  \A r \in DOMAIN batches' : Sound(batches'[r])
BY NewBatchSound DEF OnlyReceives, IInv

\* Allocate keeps the invariant: a line goes only where it fits.
LEMMA AllocateInductive ==
    ASSUME IInv, NEW line \in Lines, Allocate(line)
    PROVE  IInv'
<1>1. TypeOK'
  BY AllocateTyped DEF IInv
<1>2. ~Looping'
  BY DEF Allocate, AllocateTo, AllocateOutOfStock, AllocateThrows, CallStarts, Looping
<1>3. ASSUME NEW ref \in DOMAIN batches, AllocateTo(line, ref)
      PROVE  \A r \in DOMAIN batches' : Sound(batches'[r])
  <2> DEFINE b == batches[ref]
             new == Holding(b, line)
  <2>1. /\ b \in BatchType
        /\ IsFiniteSet(b.allocations)
        /\ Sound(b)
        /\ line \in OrderLine
    BY ProductAssumption DEF IInv, TypeOK, MapOfBatches
  <2>2. Total(new.allocations) <= new.purchased
    <3> HIDE DEF b
    <3> QED  BY <2>1, HoldingKeepsWithinPurchased DEF Sound
  <2>3. new.purchased = b.purchased
    BY <2>1 DEF Holding, BatchType
  <2>4. Sound(new)
    BY <2>1, <2>2, <2>3 DEF Sound
  <2>5. batches' = [batches EXCEPT ![ref] = new]
    BY <1>3 DEF AllocateTo
  <2> HIDE DEF b, new
  <2> QED  BY <2>4, <2>5 DEF IInv
<1>4. ASSUME AllocateOutOfStock(line) \/ AllocateThrows(line)
      PROVE  \A r \in DOMAIN batches' : Sound(batches'[r])
  BY <1>4 DEF AllocateOutOfStock, AllocateThrows, IInv
<1> QED
  BY <1>1, <1>2, <1>3, <1>4, OutsideLoop DEF Allocate, IInv

(***************************************************************************)
(* With every operand within an int32_t, `difference` starts as the new    *)
(* quantity less what the batch holds (Product.cpp:75-77).                 *)
(***************************************************************************)
LEMMA DifferenceExact ==
    ASSUME NEW b \in BatchType, IsFiniteSet(b.allocations), Sound(b),
           NEW qty \in Nat, qty <= IntMax, NEW d \in Differences(b, qty)
    PROVE  d = qty - Total(b.allocations)
<1> DEFINE held == Total(b.allocations)
<1>1. held \in Nat /\ b.purchased \in Nat /\ IntMax \in Nat
  BY HeldUnitsFinite, TotalType, BatchAssumption DEF BatchType, Size
<1>2. held <= b.purchased /\ b.purchased <= IntMax
  BY DEF Sound
<1>3. AvailableQuantity(b) = b.purchased - held
  BY <1>2, AvailableExact
<1>4. ToInt32(qty) = qty
  BY <1>1, ToInt32Exact
<1>5. ToInt32(b.purchased) = b.purchased
  BY <1>1, <1>2, ToInt32Exact
<1>6. ToInt32(b.purchased - held) = b.purchased - held
  <2> HIDE DEF held
  <2> QED  BY <1>1, <1>2, ToInt32Exact
<1>7. qty + (b.purchased - held) - b.purchased = qty - held
  <2> HIDE DEF held
  <2> QED  BY <1>1
<1>8. ToInt32(qty - held) = qty - held
  <2> HIDE DEF held
  <2> QED  BY <1>1, <1>2, ToInt32Exact
<1> QED
  BY <1>3, <1>4, <1>5, <1>6, <1>7, <1>8 DEF Differences, Int32Results

\* Entering the loop keeps the invariant: difference is exact.
LEMMA ChangeInductive ==
    ASSUME QuantitiesFit, IInv, NEW ref \in Refs, NEW qty \in Quantities,
           ChangeBatchQuantity(ref, qty)
    PROVE  IInv'
<1>1. TypeOK'
  BY ChangeTyped DEF IInv
<1>2. UNCHANGED batches
  BY DEF ChangeBatchQuantity
<1>3. CASE ref \notin DOMAIN batches
  BY <1>1, <1>2, <1>3
     DEF ChangeBatchQuantity, CallStarts, IInv, Looping, LoopTracksShortfall
<1>4. CASE ref \in DOMAIN batches
  <2>1. PICK d \in Differences(batches[ref], qty) :
           loop' = [ref |-> ref, newQty |-> qty, difference |-> d]
    BY <1>4 DEF ChangeBatchQuantity
  <2>2. qty \in Nat /\ qty <= IntMax
    BY ProductAssumption, BatchAssumption DEF QuantitiesFit, Size
  <2>3. /\ batches[ref] \in BatchType
        /\ IsFiniteSet(batches[ref].allocations)
        /\ Sound(batches[ref])
    BY <1>4 DEF IInv, TypeOK, MapOfBatches
  <2>4. d = qty - Total(batches[ref].allocations)
    BY <2>2, <2>3, DifferenceExact
  <2>5. LoopTracksShortfall'
    BY <1>2, <2>1, <2>4 DEF LoopTracksShortfall
  <2> QED  BY <1>1, <1>2, <2>1, <2>2, <2>5 DEF IInv
<1> QED  BY <1>3, <1>4

\* A turn of the loop keeps the invariant: difference grows by what the batch lost.
LEMMA DeallocateOneInductive ==
    ASSUME IInv, NEW line \in Lines, DeallocateOne(line)
    PROVE  IInv'
<1> DEFINE ref == loop.ref
           b == batches[ref]
           new == Without(b, line)
           held == Total(b.allocations)
<1>1. TypeOK'
  BY DeallocateOneTyped DEF IInv
<1>2. /\ ref \in DOMAIN batches
      /\ b \in BatchType
      /\ IsFiniteSet(b.allocations)
      /\ Sound(b)
      /\ line \in b.allocations
      /\ Looping
      /\ loop.difference = loop.newQty - held
      /\ loop.newQty \in Nat /\ loop.newQty <= IntMax
  BY BatchAssumption
     DEF IInv, TypeOK, MapOfBatches, DeallocateOne, LoopTracksShortfall, Size
<1>3. /\ new.allocations = b.allocations \ {line}
      /\ new.purchased = b.purchased
  BY <1>2 DEF Without, BatchType
<1>4. /\ line.quantity \in Nat
      /\ held \in Nat
      /\ Total(new.allocations) = held - line.quantity
      /\ line.quantity <= held
  <2> HIDE DEF b, new
  <2> QED  BY <1>2, <1>3, HeldLineFits
<1>5. /\ b.purchased \in Nat /\ IntMax \in Nat
      /\ held <= b.purchased /\ b.purchased <= IntMax
  BY <1>2, BatchAssumption DEF Sound, BatchType, Size
<1>6. Sound(new)
  <2> HIDE DEF b, new, held
  <2> QED  BY <1>3, <1>4, <1>5 DEF Sound
<1>7. batches' = [batches EXCEPT ![ref] = new]
  BY DEF DeallocateOne
<1>8. \A r \in DOMAIN batches' : Sound(batches'[r])
  <2> HIDE DEF b, new, held, ref
  <2> QED  BY <1>6, <1>7 DEF IInv
<1>9. ToInt32(line.quantity) = line.quantity
  <2> HIDE DEF b, new, held
  <2> QED  BY <1>4, <1>5, ToInt32Exact
<1>10. ToInt32(loop.difference + line.quantity) = loop.newQty - (held - line.quantity)
  <2>1. loop.difference + line.quantity = loop.newQty - (held - line.quantity)
    <3> HIDE DEF b, new, held
    <3> QED  BY <1>2, <1>4
  <2>2. ToInt32(loop.newQty - (held - line.quantity)) = loop.newQty - (held - line.quantity)
    <3> HIDE DEF b, new, held
    <3> QED  BY <1>2, <1>4, <1>5, ToInt32Exact
  <2> QED  BY <2>1, <2>2
<1>11. loop.difference + line.quantity = loop.newQty - (held - line.quantity)
  <2> HIDE DEF b, new, held
  <2> QED  BY <1>2, <1>4
<1>12. loop' = [loop EXCEPT !.difference = loop.newQty - Total(new.allocations)]
  <2>1. PICK d \in Int32Results(loop.difference + ToInt32(line.quantity)) :
           loop' = [loop EXCEPT !.difference = d]
    BY DEF DeallocateOne
  <2>2. d = loop.newQty - (held - line.quantity)
    BY <1>9, <1>10, <1>11, <2>1 DEF Int32Results
  <2> QED  BY <1>4, <2>1, <2>2
<1>13. /\ loop'.ref = ref
       /\ loop'.newQty = loop.newQty
       /\ loop'.difference = loop.newQty - Total(new.allocations)
  <2> HIDE DEF new
  <2> QED  BY <1>12 DEF IInv, TypeOK
<1>14. batches'[ref] = new
  <2> HIDE DEF b, new, ref
  <2> QED  BY <1>2, <1>7
<1>15. LoopTracksShortfall'
  BY <1>13, <1>14 DEF LoopTracksShortfall
<1>16. Looping' => loop'.newQty <= IntMax
  BY <1>2, <1>13
<1> HIDE DEF ref, b, new, held
<1> QED  BY <1>1, <1>8, <1>15, <1>16 DEF IInv

\* Leaving the loop keeps the invariant: the new quantity covers what is held.
LEMMA EndOfLoopInductive ==
    ASSUME IInv, NothingToDeallocate \/ SetPurchasedQuantity
    PROVE  IInv'
<1>1. TypeOK'
  BY EndOfLoopTyped DEF IInv
<1>2. ~Looping'
  BY DEF NothingToDeallocate, SetPurchasedQuantity, Looping, NotLooping
<1>3. CASE NothingToDeallocate
  BY <1>1, <1>2, <1>3, OutsideLoop DEF NothingToDeallocate, IInv
<1>4. CASE SetPurchasedQuantity
  <2> DEFINE ref == loop.ref
             b == batches[ref]
             new == Resized(b, loop.newQty)
  <2>1. /\ ref \in DOMAIN batches
        /\ b \in BatchType
        /\ IsFiniteSet(b.allocations)
        /\ loop.newQty \in Nat /\ loop.newQty <= IntMax
        /\ loop.difference = loop.newQty - Total(b.allocations)
        /\ loop.difference >= 0
    BY <1>4, BatchAssumption
       DEF IInv, TypeOK, MapOfBatches, SetPurchasedQuantity, LoopTracksShortfall, Size
  <2>2. Total(b.allocations) \in Nat
    BY <2>1, HeldUnitsFinite, TotalType
  <2>3. new.allocations = b.allocations /\ new.purchased = loop.newQty
    BY <2>1 DEF Resized, BatchType
  <2>4. Sound(new)
    <3> HIDE DEF b, new
    <3> QED  BY <2>1, <2>2, <2>3 DEF Sound
  <2>5. batches' = [batches EXCEPT ![ref] = new]
    BY <1>4 DEF SetPurchasedQuantity
  <2>6. \A r \in DOMAIN batches' : Sound(batches'[r])
    <3> HIDE DEF b, new, ref
    <3> QED  BY <2>4, <2>5 DEF IInv
  <2> QED  BY <1>1, <1>2, <2>6, OutsideLoop
<1> QED  BY <1>3, <1>4

\* Every step keeps the invariant.
LEMMA StepInductive ==
    ASSUME QuantitiesFit
    PROVE  IInv /\ [Next]_vars => IInv'
<1> SUFFICES ASSUME IInv, [Next]_vars PROVE IInv'
  OBVIOUS
<1>1. ASSUME NEW b \in NewBatches, AddBatch(b) PROVE IInv'
  <2>1. OnlyReceives /\ TypeOK'
    BY <1>1, AddBatchReceives, AddBatchTyped DEF IInv
  <2>2. ~Looping'
    BY <1>1 DEF AddBatch, CallStarts, Looping
  <2> QED  BY <2>1, <2>2, ReceivesSound, OutsideLoop
<1>2. ASSUME NEW vector \in BatchVectors, AddBatches(vector) PROVE IInv'
  <2>1. OnlyReceives /\ TypeOK'
    BY <1>2, AddBatchesReceives, AddBatchesTyped DEF IInv
  <2>2. ~Looping'
    BY <1>2 DEF AddBatches, CallStarts, Looping
  <2> QED  BY <2>1, <2>2, ReceivesSound, OutsideLoop
<1>3. ASSUME NEW line \in Lines, Allocate(line) PROVE IInv'
  BY <1>3, AllocateInductive
<1>4. ASSUME NEW ref \in Refs, NEW qty \in Quantities,
             ChangeBatchQuantity(ref, qty)
      PROVE  IInv'
  BY <1>4, ChangeInductive
<1>5. ASSUME NEW line \in Lines, DeallocateOne(line) PROVE IInv'
  BY <1>5, DeallocateOneInductive
<1>6. CASE NothingToDeallocate \/ SetPurchasedQuantity
  BY <1>6, EndOfLoopInductive
<1>7. CASE ClearMessages
  <2>1. TypeOK'
    BY <1>7, ClearMessagesTyped DEF IInv
  <2> QED  BY <1>7, <2>1, OutsideLoop DEF ClearMessages, Looping, IInv
<1>8. CASE UNCHANGED vars
  <2>1. TypeOK'
    BY <1>8, StepTyped DEF IInv
  <2> QED  BY <1>8, <2>1 DEF vars, IInv, Looping, LoopTracksShortfall
<1> QED
  BY <1>1, <1>2, <1>3, <1>4, <1>5, <1>6, <1>7, <1>8 DEF Next

\* The invariant holds throughout.
LEMMA Inductive ==
    ASSUME QuantitiesFit
    PROVE  Spec => []IInv
<1>1. Init => IInv
  BY InitInductive
<1>2. IInv /\ [Next]_vars => IInv'
  BY StepInductive
<1> QED  BY <1>1, <1>2, PTL DEF Spec

(***************************************************************************)
(* While no quantity exceeds an int32_t, no batch ever holds more than was *)
(* purchased, whatever sequence of calls is made and between the turns of  *)
(* a reduction too.                                                        *)
(***************************************************************************)
THEOREM CapacityRespected ==
    ASSUME QuantitiesFit
    PROVE  Spec => []NoOverAllocation
<1>1. IInv => NoOverAllocation
  BY DEF IInv, Sound, NoOverAllocation
<1> QED  BY <1>1, Inductive, PTL

(***************************************************************************)
(* Under the same condition a reduction keeps exact count of what is left  *)
(* to release...                                                           *)
(***************************************************************************)
THEOREM ShortfallTracked ==
    ASSUME QuantitiesFit
    PROVE  Spec => []LoopTracksShortfall
<1>1. IInv => LoopTracksShortfall
  BY DEF IInv
<1> QED  BY <1>1, Inductive, PTL

\* A batch that holds more than its new quantity holds a line.
LEMMA ShortfallNeedsLines ==
    ASSUME IInv
    PROVE  ReductionFindsALine
<1> SUFFICES ASSUME Looping, loop.difference < 0
             PROVE  batches[loop.ref].allocations # {}
  BY DEF ReductionFindsALine
<1> DEFINE b == batches[loop.ref]
<1>1. /\ b \in BatchType
      /\ IsFiniteSet(b.allocations)
      /\ loop.newQty \in Nat
      /\ loop.difference = loop.newQty - Total(b.allocations)
  BY BatchAssumption DEF IInv, TypeOK, MapOfBatches, LoopTracksShortfall, Size
<1>2. Total(b.allocations) \in Nat
  BY <1>1, HeldUnitsFinite, TotalType
<1>3. Total(b.allocations) > 0
  <2> HIDE DEF b
  <2> QED  BY <1>1, <1>2
<1> QED  BY <1>1, <1>3, HeldUnitsFinite, TotalType

(***************************************************************************)
(* ... and so it always finds the lines it needs: it never ends in an      *)
(* exception with part of the lines gone.                                  *)
(***************************************************************************)
THEOREM ReductionNeverStuck ==
    ASSUME QuantitiesFit
    PROVE  Spec => []ReductionFindsALine
<1>1. IInv => ReductionFindsALine
  BY ShortfallNeedsLines
<1> QED  BY <1>1, Inductive, PTL

-----------------------------------------------------------------------------
(***************************************************************************)
(* What a single step may do.  A step that takes a line from a batch is a  *)
(* turn of the reduction of that batch.                                    *)
(***************************************************************************)
LEMMA ReleaseIsOfExcess ==
    ASSUME IInv, [Next]_vars, NEW r \in DOMAIN batches,
           ~(batches[r].allocations \subseteq batches'[r].allocations)
    PROVE  /\ r = loop.ref
           /\ Total(batches[r].allocations) > loop.newQty
<1> USE DEF IInv
<1>1. ASSUME OnlyReceives PROVE FALSE
  BY <1>1 DEF OnlyReceives
<1>2. ASSUME UNCHANGED batches PROVE FALSE
  BY <1>2
<1>3. ASSUME NEW line \in Lines, NEW ref \in DOMAIN batches, AllocateTo(line, ref)
      PROVE  FALSE
  <2>1. batches' = [batches EXCEPT ![ref] = Holding(batches[ref], line)]
    BY <1>3 DEF AllocateTo
  <2>2. batches[ref].allocations \subseteq Holding(batches[ref], line).allocations
    BY DEF Holding, TypeOK, MapOfBatches, BatchType
  <2> QED  BY <2>1, <2>2
<1>4. ASSUME NEW line \in Lines, DeallocateOne(line)
      PROVE  r = loop.ref /\ Total(batches[r].allocations) > loop.newQty
  <2>1. r = loop.ref
    BY <1>4 DEF DeallocateOne
  <2>2. /\ loop.difference = loop.newQty - Total(batches[r].allocations)
        /\ loop.difference < 0
        /\ loop.newQty \in Nat
    BY <1>4, <2>1, BatchAssumption
       DEF DeallocateOne, LoopTracksShortfall, TypeOK, Size
  <2>3. Total(batches[r].allocations) \in Nat
    BY HeldUnitsFinite, TotalType DEF TypeOK, MapOfBatches
  <2> QED  BY <2>1, <2>2, <2>3
<1>5. ASSUME SetPurchasedQuantity PROVE FALSE
  <2> DEFINE new == Resized(batches[loop.ref], loop.newQty)
  <2>1. batches' = [batches EXCEPT ![loop.ref] = new]
    BY <1>5 DEF SetPurchasedQuantity
  <2>2. new.allocations = batches[loop.ref].allocations
    BY <1>5 DEF Resized, TypeOK, MapOfBatches, BatchType, SetPurchasedQuantity
  <2> HIDE DEF new
  <2> QED  BY <2>1, <2>2
<1>6. CASE \E b \in NewBatches : AddBatch(b)
  BY <1>1, <1>6, AddBatchReceives
<1>7. CASE \E vector \in BatchVectors : AddBatches(vector)
  BY <1>1, <1>7, AddBatchesReceives
<1>8. CASE \E line \in Lines : Allocate(line)
  BY <1>2, <1>3, <1>8 DEF Allocate, AllocateOutOfStock, AllocateThrows
<1>9. CASE \E ref \in Refs, qty \in Quantities : ChangeBatchQuantity(ref, qty)
  BY <1>2, <1>9 DEF ChangeBatchQuantity
<1>10. CASE NothingToDeallocate \/ ClearMessages \/ UNCHANGED vars
  BY <1>2, <1>10 DEF NothingToDeallocate, ClearMessages, vars
<1> QED
  BY <1>4, <1>5, <1>6, <1>7, <1>8, <1>9, <1>10 DEF Next

(***************************************************************************)
(* A line leaves a batch only in a reduction of that batch, and only while *)
(* the batch holds more than its new quantity.                             *)
(***************************************************************************)
THEOREM OnlyExcessReleased ==
    ASSUME QuantitiesFit
    PROVE  Spec => ReleasesOnlyExcess
<1> DEFINE Released ==
        \A r \in DOMAIN batches :
           ~(batches[r].allocations \subseteq batches'[r].allocations) =>
              /\ r = loop.ref
              /\ Total(batches[r].allocations) > loop.newQty
<1>1. IInv /\ [Next]_vars => [Released]_vars
  BY ReleaseIsOfExcess
<1>2. ReleasesOnlyExcess <=> [][Released]_vars
  BY PTL DEF ReleasesOnlyExcess
<1> HIDE DEF Released
<1> QED  BY <1>1, <1>2, Inductive, PTL DEF Spec

(***************************************************************************)
(* A batch that is not on a shortlist was kept off it by a batch due on    *)
(* the same day.                                                           *)
(***************************************************************************)
LEMMA LeftOutHasTwin ==
    ASSUME TypeOK, NEW S \in Shortlists(batches), NEW r \in DOMAIN batches \ S
    PROVE  HasTwin(batches, r)
<1>1. PICK s \in S : Equivalent(batches[r], batches[s])
  BY DEF Shortlists
<1>2. s \in DOMAIN batches /\ s # r
  BY DEF Shortlists
<1>3. batches[r] \in BatchType /\ batches[s] \in BatchType
  BY <1>2 DEF TypeOK, MapOfBatches
<1>4. batches[r].eta # NoEta /\ batches[s].eta = batches[r].eta
  BY <1>1, <1>3, EquivalentAreSameDay
<1> QED  BY <1>2, <1>4 DEF HasTwin

\* A batch with room that is refused was left off the shortlist.
LEMMA RefusalHasTwin ==
    ASSUME TypeOK, NEW line \in Lines, AllocateOutOfStock(line),
           NEW r \in DOMAIN batches, CanAllocate(batches[r], line)
    PROVE  HasTwin(batches, r)
<1>1. PICK S \in Shortlists(batches) : Able(batches, S, line) = {}
  BY DEF AllocateOutOfStock, MayRefuse
<1>2. r \notin S
  BY <1>1 DEF Able
<1> QED  BY <1>2, LeftOutHasTwin

\* An earlier batch with room that is passed over was left off the shortlist.
LEMMA PassedOverHasTwin ==
    ASSUME TypeOK, NEW line \in Lines, NEW r \in DOMAIN batches,
           AllocateTo(line, r),
           NEW s \in DOMAIN batches,
           Earlier(batches[s], batches[r]), CanAllocate(batches[s], line)
    PROVE  HasTwin(batches, s)
<1>1. PICK S \in Shortlists(batches) : r \in FirstAble(batches, S, line)
  BY DEF AllocateTo, MayChoose
<1>2. s \notin S
  BY <1>1 DEF FirstAble, Able
<1> QED  BY <1>2, LeftOutHasTwin

(***************************************************************************)
(* With deliveries on distinct days a line is refused only when no batch   *)
(* has room for it; two deliveries on one day are the only exception.      *)
(***************************************************************************)
THEOREM RefusedOnlyBehindTwin == Spec => OutOfStockOnlyBehindTwin
<1> DEFINE Refused ==
        \A line \in Lines :
           AllocateOutOfStock(line) =>
              \A r \in DOMAIN batches :
                 CanAllocate(batches[r], line) => HasTwin(batches, r)
<1>1. TypeOK => Refused
  BY RefusalHasTwin
<1>2. OutOfStockOnlyBehindTwin <=> [][Refused]_vars
  BY PTL DEF OutOfStockOnlyBehindTwin
<1> HIDE DEF Refused
<1> QED  BY <1>1, <1>2, TypeCorrect, PTL

(***************************************************************************)
(* With deliveries on distinct days a line goes to the earliest batch that *)
(* has room for it; two deliveries on one day are the only exception.      *)
(***************************************************************************)
THEOREM EarliestFirst == Spec => PassedOverOnlyBehindTwin
<1> DEFINE PassedOver ==
        \A line \in Lines, r \in DOMAIN batches :
           AllocateTo(line, r) =>
              \A s \in DOMAIN batches :
                 /\ Earlier(batches[s], batches[r])
                 /\ CanAllocate(batches[s], line)
                 => HasTwin(batches, s)
<1>1. TypeOK => PassedOver
  BY PassedOverHasTwin
<1>2. PassedOverOnlyBehindTwin <=> [][PassedOver]_vars
  BY PTL DEF PassedOverOnlyBehindTwin
<1> HIDE DEF PassedOver
<1> QED  BY <1>1, <1>2, TypeCorrect, PTL
=============================================================================
