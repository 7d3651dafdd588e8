---------------------------- MODULE HandlersProofs ----------------------------
(***************************************************************************)
(* Facts about the operators of Handlers: the methods of the aggregate,    *)
(* as the handlers call them, keep a product sound, whatever batch, line   *)
(* or order of lines they choose.                                          *)
(***************************************************************************)
EXTENDS Handlers, BatchProofs

(***************************************************************************)
(* What every product is, in the store and in a unit of work, between two  *)
(* steps of the bus: not overfilled, and with a quantity that the casts of *)
(* ChangeBatchQuantity do not change.                                      *)
(***************************************************************************)
BatchSound(b) ==
    /\ IsFiniteSet(b.allocations)
    /\ Total(b.allocations) <= b.purchased
    /\ b.purchased <= IntMax

Sound(sku, product) ==
    /\ ProductOK(sku, product)
    /\ \A r \in DOMAIN product.batches : BatchSound(product.batches[r])

-----------------------------------------------------------------------------
\* The empty map and the records of events.

LEMMA EmptyMap ==
    /\ <<>> = [x \in DOMAIN <<>> |-> <<>>[x]]
    /\ DOMAIN <<>> = {}
OBVIOUS

\* Every event the aggregate raises is one.
LEMMA EventRecords ==
    /\ \A line \in OrderLine, ref \in Refs : Allocated(line, ref) \in Event
    /\ \A line \in OrderLine : Deallocated(line) \in Event
    /\ \A sku \in Skus : OutOfStock(sku) \in Event
BY DEF Allocated, Deallocated, OutOfStock, Event

-----------------------------------------------------------------------------
(***************************************************************************)
(* The methods of the aggregate keep a product sound.                      *)
(***************************************************************************)

\* One batch is replaced by another of its reference.
LEMMA ReplacedSound ==
    ASSUME NEW sku, NEW p, Sound(sku, p), NEW ref \in DOMAIN p.batches,
           NEW b \in BatchType, b.reference = ref, b.sku = sku,
           \A line \in b.allocations : line.sku = sku, BatchSound(b),
           NEW v \in Nat, NEW m \in Seq(Event),
           NEW q, q = [batches |-> [p.batches EXCEPT ![ref] = b],
                       version |-> v, messages |-> m]
    PROVE  Sound(sku, q) /\ DOMAIN q.batches = DOMAIN p.batches
<1>1. DOMAIN q.batches = DOMAIN p.batches
  BY DEF Sound, ProductOK, BatchesOK
<1>2. \A r \in DOMAIN q.batches : q.batches[r] = IF r = ref THEN b ELSE p.batches[r]
  BY DEF Sound, ProductOK, BatchesOK
<1>3. q.batches = [r \in DOMAIN q.batches |-> q.batches[r]]
  BY <1>1
<1>4. BatchesOK(sku, q.batches)
  BY <1>1, <1>2, <1>3 DEF Sound, ProductOK, BatchesOK
<1>5. q = [batches |-> q.batches, version |-> q.version, messages |-> q.messages]
      /\ q.version \in Nat /\ q.messages \in Seq(Event)
  OBVIOUS
<1> QED  BY <1>1, <1>2, <1>4, <1>5 DEF Sound, ProductOK

\* AddBatch.
LEMMA WithBatchSound ==
    ASSUME NEW sku, NEW p, Sound(sku, p),
           NEW b \in BatchType, b.sku = sku, b.allocations = {},
           b.purchased <= IntMax
    PROVE  Sound(sku, WithBatch(p, b)) /\ DOMAIN WithBatch(p, b).batches # {}
<1> DEFINE q == WithBatch(p, b)
<1>1. BatchSound(b)
  BY NoLinesNoUnits, FS_EmptySet, BatchAssumption DEF BatchSound, BatchType, Size
<1>2. q = [batches |-> Merged(p.batches, ByReference(b)), version |-> p.version,
           messages |-> p.messages]
  BY DEF WithBatch, Sound, ProductOK
<1>3. /\ DOMAIN q.batches = DOMAIN p.batches \cup {b.reference}
      /\ \A r \in DOMAIN q.batches :
            q.batches[r] = IF r \in DOMAIN p.batches THEN p.batches[r] ELSE b
      /\ q.batches = [r \in DOMAIN q.batches |-> q.batches[r]]
  BY <1>2 DEF Merged, ByReference
<1>4. b.reference \in Refs
  BY DEF BatchType
<1> HIDE DEF q
<1>5. BatchesOK(sku, q.batches)
  BY <1>3, <1>4 DEF Sound, ProductOK, BatchesOK
<1>6. \A r \in DOMAIN q.batches : BatchSound(q.batches[r])
  BY <1>1, <1>3 DEF Sound
<1>7. ProductOK(sku, q)
  BY <1>2, <1>5 DEF Sound, ProductOK
<1> QED  BY <1>3, <1>6, <1>7 DEF Sound, q

\* A batch that a line is put in.
LEMMA HoldingSound ==
    ASSUME NEW b \in BatchType, NEW line \in OrderLine, BatchSound(b),
           CanAllocate(b, line)
    PROVE  /\ Holding(b, line) \in BatchType
           /\ Holding(b, line).reference = b.reference
           /\ Holding(b, line).sku = b.sku
           /\ Holding(b, line).allocations = b.allocations \cup {line}
           /\ BatchSound(Holding(b, line))
<1>1. Holding(b, line) = [b EXCEPT !.allocations = @ \cup {line}]
  BY DEF Holding
<1>2. /\ Holding(b, line) \in BatchType
      /\ Holding(b, line).reference = b.reference
      /\ Holding(b, line).sku = b.sku
      /\ Holding(b, line).purchased = b.purchased
      /\ Holding(b, line).allocations = b.allocations \cup {line}
  BY <1>1 DEF BatchType
<1>3. IsFiniteSet(b.allocations \cup {line})
  BY FS_AddElement DEF BatchSound
<1>4. Total(Holding(b, line).allocations) <= Holding(b, line).purchased
  BY HoldingKeepsWithinPurchased DEF BatchSound
<1> QED  BY <1>2, <1>3, <1>4 DEF BatchSound

\* Allocate, whatever batch it chooses and whether or not it finds one.
LEMMA AfterAllocateSound ==
    ASSUME NEW sku \in Skus, NEW p, Sound(sku, p), NEW line \in OrderLine,
           line.sku = sku, NEW q \in AfterAllocate(p, line)
    PROVE  Sound(sku, q) /\ DOMAIN q.batches = DOMAIN p.batches
<1>1. CASE \E ref \in DOMAIN p.batches :
              /\ MayChoose(p.batches, line, ref)
              /\ q = PlacedIn(p, line, ref)
  <2>1. PICK ref \in DOMAIN p.batches : /\ MayChoose(p.batches, line, ref)
                                        /\ q = PlacedIn(p, line, ref)
    BY <1>1
  <2> DEFINE b == p.batches[ref]
  <2>2. CanAllocate(b, line)
    BY <2>1 DEF MayChoose, FirstAble, Able
  <2>3. /\ b \in BatchType /\ b.reference = ref /\ b.sku = sku /\ BatchSound(b)
        /\ \A l \in b.allocations : l.sku = sku
        /\ ref \in Refs
    BY DEF Sound, ProductOK, BatchesOK
  <2>4. /\ Holding(b, line) \in BatchType
        /\ Holding(b, line).reference = ref
        /\ Holding(b, line).sku = sku
        /\ Holding(b, line).allocations = b.allocations \cup {line}
        /\ BatchSound(Holding(b, line))
    BY <2>2, <2>3, HoldingSound
  <2>5. q = [batches  |-> [p.batches EXCEPT ![ref] = Holding(b, line)],
             version  |-> p.version + 1,
             messages |-> Append(p.messages, Allocated(line, ref))]
    BY <2>1 DEF PlacedIn, Sound, ProductOK
  <2>6. p.version + 1 \in Nat
    BY DEF Sound, ProductOK
  <2>7. Append(p.messages, Allocated(line, ref)) \in Seq(Event)
    BY <2>3, EventRecords DEF Sound, ProductOK
  <2>8. \A l \in Holding(b, line).allocations : l.sku = sku
    BY <2>3, <2>4
  <2> DEFINE h == Holding(b, line)
             v == p.version + 1
             m == Append(p.messages, Allocated(line, ref))
  <2> HIDE DEF h, v, m
  <2>10. /\ h \in BatchType /\ h.reference = ref /\ h.sku = sku
         /\ BatchSound(h)
         /\ \A l \in h.allocations : l.sku = sku
    BY <2>4, <2>8 DEF h
  <2>11. /\ v \in Nat /\ m \in Seq(Event)
         /\ q = [batches |-> [p.batches EXCEPT ![ref] = h],
                 version |-> v, messages |-> m]
    BY <2>5, <2>6, <2>7 DEF h, v, m
  <2>12. Sound(sku, q) /\ DOMAIN q.batches = DOMAIN p.batches
    BY <2>10, <2>11, ReplacedSound
  <2> QED  BY <2>12
<1>2. CASE q = Refused(p, line)
  <2>1. q = [batches |-> p.batches, version |-> p.version,
             messages |-> Append(p.messages, OutOfStock(sku))]
    BY <1>2 DEF Refused, Sound, ProductOK
  <2>2. q.messages \in Seq(Event)
    BY <2>1, EventRecords DEF Sound, ProductOK
  <2> QED  BY <2>1, <2>2 DEF Sound, ProductOK
<1> QED  BY <1>1, <1>2 DEF AfterAllocate

-----------------------------------------------------------------------------
(***************************************************************************)
(* A reduction takes out what it must: the quantity of a set of lines less *)
(* some of them is the difference of the two quantities.                   *)
(***************************************************************************)
LEMMA TotalWithout ==
    ASSUME NEW lines, NEW gone, gone \subseteq lines,
           IsFiniteSet(Units(lines))
    PROVE  /\ Total(lines \ gone) = Total(lines) - Total(gone)
           /\ Total(lines) \in Nat /\ Total(gone) \in Nat
<1>1. Units(gone) \subseteq Units(lines)
  BY DEF Units
<1>2. Units(lines \ gone) = Units(lines) \ Units(gone)
  BY DEF Units
<1>3. Units(lines) \cap Units(gone) = Units(gone)
  BY <1>1
<1>4. /\ IsFiniteSet(Units(gone))
      /\ Cardinality(Units(lines) \ Units(gone))
            = Cardinality(Units(lines)) - Cardinality(Units(gone))
  BY <1>1, <1>3, FS_Difference, FS_Subset
<1> QED  BY <1>2, <1>4, FS_CardinalityType DEF Total

\* The casts of ChangeBatchQuantity lose nothing.
LEMMA DifferencesExact ==
    ASSUME NEW b \in BatchType, BatchSound(b), NEW qty \in 0 .. IntMax,
           NEW difference \in Differences(b, qty)
    PROVE  difference = qty - Total(b.allocations)
<1>1. /\ AvailableQuantity(b) = b.purchased - Total(b.allocations)
      /\ AvailableQuantity(b) \in Size
  BY AvailableExact DEF BatchSound
<1>2. Total(b.allocations) \in Nat
  BY HeldUnitsFinite, TotalType DEF BatchSound
<1>3. b.purchased \in Nat /\ b.purchased <= IntMax /\ IntMax \in Nat
  BY BatchAssumption DEF BatchType, Size, BatchSound
<1>4. Total(b.allocations) <= b.purchased
  BY DEF BatchSound
<1> DEFINE a == AvailableQuantity(b)
           n == ToInt32(qty) + ToInt32(a) - ToInt32(b.purchased)
<1>5. a \in Nat /\ a <= IntMax
  BY <1>1, <1>2, <1>3, <1>4
<1> HIDE DEF a
<1>6. ToInt32(qty) = qty /\ ToInt32(a) = a /\ ToInt32(b.purchased) = b.purchased
  BY <1>3, <1>5, ToInt32Exact
<1>7. n = qty - Total(b.allocations)
  BY <1>1, <1>2, <1>3, <1>6 DEF a
<1>8. n \in Int /\ -(IntMax + 1) <= n /\ n <= IntMax
  BY <1>2, <1>3, <1>4, <1>7
<1>9. Differences(b, qty) = Int32Results(n)
  BY DEF Differences, a
<1> HIDE DEF n
<1>10. ToInt32(n) = n
  BY <1>8, ToInt32Exact
<1> QED  BY <1>7, <1>9, <1>10 DEF Int32Results

\* An ordering of some of the lines of a finite set is a sequence of them.
LEMMA PermutationsAreSequences ==
    ASSUME NEW S, IsFiniteSet(S), NEW s \in SetToSeqs(S)
    PROVE  s \in Seq(S) /\ DOMAIN s = 1 .. Len(s) /\ Len(s) \in Nat
<1>1. Cardinality(S) \in Nat
  BY FS_CardinalityType
<1>2. s \in [1 .. Cardinality(S) -> S]
  BY DEF SetToSeqs
<1>3. s \in Seq(S)
  BY <1>1, <1>2
<1> QED  BY <1>3, LenProperties

LEMMA ReleasesFit ==
    ASSUME NEW b \in BatchType, BatchSound(b), NEW qty \in 0 .. IntMax,
           NEW released \in Releases(b, qty)
    PROVE  /\ released \in Seq(b.allocations)
           /\ Total(b.allocations \ ToSet(released)) <= qty
<1>1. PICK s \in SUBSET b.allocations : released \in SetToSeqs(s)
  BY DEF Releases, SetToAllKPermutations
<1>2. IsFiniteSet(s)
  BY FS_Subset DEF BatchSound
<1>3. released \in Seq(s) /\ DOMAIN released = 1 .. Len(released)
  BY <1>1, <1>2, PermutationsAreSequences
<1>4. ToSet(released) \subseteq b.allocations
  BY <1>3, ElementOfSeq DEF ToSet
<1>5. PICK difference \in Differences(b, qty) :
         difference + Total(ToSet(released)) >= 0
  BY DEF Releases
<1>6. difference = qty - Total(b.allocations)
  BY DifferencesExact
<1>7. IsFiniteSet(Units(b.allocations))
  BY HeldUnitsFinite DEF BatchSound
<1>8. /\ Total(b.allocations \ ToSet(released))
            = Total(b.allocations) - Total(ToSet(released))
      /\ Total(b.allocations) \in Nat /\ Total(ToSet(released)) \in Nat
  BY <1>4, <1>7, TotalWithout
<1>9. Total(b.allocations \ ToSet(released)) <= qty
  BY <1>5, <1>6, <1>8
<1>10. released \in Seq(b.allocations)
  BY <1>3, SeqMonotonic
<1> QED  BY <1>9, <1>10

\* ChangeBatchQuantity.
LEMMA AfterChangeSound ==
    ASSUME NEW sku \in Skus, NEW p, Sound(sku, p), NEW ref \in DOMAIN p.batches,
           NEW qty \in 0 .. IntMax, NEW q \in AfterChange(p, ref, qty)
    PROVE  Sound(sku, q) /\ DOMAIN q.batches = DOMAIN p.batches
<1> DEFINE b == p.batches[ref]
<1>1. PICK released \in Releases(b, qty) : q = Reduced(p, ref, qty, released)
  BY DEF AfterChange
<1>2. /\ b \in BatchType /\ b.reference = ref /\ b.sku = sku /\ BatchSound(b)
      /\ \A l \in b.allocations : l.sku = sku
  BY DEF Sound, ProductOK, BatchesOK
<1>3. /\ released \in Seq(b.allocations)
      /\ Total(b.allocations \ ToSet(released)) <= qty
  BY <1>2, ReleasesFit
<1> DEFINE h == Shrunk(b, qty, released)
           more == [i \in DOMAIN released |-> Deallocated(released[i])]
           v == p.version + 1
           m == p.messages \o more
<1>4. q = [batches |-> [p.batches EXCEPT ![ref] = h], version |-> v, messages |-> m]
  BY <1>1 DEF Reduced, Sound, ProductOK
<1>5. qty \in Size /\ qty <= IntMax
  BY BatchAssumption DEF Size
<1>6. /\ h \in BatchType /\ h.reference = ref /\ h.sku = sku
      /\ h.allocations = b.allocations \ ToSet(released) /\ h.purchased = qty
  BY <1>2, <1>5 DEF Shrunk, BatchType
<1>7. IsFiniteSet(h.allocations)
  BY <1>2, <1>6, FS_Subset DEF BatchSound
<1>8. BatchSound(h) /\ \A l \in h.allocations : l.sku = sku
  BY <1>2, <1>3, <1>5, <1>6, <1>7 DEF BatchSound
<1>9. more \in Seq(Event)
  <2>1. b.allocations \subseteq OrderLine
    BY <1>2 DEF BatchType
  <2>2. released \in Seq(OrderLine)
    BY <1>3, <2>1, SeqMonotonic
  <2> HIDE DEF b
  <2>3. /\ DOMAIN released = 1 .. Len(released) /\ Len(released) \in Nat
        /\ \A i \in DOMAIN released : released[i] \in OrderLine
    BY <2>2, LenProperties, ElementOfSeq
  <2>4. \A i \in 1 .. Len(released) : more[i] \in Event
    BY <2>3, EventRecords
  <2>5. more \in [1 .. Len(released) -> Event]
    BY <2>3, <2>4
  <2> QED  BY <2>3, <2>5
<1> HIDE DEF more
<1>10. v \in Nat /\ m \in Seq(Event)
  BY <1>9, ConcatProperties DEF Sound, ProductOK
<1> HIDE DEF h, v, m
<1>12. Sound(sku, q) /\ DOMAIN q.batches = DOMAIN p.batches
  BY <1>4, <1>6, <1>8, <1>10, ReplacedSound
<1> QED  BY <1>12

\* A product a handler makes for a SKU that is not known.
LEMMA NewProductSound ==
    ASSUME NEW sku
    PROVE  Sound(sku, NewProduct)
<1>1. NewProduct.messages \in Seq(Event)
  BY EmptySeq DEF NewProduct
<1>2. BatchesOK(sku, NewProduct.batches) /\ DOMAIN NewProduct.batches = {}
  BY EmptyMap DEF NewProduct, BatchesOK
<1>3. /\ NewProduct = [batches |-> NewProduct.batches,
                       version |-> NewProduct.version,
                       messages |-> NewProduct.messages]
      /\ NewProduct.version \in Nat
  BY DEF NewProduct
<1> QED  BY <1>1, <1>2, <1>3 DEF Sound, ProductOK
=============================================================================
