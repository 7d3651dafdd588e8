------------------------------ MODULE Aggregate ------------------------------
(***************************************************************************)
(* What the methods of the aggregate compute, as operators on its map from *)
(* batch reference to batch: src/src/Domain/Product/Product.cpp.  Product  *)
(* runs them as a state machine; AllocationService runs them under the     *)
(* handlers of the message bus.                                            *)
(***************************************************************************)
EXTENDS Batch, Sequences

Event ==
    [type : {"Allocated"}, line : OrderLine, batchref : Refs]
      \cup [type : {"Deallocated"}, line : OrderLine]
      \cup [type : {"OutOfStock"}, sku : Skus]

Allocated(line, ref) == [type |-> "Allocated", line |-> line, batchref |-> ref]
Deallocated(line)    == [type |-> "Deallocated", line |-> line]
OutOfStock(sku)      == [type |-> "OutOfStock", sku |-> sku]

-----------------------------------------------------------------------------
\* unordered_map::merge and emplace: what is already there stays.
Merged(batches, more) ==
    [r \in DOMAIN batches \cup DOMAIN more |->
        IF r \in DOMAIN batches THEN batches[r] ELSE more[r]]

\* Faulty variant: the map is keyed by SKU.
ByReference_Sku(b) == [r \in {b.sku} |-> b]

ByReference(b) == [r \in {b.reference} |-> b]

IsFirst(vector, i) ==
    \A j \in 1 .. (i - 1) : vector[j].reference # vector[i].reference

(***************************************************************************)
(* A vector of batches emplaced one by one: the first batch of each        *)
(* reference is kept and the later ones are dropped without a word.        *)
(***************************************************************************)
Emplaced(vector) ==
    [r \in {vector[i].reference : i \in DOMAIN vector} |->
        vector[CHOOSE i \in DOMAIN vector :
                   vector[i].reference = r /\ IsFirst(vector, i)]]

Admissible(batches, sku, b) ==
    /\ b.sku = sku
    /\ b.reference \notin DOMAIN batches

-----------------------------------------------------------------------------
(***************************************************************************)
(* Product::Allocate first copies references to its batches into a         *)
(* std::set ordered by Less, in the unspecified order of the hash map.  A  *)
(* batch equivalent to one already in the set is not inserted, so the set  *)
(* ends up as any maximal set without two equivalent batches: all those in *)
(* stock, and one per delivery date.                                       *)
(***************************************************************************)
Shortlists(batches) ==
    {S \in SUBSET DOMAIN batches :
        /\ \A r, s \in S : r # s => ~Equivalent(batches[r], batches[s])
        /\ \A r \in DOMAIN batches \ S :
              \E s \in S : Equivalent(batches[r], batches[s])}

Able(batches, S, line) == {r \in S : CanAllocate(batches[r], line)}

\* Faulty variant: the loop runs over the hash map itself.
FirstAble_Unordered(batches, S, line) == Able(batches, S, line)

\* The batches the loop over one shortlist may reach first.
FirstAble(batches, S, line) ==
    {r \in Able(batches, S, line) :
        \A s \in Able(batches, S, line) : ~Earlier(batches[s], batches[r])}

MayChoose(batches, line, ref) ==
    \E S \in Shortlists(batches) : ref \in FirstAble(batches, S, line)

MayRefuse(batches, line) ==
    \E S \in Shortlists(batches) : Able(batches, S, line) = {}

\* Another batch is due on the same day.
HasTwin(batches, r) ==
    \E s \in DOMAIN batches \ {r} :
        /\ batches[r].eta # NoEta
        /\ batches[s].eta = batches[r].eta

-----------------------------------------------------------------------------
\* Faulty variant: the purchased quantity is taken for the allocated one.
Differences_Purchased(b, qty) == Int32Results(ToInt32(qty) - ToInt32(b.purchased))

(***************************************************************************)
(* What `difference` in Product::ChangeBatchQuantity starts from: three    *)
(* size_t cast to int32_t.                                                 *)
(***************************************************************************)
Differences(b, qty) ==
    Int32Results(ToInt32(qty) + ToInt32(AvailableQuantity(b))
                              - ToInt32(b.purchased))
=============================================================================
