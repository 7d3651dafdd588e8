---------------------------- MODULE SqlRepository ----------------------------
(***************************************************************************)
(* The SQL repository, its statements and the schema, as values:           *)
(* src/src/Adapters/Repository/SqlRepository.cpp and queries/, with the    *)
(* tables of src/postgresql/schemas/db-1.sql.                              *)
(*                                                                         *)
(* A database is its products (version by SKU), its batches (row by        *)
(* reference) and the references of the batches that have allocations.     *)
(* What a statement or a method leaves behind is one of a set, and a throw *)
(* is the empty set.  Each statement does what its text makes of the       *)
(* values the code binds to it; what only comes after a statement that is  *)
(* always refused is left out.                                             *)
(***************************************************************************)
EXTENDS Handlers

EmptyDatabase == [products |-> <<>>, batches |-> <<>>, allocated |-> {}]

\* The constraints of the schema.
Conforms(d) ==
    /\ d = [products |-> d.products, batches |-> d.batches,
            allocated |-> d.allocated]
    /\ d.products = [sku \in DOMAIN d.products |-> d.products[sku]]
    /\ DOMAIN d.products \subseteq Skus
    /\ \A sku \in DOMAIN d.products : d.products[sku] \in Nat
    /\ DOMAIN d.batches \subseteq Refs
    /\ \A r \in DOMAIN d.batches :
         /\ d.batches[r].sku \in DOMAIN d.products
         /\ d.batches[r].purchased \in 1 .. IntMax
         /\ d.batches[r].eta \in Nat \cup {NoEta}
    /\ d.allocated \subseteq DOMAIN d.batches

\* A map with one entry more; what is there stays (unordered_map::emplace).
Emplacing(map, key, value) ==
    [k \in DOMAIN map \cup {key} |-> IF k \in DOMAIN map THEN map[k] ELSE value]

-----------------------------------------------------------------------------
\* The statements.

\* Faulty variant: ON CONFLICT (sku) DO UPDATE.
InsertProduct_Upsert(d, sku, version) ==
    {[d EXCEPT !.products = [s \in DOMAIN @ \cup {sku} |->
                                IF s = sku THEN version ELSE @[s]]]}

\* The SKU is the primary key.
InsertProduct(d, sku, version) ==
    {[e EXCEPT !.products = Emplacing(@, sku, version)] :
        e \in {e \in {d} : sku \notin DOMAIN e.products}}

\* A reference is used once, the product is there, and the quantity positive.
InsertBatch(d, batch) ==
    {[e EXCEPT !.batches = Emplacing(@, batch.reference,
                               [sku       |-> batch.sku,
                                purchased |-> ToInt32(batch.purchased),
                                eta       |-> batch.eta])] :
        e \in {e \in {d} : /\ batch.reference \notin DOMAIN e.batches
                           /\ batch.sku \in DOMAIN e.products
                           /\ ToInt32(batch.purchased) > 0}}

\* It names a column sku, which the table of order lines has not: refused,
\* also for a batch without lines.
InsertOrderLines(d) == {}

\* The reference it is given is the SKU.  A batch with allocations cannot go.
DeleteBatches(d, ref) ==
    {[e EXCEPT !.batches = [r \in DOMAIN @ \ {ref} |-> @[r]]] :
        e \in {e \in {d} : ref \notin e.allocated}}

\* Faulty variant: the array it is given is taken (id = ANY($1)).
DeleteOrderLines_Any(d) == {d}

\* It is given an array where it compares a number: refused, also when the
\* array is empty.
DeleteOrderLines(d) == {}

-----------------------------------------------------------------------------
(***************************************************************************)
(* Writing.  s is the transaction with what the repository remembers: the  *)
(* tables as the transaction sees them, and the versions taken for stored. *)
(***************************************************************************)

\* The first turn of the loop, whichever batch it takes, ends with its lines.
InsertBatches(d, batches) ==
    IF DOMAIN batches = {}
    THEN {d}
    ELSE UNION {UNION {InsertOrderLines(e) : e \in InsertBatch(d, batches[r])} :
                r \in DOMAIN batches}

\* The batches go in before the product they refer to.
Insert(s, sku, product) ==
    {[db |-> e, loaded |-> Emplacing(s.loaded, sku, product.version)] :
        e \in UNION {InsertProduct(d, sku, product.version) :
                        d \in InsertBatches(s.db, product.batches)}}

\* Nothing after the second statement is ever reached.
Update(s, sku) ==
    {[s EXCEPT !.db = e] :
        e \in UNION {DeleteOrderLines(d) : d \in DeleteBatches(s.db, sku)}}

Flush(s, sku, product) ==
    IF sku \notin DOMAIN s.loaded
    THEN Insert(s, sku, product)
    ELSE IF product.version # s.loaded[sku]
    THEN Update(s, sku)
    ELSE {s}

FlushAll(s, skus, seen) ==
    FoldLeft(LAMBDA states, sku : UNION {Flush(t, sku, seen[sku]) : t \in states},
             {s}, skus)
=============================================================================
