----------------------------- MODULE UnitOfWork -----------------------------
(***************************************************************************)
(* A unit of work and the repository behind it, as values:                 *)
(* src/src/ServiceLayer/UoW/AbstractUnitOfWork.cpp, SqlUnitOfWork.cpp and  *)
(* src/src/Adapters/Repository/TrackingRepository.cpp.                     *)
(*                                                                         *)
(* The store is what the IRepository port promises and FakeRepository and  *)
(* FakeUnitOfWork implement: a map from SKU to product that a commit       *)
(* replaces at once.  A product that was fetched is a copy of the stored   *)
(* one until its unit of work commits, as in a transaction; FakeRepository *)
(* hands out the stored object itself, which cannot be told apart while    *)
(* every commit succeeds.                                                  *)
(***************************************************************************)
EXTENDS Aggregate, SequencesExt

CONSTANT Failures   \* what the storage may do wrong

(***************************************************************************)
(* "commit": the transaction is not committed.  "begin": it is, and the    *)
(* next one cannot be opened.  "view": a statement on the read model fails.*)
(***************************************************************************)
ASSUME FailuresAssumption == Failures \subseteq {"commit", "begin", "view"}

NewProduct == [batches |-> <<>>, version |-> 0, messages |-> <<>>]

NewUnitOfWork == [seen |-> <<>>, newMessages |-> <<>>, broken |-> FALSE]

\* What a product is to the type invariants: its batches and its lines are
\* its own.
BatchesOK(sku, batches) ==
    /\ batches = [r \in DOMAIN batches |-> batches[r]]
    /\ DOMAIN batches \subseteq Refs
    /\ \A r \in DOMAIN batches :
         /\ batches[r] \in BatchType
         /\ batches[r].reference = r
         /\ batches[r].sku = sku
         /\ \A line \in batches[r].allocations : line.sku = sku

ProductOK(sku, product) ==
    /\ product = [batches  |-> product.batches,
                  version  |-> product.version,
                  messages |-> product.messages]
    /\ BatchesOK(sku, product.batches)
    /\ product.version \in Nat
    /\ product.messages \in Seq(Event)

-----------------------------------------------------------------------------
\* TrackingRepository: what this unit of work has seen comes first.

Known(store, uow, sku) == sku \in DOMAIN uow.seen \cup DOMAIN store

Get(store, uow, sku) ==
    IF sku \in DOMAIN uow.seen THEN uow.seen[sku] ELSE store[sku]

Owners(products, ref) ==
    {sku \in DOMAIN products : ref \in DOMAIN products[sku].batches}

(***************************************************************************)
(* The SKUs GetByBatchRef may answer with.  Nothing in the aggregates keeps *)
(* two SKUs from using one batch reference.                                *)
(***************************************************************************)
ByBatchRef(store, uow, ref) ==
    IF Owners(uow.seen, ref) # {}
    THEN Owners(uow.seen, ref)
    ELSE Owners(store, ref)

\* The unit of work with its product for sku in the state given.
Seeing(uow, sku, product) ==
    [uow EXCEPT !.seen = [s \in DOMAIN @ \cup {sku} |->
                            IF s = sku THEN product ELSE @[s]]]

-----------------------------------------------------------------------------
\* The events of the seen products: each by its product and its place there.
EventPlaces(uow) ==
    UNION {{sku} \X DOMAIN uow.seen[sku].messages : sku \in DOMAIN uow.seen}

\* Product after product, and in order within one.
ByProduct(places) ==
    \A i, j \in DOMAIN places :
        i < j /\ places[i][1] = places[j][1] =>
            /\ places[i][2] < places[j][2]
            /\ \A k \in i .. j : places[k][1] = places[i][1]

\* The products come in the unspecified order of a hash map.
EventOrders(uow) == {places \in SetToSeqs(EventPlaces(uow)) : ByProduct(places)}

EventsAt(uow, places) ==
    [k \in DOMAIN places |-> uow.seen[places[k][1]].messages[places[k][2]]]

\* Faulty variant: the events are copied and stay in the products.
Collected_KeepsMessages(uow) ==
    {[uow EXCEPT !.newMessages = @ \o EventsAt(uow, places)] :
        places \in EventOrders(uow)}

(***************************************************************************)
(* Commit first moves the events of the seen products into the unit of     *)
(* work.                                                                   *)
(***************************************************************************)
Collected(uow) ==
    {[uow EXCEPT
        !.newMessages = @ \o EventsAt(uow, places),
        !.seen = [sku \in DOMAIN @ |-> [@[sku] EXCEPT !.messages = <<>>]]] :
     places \in EventOrders(uow)}

\* Faulty variant: the store wins over what the unit of work has changed.
Written_KeepsStored(store, uow) ==
    [sku \in DOMAIN store \cup DOMAIN uow.seen |->
        IF sku \in DOMAIN store THEN store[sku] ELSE uow.seen[sku]]

Written(store, uow) ==
    [sku \in DOMAIN store \cup DOMAIN uow.seen |->
        IF sku \in DOMAIN uow.seen THEN uow.seen[sku] ELSE store[sku]]

Returned(store, uow) == [store |-> store, uow |-> uow, threw |-> FALSE]
Threw(store, uow)    == [store |-> store, uow |-> uow, threw |-> TRUE]

(***************************************************************************)
(* What Commit may come to.  If commit() throws, the events have left the  *)
(* products already, the products are still seen, and the transaction is   *)
(* finished: with this unit of work no later commit succeeds.              *)
(***************************************************************************)
Commit(store, uow) ==
    UNION {LET success == Returned(Written(store, u), [u EXCEPT !.seen = <<>>])
               lost    == Threw(store, [u EXCEPT !.broken = TRUE])
               late    == Threw(Written(store, u), [u EXCEPT !.broken = TRUE])
           IN  IF uow.broken
               THEN {lost}
               ELSE {success}
                      \cup {r \in {lost} : "commit" \in Failures}
                      \cup {r \in {late} : "begin" \in Failures}
           : u \in Collected(uow)}

\* Faulty variant: the messages are copied out and not moved.
WithoutMessages_Copied(uow) == uow

\* GetNewMessages moves the messages out.
WithoutMessages(uow) == [uow EXCEPT !.newMessages = <<>>]
=============================================================================
