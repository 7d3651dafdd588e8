---------------------------- MODULE SqlUnitOfWork ----------------------------
(***************************************************************************)
(* Units of work over the SQL repository, several at a time                *)
(* (src/src/ServiceLayer/UoW, TrackingRepository.cpp), for callers of      *)
(* IUnitOfWork and IRepository: a product is added in one step, changed in *)
(* others and committed in one more.  The handlers of the bus are callers  *)
(* that get no further than their first load, which throws.  The           *)
(* statements of one commit are taken at once; that a transaction may wait *)
(* for the rows of another, or be refused for them, is a commit or a flush *)
(* that throws.  Events are left out: they are the subject of UnitOfWork.  *)
(***************************************************************************)
EXTENDS SqlRepository

CONSTANTS
    Clients,        \* the callers; each has a unit of work at a time
    Databases,      \* what may be stored before any of them commits
    NewProducts,    \* the products callers add
    NewBatches,     \* the batches callers add to a product
    Lines,          \* the order lines callers ask to allocate
    Quantities,     \* the quantities callers change a batch to
    ProductsAtOnce, \* bound: products in a unit of work
    MaxVersion      \* bound: no product is changed at this version

NewBatch == {b \in BatchType : b.allocations = {} /\ b.purchased <= IntMax}

(***************************************************************************)
(* Quantities fit an int32_t, the domain of the operator Releases.         *)
(***************************************************************************)
ASSUME SqlAssumption ==
    /\ \A d \in Databases : Conforms(d)
    /\ \A p \in NewProducts :
         /\ p.sku \in Skus
         /\ p.batches \in Seq({b \in NewBatch : b.sku = p.sku})
         /\ p.version \in Nat
    /\ NewBatches \subseteq NewBatch
    /\ Lines \subseteq {l \in OrderLine : l.quantity <= IntMax}
    /\ Quantities \subseteq 0 .. IntMax
    /\ ProductsAtOnce \in Nat \ {0}
    /\ MaxVersion \in Nat

VARIABLES
    db,         \* what is committed
    unit,       \* the units of work
    accepted    \* history: SKU and version of the products of a commit

vars == <<db, unit, accepted>>

(***************************************************************************)
(* loaded: the versions the repository takes for stored.  tx: "open",      *)
(* "aborted" by a statement the server refused, or "finished" by a commit  *)
(* after which none was opened.  threw: how the last call on it ended.     *)
(***************************************************************************)
NewUnit == [seen |-> <<>>, loaded |-> <<>>, tx |-> "open", threw |-> FALSE]

Init ==
    /\ db \in Databases
    /\ unit = [u \in Clients |-> NewUnit]
    /\ accepted = {}

\* The unit of work is destroyed, which rolls back, and another is made.
Open(u) ==
    /\ unit' = [unit EXCEPT ![u] = NewUnit]
    /\ UNCHANGED <<db, accepted>>

HasSpace(u) == Cardinality(DOMAIN unit[u].seen) < ProductsAtOnce

\* A call that throws before anything has changed.
Throws(u) ==
    /\ unit' = [unit EXCEPT ![u].threw = TRUE]
    /\ UNCHANGED <<db, accepted>>

-----------------------------------------------------------------------------
\* The tracking repository in front of the SQL repository.

AddNew(u, p) ==
    /\ p.sku \notin DOMAIN unit[u].seen
    /\ HasSpace(u)
    /\ unit' = [unit EXCEPT ![u] =
                  [Seeing(@, p.sku, [batches |-> Emplaced(p.batches),
                                     version |-> p.version,
                                     messages |-> <<>>])
                     EXCEPT !.threw = FALSE]]
    /\ UNCHANGED <<db, accepted>>

\* A SKU that was seen already is refused.
Add(u, p) ==
    \/ AddNew(u, p)
    \/ p.sku \in DOMAIN unit[u].seen /\ Throws(u)

(***************************************************************************)
(* The row of a product is not read by row, which the driver refuses,      *)
(* whether or not there is one: the transaction stays as it is and nothing *)
(* is remembered.  A product seen before is handed out and nothing changes.*)
(***************************************************************************)
GetProduct(u, sku) ==
    /\ sku \notin DOMAIN unit[u].seen
    /\ Throws(u)

GetProductByBatchRef(u, ref) ==
    /\ Owners(unit[u].seen, ref) = {}
    /\ Throws(u)

-----------------------------------------------------------------------------
\* The aggregate is changed in memory.

Changing(u, sku, product) ==
    /\ unit' = [unit EXCEPT ![u].seen[sku] = [product EXCEPT !.messages = <<>>]]
    /\ UNCHANGED <<db, accepted>>

AddBatch(u, b) ==
    /\ b.sku \in DOMAIN unit[u].seen
    /\ Admissible(unit[u].seen[b.sku].batches, b.sku, b)
    /\ Changing(u, b.sku, WithBatch(unit[u].seen[b.sku], b))

AllocateLine(u, line) ==
    /\ line.sku \in DOMAIN unit[u].seen
    /\ DOMAIN unit[u].seen[line.sku].batches # {}
    /\ unit[u].seen[line.sku].version < MaxVersion
    /\ \E after \in AfterAllocate(unit[u].seen[line.sku], line) :
          Changing(u, line.sku, after)

ChangeQuantity(u, ref, qty) ==
    \E sku \in Owners(unit[u].seen, ref) :
        /\ unit[u].seen[sku].version < MaxVersion
        /\ \E after \in AfterChange(unit[u].seen[sku], ref, qty) :
              Changing(u, sku, after)

-----------------------------------------------------------------------------
\* Commit and RollBack.

Start(u) == [db |-> db, loaded |-> unit[u].loaded]

Orderings(u) == SetToSeqs(DOMAIN unit[u].seen)

\* What the transaction comes to when every product is flushed.
Flushed(u) ==
    UNION {FlushAll(Start(u), skus, unit[u].seen) : skus \in Orderings(u)}

VersionsSeen(u) ==
    {<<sku, unit[u].seen[sku].version>> : sku \in DOMAIN unit[u].seen}

CommitReturns(u) ==
    /\ unit[u].tx = "open"
    /\ \E s \in Flushed(u) :
          /\ db' = s.db
          /\ unit' = [unit EXCEPT ![u] = [NewUnit EXCEPT !.loaded = s.loaded]]
    /\ accepted' = accepted \cup VersionsSeen(u)

(***************************************************************************)
(* A product after the n-th cannot be flushed: what was written goes, what *)
(* the repository remembers stays, and so do the products seen.            *)
(***************************************************************************)
FlushThrows(u) ==
    /\ unit[u].tx = "open"
    /\ \E skus \in Orderings(u) : \E n \in 0 .. (Len(skus) - 1) :
         \E s \in FlushAll(Start(u), SubSeq(skus, 1, n), unit[u].seen) :
            /\ Flush(s, skus[n + 1], unit[u].seen[skus[n + 1]]) = {}
            /\ unit' = [unit EXCEPT ![u].loaded = s.loaded,
                                    ![u].tx = "aborted",
                                    ![u].threw = TRUE]
    /\ UNCHANGED <<db, accepted>>

\* The commit is refused ("commit"), or done and no transaction can be
\* opened after it ("begin"): the caller sees the same exception.
CommitThrows(u) ==
    /\ unit[u].tx = "open"
    /\ \E s \in Flushed(u) :
          /\ unit' = [unit EXCEPT ![u].loaded = s.loaded,
                                  ![u].tx = "finished",
                                  ![u].threw = TRUE]
          /\ \/ "commit" \in Failures /\ UNCHANGED db
             \/ "begin" \in Failures /\ db' = s.db
    /\ UNCHANGED accepted

\* No product seen has to be written.
NothingToFlush(u) ==
    \A sku \in DOMAIN unit[u].seen :
        /\ sku \in DOMAIN unit[u].loaded
        /\ unit[u].seen[sku].version = unit[u].loaded[sku]

(***************************************************************************)
(* A transaction that is not open takes no statement and no commit; one    *)
(* that was aborted is finished by the attempt to commit it.               *)
(***************************************************************************)
CommitTooLate(u) ==
    /\ unit[u].tx # "open"
    /\ \/ ~NothingToFlush(u) /\ Throws(u)
       \/ /\ NothingToFlush(u)
          /\ unit' = [unit EXCEPT ![u].tx = "finished", ![u].threw = TRUE]
          /\ UNCHANGED <<db, accepted>>

\* Faulty variant: another transaction is opened, whatever became of this
\* one, and the versions taken for stored are kept.
RollBack_AlwaysBegins(u) ==
    /\ unit' = [unit EXCEPT ![u] = [NewUnit EXCEPT !.loaded = unit[u].loaded]]
    /\ UNCHANGED <<db, accepted>>

\* The driver does not roll back a finished transaction.
RollBack(u) ==
    \/ /\ unit[u].tx # "finished"
       /\ unit' = [unit EXCEPT ![u] = [NewUnit EXCEPT !.loaded = unit[u].loaded]]
       /\ UNCHANGED <<db, accepted>>
    \/ unit[u].tx = "finished" /\ Throws(u)

Next ==
    \E u \in Clients :
        \/ Open(u)
        \/ \E p \in NewProducts : Add(u, p)
        \/ \E sku \in Skus : GetProduct(u, sku)
        \/ \E ref \in Refs : GetProductByBatchRef(u, ref)
        \/ \E b \in NewBatches : AddBatch(u, b)
        \/ \E line \in Lines : AllocateLine(u, line)
        \/ \E ref \in Refs, qty \in Quantities : ChangeQuantity(u, ref, qty)
        \/ CommitReturns(u)
        \/ FlushThrows(u)
        \/ CommitThrows(u)
        \/ CommitTooLate(u)
        \/ RollBack(u)

Spec == Init /\ [][Next]_vars

-----------------------------------------------------------------------------
(***************************************************************************)
(* The type invariant: the tables keep to the schema (db-1.sql:6-32), and  *)
(* in a product of a unit of work each batch and line is under its SKU.    *)
(***************************************************************************)
TypeOK ==
    /\ Conforms(db)
    /\ \A u \in Clients :
         /\ unit[u].tx \in {"open", "aborted", "finished"}
         /\ unit[u].threw \in BOOLEAN
         /\ \A sku \in DOMAIN unit[u].loaded : unit[u].loaded[sku] \in Nat
         /\ DOMAIN unit[u].seen \subseteq Skus
         /\ \A sku \in DOMAIN unit[u].seen : ProductOK(sku, unit[u].seen[sku])
    /\ accepted \subseteq Skus \X Nat

Stored(d, sku, version) ==
    sku \in DOMAIN d.products /\ d.products[sku] = version

(***************************************************************************)
(* A product whose commit returned is in the tables at the version it had, *)
(* and stays there: of two units of work that add one SKU the second does  *)
(* not get through, and a product that Flush passes over is stored already *)
(* (SqlRepository.cpp:14-44, SqlUnitOfWork.cpp:18-24).  Its batches are    *)
(* another matter: a product that is added again at its old version is     *)
(* passed over with whatever batches it has by then.                       *)
(***************************************************************************)
AcceptedIsStored == \A a \in accepted : Stored(db, a[1], a[2])

(***************************************************************************)
(* A version that a unit of work takes for stored is stored, as long as it *)
(* can still commit: it was remembered before the commit that was to store *)
(* it, in the middle of a transaction that could fail or be rolled back    *)
(* (SqlRepository.cpp:43, SqlUnitOfWork.cpp:18-30), and Flush writes       *)
(* nothing for a product at this version.                                  *)
(***************************************************************************)
RememberedIsStored ==
    \A u \in Clients : unit[u].tx = "open" =>
        \A sku \in DOMAIN unit[u].loaded : Stored(db, sku, unit[u].loaded[sku])

(***************************************************************************)
(* Nothing that is stored is changed or removed, by whichever commits in   *)
(* whichever order: an insert does not take the place of a row, and the    *)
(* batch that an update deletes first, being called like the SKU, is back  *)
(* when the statement after it is refused (SqlRepository.cpp:28-30, 42).   *)
(***************************************************************************)
StoredStays ==
    [][/\ \A sku \in DOMAIN db.products : Stored(db', sku, db.products[sku])
       /\ db'.batches = db.batches
       /\ db'.allocated = db.allocated]_vars
=============================================================================
