------------------------------ MODULE SqlProofs ------------------------------
(***************************************************************************)
(* Theorems about SqlUnitOfWork: for any number of callers, any products   *)
(* and anything stored before, what is stored stays, what a unit of work   *)
(* takes for stored is stored, and so is what a commit that returned was   *)
(* given, while a unit of work has one product at a time.                  *)
(***************************************************************************)
EXTENDS SqlUnitOfWork, HandlersProofs

\* What the handlers of the bus keep to.
OneAtATime == ProductsAtOnce = 1

\* What is stored stays.
Keeps(d, e) ==
    /\ \A sku \in DOMAIN d.products : Stored(e, sku, d.products[sku])
    /\ e.batches = d.batches
    /\ e.allocated = d.allocated

\* What is remembered is stored.
Remembered(loaded, d) ==
    \A sku \in DOMAIN loaded : Stored(d, sku, loaded[sku])

UnitShape(w) ==
    /\ w = [seen |-> w.seen, loaded |-> w.loaded, tx |-> w.tx,
            threw |-> w.threw]
    /\ w.seen = [sku \in DOMAIN w.seen |-> w.seen[sku]]
    /\ DOMAIN w.seen = {} \/ \E k : DOMAIN w.seen = {k}
    /\ w.tx \in {"open", "aborted", "finished"}
    /\ w.threw \in BOOLEAN
    /\ \A sku \in DOMAIN w.loaded : w.loaded[sku] \in Nat

SeenSound(seen) ==
    \A sku \in DOMAIN seen : sku \in Skus /\ Sound(sku, seen[sku])

UnitGood(w, d) ==
    /\ UnitShape(w)
    /\ SeenSound(w.seen)
    /\ w.tx # "finished" => Remembered(w.loaded, d)

(***************************************************************************)
(* The inductive invariant.  That an accepted product is stored needs that *)
(* a version Flush passes over is, which must hold of an aborted           *)
(* transaction as well: it is rolled back and the unit of work goes on     *)
(* with the versions it remembers.  Products are sound, and not only in    *)
(* type, because a reduction is exact only for those that are.             *)
(***************************************************************************)
IInv ==
    /\ Conforms(db)
    /\ unit = [u \in Clients |-> unit[u]]
    /\ \A u \in Clients : UnitGood(unit[u], db)
    /\ accepted \subseteq Skus \X Nat
    /\ AcceptedIsStored

-----------------------------------------------------------------------------
(***************************************************************************)
(* Flushing no product, and flushing one.                                  *)
(***************************************************************************)
LEMMA FlushNone ==
    ASSUME NEW s, NEW seen
    PROVE  FlushAll(s, <<>>, seen) = {s}
<1> DEFINE op(states, sku) == UNION {Flush(t, sku, seen[sku]) : t \in states}
           S == DOMAIN <<>>
           def(f) == f = [t \in SUBSET S |->
                            IF t = {} THEN {s}
                            ELSE LET x == Max(t) IN op(f[t \ {x}], <<>>[x])]
<1>1. FlushAll(s, <<>>, seen) = (CHOOSE f : def(f))[S]
  BY DEF FlushAll, FoldLeft, MapThenFoldSet
<1>2. S = {}
  OBVIOUS
<1>3. def([t \in SUBSET S |-> {s}])
  BY <1>2
<1>4. def(CHOOSE f : def(f))
  BY <1>3
<1> QED  BY <1>1, <1>2, <1>4

\* One product: the transaction comes to what its flush comes to.
LEMMA FlushOne ==
    ASSUME NEW s, NEW seen, NEW k
    PROVE  FlushAll(s, <<k>>, seen) = Flush(s, k, seen[k])
<1> DEFINE op(states, sku) == UNION {Flush(t, sku, seen[sku]) : t \in states}
           S == DOMAIN <<k>>
           body(f, t) == IF t = {} THEN {s}
                         ELSE LET x == Max(t) IN op(f[t \ {x}], <<k>>[x])
           def(f) == f = [t \in SUBSET S |-> body(f, t)]
           g == [t \in SUBSET S |-> IF t = {} THEN {s} ELSE op({s}, k)]
<1>1. FlushAll(s, <<k>>, seen) = (CHOOSE f : def(f))[S]
  BY DEF FlushAll, FoldLeft, MapThenFoldSet
<1>2. S = {1}
  OBVIOUS
<1>3. Max({1}) = 1
  BY DEF Max
<1>4. SUBSET S = {{}, {1}} /\ {1} # {}
  BY <1>2
<1>5. op({s}, k) = Flush(s, k, seen[k])
  OBVIOUS
<1>6. \A f : body(f, {}) = {s} /\ body(f, {1}) = op(f[{}], k)
  <2> HIDE DEF op
  <2>1. {1} \ {1} = {} /\ <<k>>[1] = k
    OBVIOUS
  <2> QED  BY <1>3, <1>4, <2>1
<1> HIDE DEF op, body
<1>7. g[{}] = {s} /\ g[{1}] = op({s}, k)
  BY <1>4
<1>8. \A f : def(f) <=> /\ f = [t \in SUBSET S |-> f[t]]
                        /\ \A t \in SUBSET S : f[t] = body(f, t)
  OBVIOUS
<1>9. def(g)
  <2>1. g = [t \in SUBSET S |-> g[t]]
    OBVIOUS
  <2> HIDE DEF g
  <2>2. \A t \in SUBSET S : g[t] = body(g, t)
    BY <1>4, <1>6, <1>7
  <2> QED  BY <1>8, <2>1, <2>2
<1>10. PICK f : def(f) /\ f = CHOOSE h : def(h)
  <2> HIDE DEF def
  <2> QED  BY <1>9
<1>11. f[{}] = {s} /\ f[{1}] = op(f[{}], k)
  BY <1>4, <1>6, <1>8, <1>10
<1> QED  BY <1>1, <1>2, <1>5, <1>10, <1>11

\* The products of a unit of work have one order, being one at most.
LEMMA OrderingsNone ==
    SetToSeqs({}) = {<<>>}
<1>1. Cardinality({}) = 0
  BY FS_EmptySet
<1>2. \A f : f \in [1 .. 0 -> {}] <=> f = <<>>
  <2>1. ASSUME NEW f \in [1 .. 0 -> {}] PROVE f = <<>>
    <3>1. f \in Seq({}) /\ Len(f) = 0
      OBVIOUS
    <3> QED  BY <3>1, EmptySeq
  <2>2. <<>> \in [1 .. 0 -> {}]
    OBVIOUS
  <2> QED  BY <2>1, <2>2
<1>3. \A i, j \in DOMAIN <<>> : FALSE
  OBVIOUS
<1> QED  BY <1>1, <1>2, <1>3 DEF SetToSeqs, IsInjective

\* ... and one product has one order.
LEMMA OrderingsOne ==
    ASSUME NEW k
    PROVE  SetToSeqs({k}) = {<<k>>}
<1>1. Cardinality({k}) = 1
  BY FS_Singleton
<1>2. \A f : f \in [1 .. 1 -> {k}] <=> f = <<k>>
  OBVIOUS
<1> QED  BY <1>1, <1>2 DEF SetToSeqs, IsInjective

-----------------------------------------------------------------------------
(***************************************************************************)
(* What one product does to the tables: it is not there and goes in alone, *)
(* or it is there at its version and nothing happens, or the flush throws. *)
(***************************************************************************)
LEMMA FlushEffect ==
    ASSUME NEW s, Conforms(s.db), Remembered(s.loaded, s.db), NEW sku \in Skus,
           NEW p, p.version \in Nat, NEW t \in Flush(s, sku, p)
    PROVE  /\ Conforms(t.db) /\ Keeps(s.db, t.db)
           /\ Stored(t.db, sku, p.version)
           /\ Remembered(t.loaded, t.db)
<1>1. Update(s, sku) = {}
  BY DEF Update, DeleteOrderLines
<1>2. \A d \in InsertBatches(s.db, p.batches) : d = s.db
  BY DEF InsertBatches, InsertOrderLines
<1>3. CASE sku \in DOMAIN s.loaded
  <2>1. t = s /\ p.version = s.loaded[sku]
    BY <1>1, <1>3 DEF Flush
  <2> QED  BY <1>3, <2>1 DEF Keeps, Remembered, Stored
<1>4. CASE sku \notin DOMAIN s.loaded
  <2>1. PICK d \in InsertBatches(s.db, p.batches) :
           \E e \in InsertProduct(d, sku, p.version) :
              t = [db |-> e, loaded |-> Emplacing(s.loaded, sku, p.version)]
    BY <1>4 DEF Flush, Insert
  <2>2. PICK e \in InsertProduct(s.db, sku, p.version) :
           t = [db |-> e, loaded |-> Emplacing(s.loaded, sku, p.version)]
    BY <1>2, <2>1
  <2>3. /\ sku \notin DOMAIN s.db.products
        /\ e = [s.db EXCEPT !.products = Emplacing(@, sku, p.version)]
    BY DEF InsertProduct
  <2>4. e = [products  |-> Emplacing(s.db.products, sku, p.version),
             batches   |-> s.db.batches,
             allocated |-> s.db.allocated]
    BY <2>3 DEF Conforms
  <2>5. t.db = e /\ t.loaded = Emplacing(s.loaded, sku, p.version)
    BY <2>2
  <2>6. /\ DOMAIN e.products = DOMAIN s.db.products \cup {sku}
        /\ \A k \in DOMAIN e.products :
              e.products[k] = IF k \in DOMAIN s.db.products
                              THEN s.db.products[k] ELSE p.version
        /\ e.products = [k \in DOMAIN e.products |-> e.products[k]]
        /\ e.batches = s.db.batches /\ e.allocated = s.db.allocated
        /\ e = [products |-> e.products, batches |-> e.batches,
                allocated |-> e.allocated]
    BY <2>4 DEF Emplacing
  <2>7. Conforms(e)
    BY <2>6 DEF Conforms
  <2>8. Keeps(s.db, e) /\ Stored(e, sku, p.version)
    BY <2>3, <2>6 DEF Keeps, Stored
  <2>9. Remembered(t.loaded, e)
    BY <1>4, <2>5, <2>6, <2>8 DEF Remembered, Stored, Emplacing
  <2> QED  BY <2>5, <2>7, <2>8, <2>9
<1> QED  BY <1>3, <1>4

\* What a commit does to the tables.
LEMMA FlushedEffect ==
    ASSUME IInv, NEW u \in Clients, unit[u].tx = "open", NEW s \in Flushed(u)
    PROVE  /\ Conforms(s.db) /\ Keeps(db, s.db)
           /\ Remembered(s.loaded, s.db)
           /\ \A a \in VersionsSeen(u) : Stored(s.db, a[1], a[2])
           /\ VersionsSeen(u) \subseteq Skus \X Nat
<1> DEFINE w == unit[u]
<1>1. UnitGood(w, db) /\ Conforms(db) /\ Remembered(w.loaded, db)
  BY DEF IInv, UnitGood
<1>2. Start(u).db = db /\ Start(u).loaded = w.loaded
  BY DEF Start
<1>3. Keeps(db, db)
  BY DEF Keeps, Stored
<1>4. CASE DOMAIN w.seen = {}
  <2>1. s \in FlushAll(Start(u), <<>>, w.seen)
    BY <1>4, OrderingsNone DEF Flushed, Orderings
  <2>2. s = Start(u)
    BY <2>1, FlushNone
  <2>3. VersionsSeen(u) = {}
    BY <1>4 DEF VersionsSeen
  <2> QED  BY <1>1, <1>2, <1>3, <2>2, <2>3
<1>5. CASE \E k : DOMAIN w.seen = {k}
  <2>1. PICK k : DOMAIN w.seen = {k}
    BY <1>5
  <2>2. s \in FlushAll(Start(u), <<k>>, w.seen)
    BY <2>1, OrderingsOne DEF Flushed, Orderings
  <2>3. s \in Flush(Start(u), k, w.seen[k])
    BY <2>2, FlushOne
  <2>4. k \in Skus /\ w.seen[k].version \in Nat
    BY <1>1, <2>1 DEF UnitGood, SeenSound, Sound, ProductOK
  <2>5. /\ Conforms(s.db) /\ Keeps(db, s.db)
        /\ Stored(s.db, k, w.seen[k].version)
        /\ Remembered(s.loaded, s.db)
    BY <1>1, <1>2, <2>3, <2>4, FlushEffect
  <2>6. VersionsSeen(u) = {<<k, w.seen[k].version>>}
    BY <2>1 DEF VersionsSeen
  <2> QED  BY <2>4, <2>5, <2>6
<1> QED  BY <1>1, <1>4, <1>5 DEF UnitGood, UnitShape

-----------------------------------------------------------------------------
(***************************************************************************)
(* The units of work.                                                      *)
(***************************************************************************)

\* What was stored in tables that others have added to is stored still.
LEMMA KeptStored ==
    ASSUME NEW d, NEW e, Keeps(d, e)
    PROVE  /\ \A sku, version : Stored(d, sku, version) => Stored(e, sku, version)
           /\ \A loaded : Remembered(loaded, d) => Remembered(loaded, e)
BY DEF Keeps, Stored, Remembered

\* The versions remembered are numbers, being those of the tables.
LEMMA RememberedNat ==
    ASSUME NEW d, Conforms(d), NEW loaded, Remembered(loaded, d)
    PROVE  \A sku \in DOMAIN loaded : loaded[sku] \in Nat
BY DEF Conforms, Remembered, Stored

\* One unit of work changes, and the tables are added to at most.
LEMMA OneUnitChanges ==
    ASSUME IInv, Conforms(db'), Keeps(db, db'), NEW u \in Clients,
           NEW w, UnitGood(w, db'), unit' = [unit EXCEPT ![u] = w],
           accepted' \subseteq Skus \X Nat,
           \A a \in accepted' \ accepted : Stored(db', a[1], a[2])
    PROVE  IInv'
<1>1. unit' = [v \in Clients |-> IF v = u THEN w ELSE unit[v]]
  BY DEF IInv
<1>2. ASSUME NEW v \in Clients, v # u
      PROVE  UnitGood(unit[v], db')
  <2> DEFINE x == unit[v]
  <2>1. UnitGood(x, db)
    BY DEF IInv
  <2> HIDE DEF x
  <2>2. UnitGood(x, db')
    BY <2>1, KeptStored DEF UnitGood
  <2> QED  BY <2>2 DEF x
<1>3. \A v \in Clients : UnitGood(unit'[v], db')
  BY <1>1, <1>2
<1>4. unit' = [v \in Clients |-> unit'[v]]
  BY <1>1
<1>5. \A a \in accepted' : Stored(db', a[1], a[2])
  BY KeptStored DEF IInv, AcceptedIsStored
<1>6. AcceptedIsStored'
  BY <1>5 DEF AcceptedIsStored, Stored
<1> QED  BY <1>3, <1>4, <1>6 DEF IInv

\* The same when the tables are left alone.
LEMMA OnlyOneUnitChanges ==
    ASSUME IInv, UNCHANGED <<db, accepted>>, NEW u \in Clients,
           NEW w, UnitGood(w, db), unit' = [unit EXCEPT ![u] = w]
    PROVE  IInv' /\ Keeps(db, db')
<1>1. Conforms(db') /\ Keeps(db, db') /\ UnitGood(w, db')
  BY DEF IInv, Keeps, Stored
<1>2. accepted' \subseteq Skus \X Nat /\ accepted' \ accepted = {}
  BY DEF IInv
<1> QED  BY <1>1, <1>2, OneUnitChanges

\* A unit of work that has seen nothing.
LEMMA EmptyUnitGood ==
    ASSUME NEW d, Conforms(d), NEW loaded, Remembered(loaded, d)
    PROVE  UnitGood([NewUnit EXCEPT !.loaded = loaded], d)
<1> DEFINE w == [NewUnit EXCEPT !.loaded = loaded]
<1>1. w = [seen |-> <<>>, loaded |-> loaded, tx |-> "open", threw |-> FALSE]
  <2>1. ASSUME NEW f, NEW n,
               n = [seen |-> <<>>, loaded |-> <<>>, tx |-> "open", threw |-> f]
        PROVE  [n EXCEPT !.loaded = loaded]
                 = [seen |-> <<>>, loaded |-> loaded, tx |-> "open", threw |-> f]
    BY <2>1
  <2> QED  BY <2>1, Zenon DEF NewUnit
<1> HIDE DEF w
<1>2. /\ w.seen = <<>> /\ w.loaded = loaded /\ w.tx = "open"
      /\ w = [seen |-> w.seen, loaded |-> w.loaded, tx |-> w.tx,
              threw |-> w.threw]
  BY <1>1
<1>3. w.threw \in BOOLEAN
  BY <1>1
<1>4. UnitShape(w) /\ SeenSound(w.seen)
  BY <1>2, <1>3, EmptyMap, RememberedNat DEF UnitShape, SeenSound
<1>5. UnitGood(w, d)
  BY <1>2, <1>4 DEF UnitGood
<1> QED  BY <1>5 DEF w

\* A unit of work just made (SqlUnitOfWork.cpp:9-16).
LEMMA NewUnitGood ==
    ASSUME NEW d, Conforms(d)
    PROVE  UnitGood(NewUnit, d)
<1>1. NewUnit = [NewUnit EXCEPT !.loaded = <<>>]
  BY DEF NewUnit
<1>2. Remembered(<<>>, d)
  BY EmptyMap DEF Remembered
<1> QED  BY <1>1, <1>2, EmptyUnitGood

\* Products seen stay while the transaction and what is remembered change.
LEMMA SeenKept ==
    ASSUME NEW d, NEW e, Conforms(e), NEW o, UnitGood(o, d), NEW w,
           w = [seen |-> o.seen, loaded |-> w.loaded, tx |-> w.tx,
                threw |-> TRUE],
           w.tx \in {"open", "aborted", "finished"},
           \/ Remembered(w.loaded, e)
           \/ /\ w.tx = "finished"
              /\ \A k \in DOMAIN w.loaded : w.loaded[k] \in Nat
    PROVE  UnitGood(w, e)
<1>1. w.seen = o.seen
  OBVIOUS
<1>2. w.threw = TRUE
  OBVIOUS
<1>3. w = [seen |-> w.seen, loaded |-> w.loaded, tx |-> w.tx, threw |-> w.threw]
  BY <1>1, <1>2
<1>4. w.threw \in BOOLEAN
  BY <1>2
<1>5. \A k \in DOMAIN w.loaded : w.loaded[k] \in Nat
  BY RememberedNat
<1>6. UnitShape(w)
  BY <1>1, <1>3, <1>4, <1>5 DEF UnitShape, UnitGood
<1> QED  BY <1>1, <1>6 DEF UnitGood

\* The events of a product that is changed are left out.
LEMMA QuietSound ==
    ASSUME NEW sku, NEW p, Sound(sku, p)
    PROVE  /\ Sound(sku, [p EXCEPT !.messages = <<>>])
           /\ [p EXCEPT !.messages = <<>>].batches = p.batches
           /\ [p EXCEPT !.messages = <<>>].version = p.version
<1> DEFINE x == [p EXCEPT !.messages = <<>>]
<1>1. x = [batches |-> p.batches, version |-> p.version, messages |-> <<>>]
  BY DEF Sound, ProductOK
<1>2. <<>> \in Seq(Event)
  BY EmptySeq
<1> HIDE DEF x
<1>3. /\ x.batches = p.batches /\ x.version = p.version /\ x.messages = <<>>
      /\ x = [batches |-> x.batches, version |-> x.version,
              messages |-> x.messages]
  BY <1>1
<1>4. Sound(sku, x)
  BY <1>2, <1>3 DEF Sound, ProductOK
<1> QED  BY <1>3, <1>4 DEF x


\* A product that a caller adds.
LEMMA NewProductsSound ==
    ASSUME NEW p \in NewProducts,
           NEW q, q = [batches |-> Emplaced(p.batches), version |-> p.version,
                       messages |-> <<>>]
    PROVE  p.sku \in Skus /\ Sound(p.sku, q)
<1> DEFINE N == {b \in NewBatch : b.sku = p.sku}
           v == p.batches
<1>1. p.sku \in Skus
  BY SqlAssumption, Zenon
<1>2. v \in Seq(N)
  BY SqlAssumption, Zenon
<1>3. p.version \in Nat
  BY SqlAssumption, Zenon
<1>4. <<>> \in Seq(Event)
  BY EmptySeq
<1>5. /\ q.batches = Emplaced(v) /\ q.version = p.version /\ q.messages = <<>>
      /\ q = [batches |-> q.batches, version |-> q.version, messages |-> q.messages]
  OBVIOUS
<1> HIDE DEF N, v
<1>6. \A r \in DOMAIN Emplaced(v) : Emplaced(v)[r] \in N /\ Emplaced(v)[r].reference = r
  BY <1>2, EmplacedFirst
<1>7. Emplaced(v) = [r \in DOMAIN Emplaced(v) |-> Emplaced(v)[r]]
  BY DEF Emplaced
<1>8. \A b \in N : /\ b \in BatchType /\ b.allocations = {} /\ b.sku = p.sku
                   /\ b.reference \in Refs
                   /\ BatchSound(b)
  <2> SUFFICES ASSUME NEW b \in N
               PROVE  /\ b \in BatchType /\ b.allocations = {} /\ b.sku = p.sku
                      /\ b.reference \in Refs
                      /\ BatchSound(b)
    OBVIOUS
  <2>1. /\ b \in BatchType /\ b.allocations = {} /\ b.purchased <= IntMax
        /\ b.sku = p.sku
    BY DEF N, NewBatch
  <2>2. b.reference \in Refs /\ b.purchased \in Nat
    BY <2>1 DEF BatchType, Size
  <2>3. BatchSound(b)
    BY <2>1, <2>2, NoLinesNoUnits, FS_EmptySet DEF BatchSound
  <2> QED  BY <2>1, <2>2, <2>3
<1>9. BatchesOK(p.sku, Emplaced(v))
  BY <1>6, <1>7, <1>8 DEF BatchesOK
<1>10. ProductOK(p.sku, q)
  BY <1>3, <1>4, <1>5, <1>9 DEF ProductOK
<1> QED  BY <1>1, <1>5, <1>6, <1>8, <1>10 DEF Sound

-----------------------------------------------------------------------------
\* The actions.

\* A call that throws before anything has changed.
LEMMA ThrowsGood ==
    ASSUME IInv, NEW u \in Clients, Throws(u)
    PROVE  IInv' /\ Keeps(db, db')
<1> DEFINE o == unit[u]
           w == [seen |-> o.seen, loaded |-> o.loaded, tx |-> o.tx, threw |-> TRUE]
<1>1. UnitGood(o, db) /\ Conforms(db)
  BY DEF IInv
<1>2. [o EXCEPT !.threw = TRUE] = w
  <2>1. ASSUME NEW b, NEW q, q = [o EXCEPT !.threw = b]
        PROVE  q = [seen |-> o.seen, loaded |-> o.loaded, tx |-> o.tx, threw |-> b]
    BY <1>1, <2>1 DEF UnitGood, UnitShape
  <2> QED  BY <2>1, Zenon
<1>3. unit' = [unit EXCEPT ![u] = w]
  BY <1>2 DEF Throws
<1> HIDE DEF o
<1>4. /\ w.loaded = o.loaded /\ w.tx = o.tx
      /\ w = [seen |-> o.seen, loaded |-> w.loaded, tx |-> w.tx, threw |-> TRUE]
  OBVIOUS
<1> HIDE DEF w
<1>5. /\ w.tx \in {"open", "aborted", "finished"}
      /\ \A k \in DOMAIN w.loaded : w.loaded[k] \in Nat
      /\ Remembered(w.loaded, db) \/ w.tx = "finished"
  BY <1>1, <1>4 DEF UnitGood, UnitShape
<1>6. UnitGood(w, db)
  BY <1>1, <1>4, <1>5, SeenKept
<1> QED  BY <1>3, <1>6, OnlyOneUnitChanges DEF Throws

\* A unit of work with room for a product has seen none.
LEMMA NoneSeen ==
    ASSUME OneAtATime, IInv, NEW u \in Clients, HasSpace(u)
    PROVE  DOMAIN unit[u].seen = {}
<1>1. Cardinality(DOMAIN unit[u].seen) < 1
  BY DEF HasSpace, OneAtATime
<1>2. DOMAIN unit[u].seen = {} \/ \E k : DOMAIN unit[u].seen = {k}
  BY DEF IInv, UnitGood, UnitShape
<1>3. \A k : Cardinality({k}) = 1
  BY FS_Singleton
<1> QED  BY <1>1, <1>2, <1>3

\* A caller's product is sound, and all there is in the unit of work.
LEMMA AddGood ==
    ASSUME OneAtATime, IInv, NEW u \in Clients, NEW p \in NewProducts, AddNew(u, p)
    PROVE  IInv' /\ Keeps(db, db')
<1> DEFINE o == unit[u]
           q == [batches |-> Emplaced(p.batches), version |-> p.version,
                 messages |-> <<>>]
           x == Seeing(o, p.sku, q)
           w == [seen |-> [s \in {p.sku} |-> q], loaded |-> o.loaded,
                 tx |-> o.tx, threw |-> FALSE]
<1>1. unit' = [unit EXCEPT ![u] = [x EXCEPT !.threw = FALSE]]
  BY DEF AddNew
<1>2. UnitGood(o, db) /\ DOMAIN o.seen = {}
  BY NoneSeen DEF IInv, AddNew
<1>3. p.sku \in Skus /\ Sound(p.sku, q)
  BY NewProductsSound
<1> HIDE DEF q
<1>4. x = [seen |-> [s \in {p.sku} |-> q], loaded |-> o.loaded,
           tx |-> o.tx, threw |-> o.threw]
  BY <1>2 DEF UnitGood, UnitShape, Seeing
<1> HIDE DEF x, o
<1>5. [x EXCEPT !.threw = FALSE] = w
  <2>1. ASSUME NEW b, NEW y, y = [x EXCEPT !.threw = b]
        PROVE  y = [seen |-> [s \in {p.sku} |-> q], loaded |-> o.loaded,
                    tx |-> o.tx, threw |-> b]
    BY <1>4, <2>1
  <2> QED  BY <2>1, Zenon
<1>6. unit' = [unit EXCEPT ![u] = w]
  BY <1>1, <1>5
<1>7. /\ w.seen = [s \in {p.sku} |-> q] /\ w.loaded = o.loaded /\ w.tx = o.tx
      /\ w = [seen |-> w.seen, loaded |-> w.loaded, tx |-> w.tx,
              threw |-> w.threw]
  OBVIOUS
<1>8. w.threw \in BOOLEAN
  OBVIOUS
<1> HIDE DEF w
<1>9. /\ DOMAIN w.seen = {p.sku} /\ w.seen[p.sku] = q
      /\ w.seen = [s \in DOMAIN w.seen |-> w.seen[s]]
  BY <1>7
<1>10. UnitGood(w, db)
  BY <1>2, <1>3, <1>7, <1>8, <1>9 DEF UnitGood, UnitShape, SeenSound
<1> QED  BY <1>6, <1>10, OnlyOneUnitChanges DEF AddNew

\* A product that is changed into a sound one.
LEMMA ChangingGood ==
    ASSUME IInv, NEW u \in Clients, NEW sku \in DOMAIN unit[u].seen,
           NEW p, Sound(sku, p), Changing(u, sku, p)
    PROVE  IInv' /\ Keeps(db, db')
<1> DEFINE o == unit[u]
           q == [p EXCEPT !.messages = <<>>]
           w == [seen |-> [s \in DOMAIN o.seen |-> IF s = sku THEN q ELSE o.seen[s]],
                 loaded |-> o.loaded, tx |-> o.tx, threw |-> o.threw]
<1>1. UnitGood(o, db)
  BY DEF IInv
<1>2. unit' = [unit EXCEPT ![u].seen[sku] = q]
  BY DEF Changing
<1>3. Sound(sku, q)
  BY QuietSound
<1> HIDE DEF q
<1>4. [o EXCEPT !.seen[sku] = q] = w
  BY <1>1 DEF UnitGood, UnitShape
<1>5. unit' = [unit EXCEPT ![u] = w]
  BY <1>2, <1>4
<1> HIDE DEF o
<1>6. /\ DOMAIN w.seen = DOMAIN o.seen
      /\ \A s \in DOMAIN w.seen : w.seen[s] = IF s = sku THEN q ELSE o.seen[s]
      /\ w.seen = [s \in DOMAIN w.seen |-> w.seen[s]]
      /\ w.loaded = o.loaded /\ w.tx = o.tx
      /\ w = [seen |-> w.seen, loaded |-> w.loaded, tx |-> w.tx,
              threw |-> w.threw]
  OBVIOUS
<1>7. w.threw = o.threw
  OBVIOUS
<1> HIDE DEF w
<1>8. SeenSound(w.seen)
  BY <1>1, <1>3, <1>6 DEF SeenSound, UnitGood
<1>9. w.threw \in BOOLEAN
  BY <1>1, <1>7 DEF UnitGood, UnitShape
<1>10. UnitGood(w, db)
  BY <1>1, <1>6, <1>8, <1>9 DEF UnitGood, UnitShape
<1> QED  BY <1>5, <1>10, OnlyOneUnitChanges DEF Changing

\* The methods of the aggregate.
LEMMA ChangesGood ==
    ASSUME IInv, NEW u \in Clients,
           \/ \E b \in NewBatches : AddBatch(u, b)
           \/ \E line \in Lines : AllocateLine(u, line)
           \/ \E ref \in Refs, qty \in Quantities : ChangeQuantity(u, ref, qty)
    PROVE  IInv' /\ Keeps(db, db')
<1> DEFINE seen == unit[u].seen
<1>1. \A sku \in DOMAIN seen : sku \in Skus /\ Sound(sku, seen[sku])
  BY DEF IInv, UnitGood, SeenSound
<1>2. CASE \E b \in NewBatches : AddBatch(u, b)
  <2>1. PICK b \in NewBatches : AddBatch(u, b)
    BY <1>2
  <2>2. b.sku \in DOMAIN seen /\ Changing(u, b.sku, WithBatch(seen[b.sku], b))
    BY <2>1 DEF AddBatch
  <2>3. b \in BatchType /\ b.allocations = {} /\ b.purchased <= IntMax
    BY SqlAssumption DEF NewBatch
  <2>4. Sound(b.sku, WithBatch(seen[b.sku], b))
    BY <1>1, <2>2, <2>3, WithBatchSound
  <2> QED  BY <2>2, <2>4, ChangingGood
<1>3. CASE \E line \in Lines : AllocateLine(u, line)
  <2>1. PICK line \in Lines : AllocateLine(u, line)
    BY <1>3
  <2>2. PICK p \in AfterAllocate(seen[line.sku], line) : Changing(u, line.sku, p)
    BY <2>1 DEF AllocateLine
  <2>3. line.sku \in DOMAIN seen
    BY <2>1 DEF AllocateLine
  <2>4. line \in OrderLine
    BY SqlAssumption, Zenon
  <2>5. line.sku \in Skus /\ Sound(line.sku, seen[line.sku])
    BY <1>1, <2>3
  <2>6. Sound(line.sku, p)
    BY <2>4, <2>5, AfterAllocateSound
  <2> QED  BY <2>2, <2>3, <2>6, ChangingGood
<1>4. CASE \E ref \in Refs, qty \in Quantities : ChangeQuantity(u, ref, qty)
  <2>1. PICK ref \in Refs, qty \in Quantities : ChangeQuantity(u, ref, qty)
    BY <1>4
  <2>2. PICK sku \in DOMAIN seen :
           /\ ref \in DOMAIN seen[sku].batches
           /\ \E p \in AfterChange(seen[sku], ref, qty) : Changing(u, sku, p)
    BY <2>1 DEF ChangeQuantity, Owners
  <2>3. PICK p \in AfterChange(seen[sku], ref, qty) : Changing(u, sku, p)
    BY <2>2
  <2>4. qty \in 0 .. IntMax
    BY SqlAssumption, Zenon
  <2>5. sku \in Skus /\ Sound(sku, seen[sku])
    BY <1>1
  <2>6. Sound(sku, p)
    BY <2>2, <2>4, <2>5, AfterChangeSound
  <2> QED  BY <2>3, <2>6, ChangingGood
<1> QED  BY <1>2, <1>3, <1>4

\* What a commit that returns was given is in the tables.
LEMMA CommitReturnsGood ==
    ASSUME IInv, NEW u \in Clients, CommitReturns(u)
    PROVE  IInv' /\ Keeps(db, db')
<1>1. PICK s \in Flushed(u) :
         /\ db' = s.db
         /\ unit' = [unit EXCEPT ![u] = [NewUnit EXCEPT !.loaded = s.loaded]]
  BY DEF CommitReturns
<1>2. unit[u].tx = "open" /\ accepted' = accepted \cup VersionsSeen(u)
  BY DEF CommitReturns
<1>3. /\ Conforms(db') /\ Keeps(db, db') /\ Remembered(s.loaded, db')
      /\ \A a \in VersionsSeen(u) : Stored(db', a[1], a[2])
      /\ VersionsSeen(u) \subseteq Skus \X Nat
  BY <1>1, <1>2, FlushedEffect
<1>4. UnitGood([NewUnit EXCEPT !.loaded = s.loaded], db')
  BY <1>3, EmptyUnitGood
<1>5. /\ accepted' \subseteq Skus \X Nat
      /\ \A a \in accepted' \ accepted : Stored(db', a[1], a[2])
  BY <1>2, <1>3 DEF IInv
<1>6. IInv'
  BY <1>1, <1>3, <1>4, <1>5, OneUnitChanges
<1> QED  BY <1>3, <1>6

\* With one product a flush that throws has nothing to forget.
LEMMA FlushThrowsForgets ==
    ASSUME IInv, NEW u \in Clients, FlushThrows(u)
    PROVE  \E loaded :
              /\ unit' = [unit EXCEPT ![u].loaded = loaded, ![u].tx = "aborted",
                                      ![u].threw = TRUE]
              /\ loaded = unit[u].loaded
<1> DEFINE o == unit[u]
           becomes(s) == unit' = [unit EXCEPT ![u].loaded = s.loaded,
                                              ![u].tx = "aborted",
                                              ![u].threw = TRUE]
<1>0. PICK skus \in Orderings(u) : \E n \in 0 .. (Len(skus) - 1) :
         \E s \in FlushAll(Start(u), SubSeq(skus, 1, n), unit[u].seen) : becomes(s)
  BY DEF FlushThrows
<1> HIDE DEF becomes
<1>1. PICK n \in 0 .. (Len(skus) - 1) :
         \E s \in FlushAll(Start(u), SubSeq(skus, 1, n), unit[u].seen) : becomes(s)
  BY <1>0
<1>2. UnitGood(o, db)
  BY DEF IInv
<1>3. skus = <<>> \/ \E k : skus = <<k>>
  <2>1. CASE DOMAIN o.seen = {}
    BY <2>1, OrderingsNone DEF Orderings
  <2>2. CASE \E k : DOMAIN o.seen = {k}
    <3>1. PICK k : DOMAIN o.seen = {k}
      BY <2>2
    <3>2. skus \in SetToSeqs({k})
      BY <3>1 DEF Orderings
    <3> QED  BY <3>2, OrderingsOne
  <2> QED  BY <1>2, <2>1, <2>2 DEF UnitGood, UnitShape
<1>4. PICK k : skus = <<k>> /\ n = 0
  <2>1. Len(<<>>) = 0 /\ \A k : Len(<<k>>) = 1
    OBVIOUS
  <2>2. PICK k : skus = <<k>>
    BY <1>3, <2>1
  <2>3. Len(skus) = 1
    BY <2>1, <2>2
  <2>4. n = 0
    BY <2>3
  <2> QED  BY <2>2, <2>4
<1>5. SubSeq(<<k>>, 1, 0) = <<>>
  OBVIOUS
<1>6. PICK s \in FlushAll(Start(u), <<>>, unit[u].seen) : becomes(s)
  BY <1>1, <1>4, <1>5
<1>7. s.loaded = unit[u].loaded
  BY <1>6, FlushNone DEF Start
<1> QED  BY <1>6, <1>7 DEF becomes

\* ... and nothing is written.
LEMMA FlushThrowsGood ==
    ASSUME IInv, NEW u \in Clients, FlushThrows(u)
    PROVE  IInv' /\ Keeps(db, db')
<1> DEFINE o == unit[u]
           w == [seen |-> o.seen, loaded |-> o.loaded, tx |-> "aborted",
                 threw |-> TRUE]
<1>1. PICK loaded :
         /\ unit' = [unit EXCEPT ![u].loaded = loaded, ![u].tx = "aborted",
                                 ![u].threw = TRUE]
         /\ loaded = o.loaded
  BY FlushThrowsForgets
<1>2. UnitGood(o, db) /\ o.tx = "open" /\ Conforms(db)
  BY DEF IInv, FlushThrows
<1>3. [o EXCEPT !.loaded = loaded, !.tx = "aborted", !.threw = TRUE] = w
  <2>1. ASSUME NEW b, NEW q,
               q = [o EXCEPT !.loaded = loaded, !.tx = "aborted", !.threw = b]
        PROVE  q = [seen |-> o.seen, loaded |-> o.loaded, tx |-> "aborted",
                    threw |-> b]
    BY <1>1, <1>2, <2>1 DEF UnitGood, UnitShape
  <2> QED  BY <2>1, Zenon
<1>4. unit' = [unit EXCEPT ![u] = w]
  BY <1>1, <1>3
<1> HIDE DEF o
<1>5. /\ w = [seen |-> o.seen, loaded |-> w.loaded, tx |-> w.tx, threw |-> TRUE]
      /\ w.tx = "aborted" /\ w.loaded = o.loaded
  OBVIOUS
<1> HIDE DEF w
<1>6. Remembered(w.loaded, db)
  BY <1>2, <1>5 DEF UnitGood
<1>7. UnitGood(w, db)
  BY <1>2, <1>5, <1>6, SeenKept
<1> QED  BY <1>4, <1>7, OnlyOneUnitChanges DEF FlushThrows

\* Done or refused, the commit leaves a unit of work without a transaction.
LEMMA CommitThrowsGood ==
    ASSUME IInv, NEW u \in Clients, CommitThrows(u)
    PROVE  IInv' /\ Keeps(db, db')
<1> DEFINE o == unit[u]
<1>1. PICK s \in Flushed(u) :
         /\ unit' = [unit EXCEPT ![u].loaded = s.loaded, ![u].tx = "finished",
                                 ![u].threw = TRUE]
         /\ db' = db \/ db' = s.db
  BY DEF CommitThrows
<1> DEFINE w == [seen |-> o.seen, loaded |-> s.loaded, tx |-> "finished",
                 threw |-> TRUE]
<1>2. UnitGood(o, db) /\ o.tx = "open" /\ Conforms(db) /\ accepted' = accepted
  BY DEF IInv, CommitThrows
<1>3. Conforms(s.db) /\ Keeps(db, s.db) /\ Remembered(s.loaded, s.db)
  BY <1>2, FlushedEffect
<1>4. Conforms(db') /\ Keeps(db, db')
  BY <1>1, <1>2, <1>3 DEF Keeps, Stored
<1>5. [o EXCEPT !.loaded = s.loaded, !.tx = "finished", !.threw = TRUE] = w
  <2>1. ASSUME NEW b, NEW q,
               q = [o EXCEPT !.loaded = s.loaded, !.tx = "finished", !.threw = b]
        PROVE  q = [seen |-> o.seen, loaded |-> s.loaded, tx |-> "finished",
                    threw |-> b]
    BY <1>2, <2>1 DEF UnitGood, UnitShape
  <2> QED  BY <2>1, Zenon
<1>6. unit' = [unit EXCEPT ![u] = w]
  BY <1>1, <1>5
<1> HIDE DEF o
<1>7. /\ w = [seen |-> o.seen, loaded |-> w.loaded, tx |-> w.tx, threw |-> TRUE]
      /\ w.tx = "finished" /\ w.loaded = s.loaded
  OBVIOUS
<1> HIDE DEF w
<1>8. \A k \in DOMAIN w.loaded : w.loaded[k] \in Nat
  BY <1>3, <1>7, RememberedNat
<1>9. UnitGood(w, db')
  BY <1>2, <1>4, <1>7, <1>8, SeenKept
<1>10. accepted' \subseteq Skus \X Nat /\ accepted' \ accepted = {}
  BY <1>2 DEF IInv
<1>11. IInv'
  BY <1>4, <1>6, <1>9, <1>10, OneUnitChanges
<1> QED  BY <1>4, <1>11

\* A transaction that is finished can be left with what is remembered.
LEMMA CommitTooLateGood ==
    ASSUME IInv, NEW u \in Clients, CommitTooLate(u)
    PROVE  IInv' /\ Keeps(db, db')
<1> DEFINE o == unit[u]
           w == [seen |-> o.seen, loaded |-> o.loaded, tx |-> "finished",
                 threw |-> TRUE]
<1>1. CASE Throws(u)
  BY <1>1, ThrowsGood
<1>2. CASE /\ unit' = [unit EXCEPT ![u].tx = "finished", ![u].threw = TRUE]
           /\ UNCHANGED <<db, accepted>>
  <2>1. UnitGood(o, db) /\ Conforms(db)
    BY DEF IInv
  <2>2. [o EXCEPT !.tx = "finished", !.threw = TRUE] = w
    <3>1. ASSUME NEW b, NEW q, q = [o EXCEPT !.tx = "finished", !.threw = b]
          PROVE  q = [seen |-> o.seen, loaded |-> o.loaded, tx |-> "finished",
                      threw |-> b]
      BY <2>1, <3>1 DEF UnitGood, UnitShape
    <3> QED  BY <3>1, Zenon
  <2>3. unit' = [unit EXCEPT ![u] = w]
    BY <1>2, <2>2
  <2> HIDE DEF o
  <2>4. /\ w = [seen |-> o.seen, loaded |-> w.loaded, tx |-> w.tx, threw |-> TRUE]
        /\ w.tx = "finished" /\ w.loaded = o.loaded
    OBVIOUS
  <2> HIDE DEF w
  <2>5. \A k \in DOMAIN w.loaded : w.loaded[k] \in Nat
    BY <2>1, <2>4 DEF UnitGood, UnitShape
  <2>6. UnitGood(w, db)
    BY <2>1, <2>4, <2>5, SeenKept
  <2> QED  BY <1>2, <2>3, <2>6, OnlyOneUnitChanges
<1> QED  BY <1>1, <1>2 DEF CommitTooLate

\* The products seen are given up; what was remembered stays.
LEMMA RollBackGood ==
    ASSUME IInv, NEW u \in Clients, RollBack(u)
    PROVE  IInv' /\ Keeps(db, db')
<1>1. CASE unit[u].tx = "finished" /\ Throws(u)
  BY <1>1, ThrowsGood
<1>2. CASE /\ unit[u].tx # "finished"
           /\ unit' = [unit EXCEPT ![u] = [NewUnit EXCEPT !.loaded = unit[u].loaded]]
           /\ UNCHANGED <<db, accepted>>
  <2>1. Conforms(db) /\ Remembered(unit[u].loaded, db)
    BY <1>2 DEF IInv, UnitGood
  <2>2. UnitGood([NewUnit EXCEPT !.loaded = unit[u].loaded], db)
    BY <2>1, EmptyUnitGood
  <2> QED  BY <1>2, <2>2, OnlyOneUnitChanges
<1> QED  BY <1>1, <1>2 DEF RollBack

\* Another unit of work is made.
LEMMA OpenGood ==
    ASSUME IInv, NEW u \in Clients, Open(u)
    PROVE  IInv' /\ Keeps(db, db')
BY NewUnitGood, OnlyOneUnitChanges DEF Open, IInv

-----------------------------------------------------------------------------
\* Nobody has done anything yet.
LEMMA InitGood == Init => IInv
<1> SUFFICES ASSUME Init PROVE IInv
  OBVIOUS
<1>1. Conforms(db)
  BY SqlAssumption DEF Init
<1>2. /\ unit = [u \in Clients |-> unit[u]]
      /\ \A u \in Clients : UnitGood(unit[u], db)
  BY <1>1, NewUnitGood DEF Init
<1>3. accepted = {}
  BY DEF Init
<1> QED  BY <1>1, <1>2, <1>3 DEF IInv, AcceptedIsStored

\* Every step.
LEMMA StepGood ==
    ASSUME OneAtATime, IInv, [Next]_vars
    PROVE  IInv' /\ Keeps(db, db')
<1>1. CASE UNCHANGED vars
  <2>1. /\ db' = db /\ unit' = unit /\ accepted' = accepted
    BY <1>1 DEF vars
  <2>2. IInv'
    BY <2>1 DEF IInv, AcceptedIsStored
  <2> QED  BY <2>1, <2>2 DEF Keeps, Stored
<1>2. CASE Next
  <2>1. PICK u \in Clients :
          \/ Open(u)
          \/ \E p \in NewProducts : Add(u, p)
          \/ \E sku \in Skus : GetProduct(u, sku)
          \/ \E ref \in Refs : GetProductByBatchRef(u, ref)
          \/ \E b \in NewBatches : AddBatch(u, b)
          \/ \E line \in Lines : AllocateLine(u, line)
          \/ \E ref \in Refs, qty \in Quantities : ChangeQuantity(u, ref, qty)
          \/ CommitReturns(u)
          \/ FlushThrows(u)
          \/ CommitThrows(u)
          \/ CommitTooLate(u)
          \/ RollBack(u)
    BY <1>2 DEF Next
  <2>2. CASE Open(u)
    BY <2>2, OpenGood
  <2>3. CASE \E p \in NewProducts : Add(u, p)
    BY <2>3, AddGood, ThrowsGood DEF Add
  <2>4. CASE \/ \E sku \in Skus : GetProduct(u, sku)
             \/ \E ref \in Refs : GetProductByBatchRef(u, ref)
    BY <2>4, ThrowsGood DEF GetProduct, GetProductByBatchRef
  <2>5. CASE \/ \E b \in NewBatches : AddBatch(u, b)
             \/ \E line \in Lines : AllocateLine(u, line)
             \/ \E ref \in Refs, qty \in Quantities : ChangeQuantity(u, ref, qty)
    BY <2>5, ChangesGood
  <2>6. CASE CommitReturns(u)
    BY <2>6, CommitReturnsGood
  <2>7. CASE FlushThrows(u)
    BY <2>7, FlushThrowsGood
  <2>8. CASE CommitThrows(u)
    BY <2>8, CommitThrowsGood
  <2>9. CASE CommitTooLate(u)
    BY <2>9, CommitTooLateGood
  <2>10. CASE RollBack(u)
    BY <2>10, RollBackGood
  <2> QED  BY <2>1, <2>2, <2>3, <2>4, <2>5, <2>6, <2>7, <2>8, <2>9, <2>10
<1> QED  BY <1>1, <1>2

-----------------------------------------------------------------------------
(***************************************************************************)
(* While a unit of work has one product at a time, the tables keep to the  *)
(* schema and the products of units of work to their types, whatever was   *)
(* stored before and whoever commits (db-1.sql:6-32).                      *)
(***************************************************************************)
THEOREM TablesTypeCorrect == OneAtATime => (Spec => []TypeOK)
<1> SUFFICES ASSUME OneAtATime PROVE Spec => []TypeOK
  OBVIOUS
<1>1. Init => IInv
  BY InitGood
<1>2. IInv /\ [Next]_vars => IInv'
  BY StepGood
<1>3. IInv => TypeOK
  BY DEF IInv, TypeOK, UnitGood, UnitShape, SeenSound, Sound
<1> QED  BY <1>1, <1>2, <1>3, PTL DEF Spec

(***************************************************************************)
(* Under the same condition a product whose commit returned is stored at   *)
(* the version it had, from then on, whatever others add, commit, fail to  *)
(* commit or roll back (SqlRepository.cpp:14-44).                          *)
(***************************************************************************)
THEOREM AcceptedProductsStay == OneAtATime => (Spec => []AcceptedIsStored)
<1> SUFFICES ASSUME OneAtATime PROVE Spec => []AcceptedIsStored
  OBVIOUS
<1>1. Init => IInv
  BY InitGood
<1>2. IInv /\ [Next]_vars => IInv'
  BY StepGood
<1>3. IInv => AcceptedIsStored
  BY DEF IInv
<1> QED  BY <1>1, <1>2, <1>3, PTL DEF Spec

(***************************************************************************)
(* Under the same condition a version that a unit of work remembers is     *)
(* stored as long as the unit of work can commit, although it is           *)
(* remembered before the commit (SqlRepository.cpp:43).                    *)
(***************************************************************************)
THEOREM MemoryIsTrue == OneAtATime => (Spec => []RememberedIsStored)
<1> SUFFICES ASSUME OneAtATime PROVE Spec => []RememberedIsStored
  OBVIOUS
<1>1. Init => IInv
  BY InitGood
<1>2. IInv /\ [Next]_vars => IInv'
  BY StepGood
<1>3. IInv => RememberedIsStored
  BY DEF IInv, UnitGood, Remembered, RememberedIsStored
<1> QED  BY <1>1, <1>2, <1>3, PTL DEF Spec

(***************************************************************************)
(* Under the same condition no step of anyone changes or removes a product,*)
(* a batch or an allocation that is stored (SqlRepository.cpp:25-44).      *)
(***************************************************************************)
THEOREM NothingStoredIsLost == OneAtATime => (Spec => StoredStays)
<1> SUFFICES ASSUME OneAtATime PROVE Spec => StoredStays
  OBVIOUS
<1> DEFINE Stays == /\ \A sku \in DOMAIN db.products :
                          Stored(db', sku, db.products[sku])
                    /\ db'.batches = db.batches
                    /\ db'.allocated = db.allocated
<1>1. Init => IInv
  BY InitGood
<1>2. IInv /\ [Next]_vars => IInv'
  BY StepGood
<1>3. IInv /\ [Next]_vars => [Stays]_vars
  BY StepGood DEF Keeps
<1> QED  BY <1>1, <1>2, <1>3, PTL DEF Spec, StoredStays
=============================================================================
