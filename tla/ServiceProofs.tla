---------------------------- MODULE ServiceProofs ----------------------------
(***************************************************************************)
(* Theorems about AllocationService: for every set of commands, every      *)
(* wiring of the bus, every kind of failure of the storage and every width *)
(* of the integers its variables keep their types and no stored batch      *)
(* holds more than was purchased.                                          *)
(***************************************************************************)
EXTENDS AllocationService, HandlersProofs

Good(sku, product) == Sound(sku, product) /\ DOMAIN product.batches # {}

GoodProducts(products) ==
    /\ products = [sku \in DOMAIN products |-> products[sku]]
    /\ DOMAIN products \subseteq Skus
    /\ \A sku \in DOMAIN products : Good(sku, products[sku])

GoodStore(s) ==
    /\ GoodProducts(s)
    /\ \A sku \in DOMAIN s : s[sku].messages = <<>>

GoodUnit(w) ==
    /\ w = [seen |-> w.seen, newMessages |-> w.newMessages, broken |-> w.broken]
    /\ GoodProducts(w.seen)
    /\ IsFiniteSet(DOMAIN w.seen)
    /\ w.newMessages \in Seq(Event)
    /\ w.broken \in BOOLEAN

GoodResult(r) == GoodStore(r.store) /\ GoodUnit(r.uow) /\ r.threw \in BOOLEAN

DeliveryOK(d) ==
    \/ d = NoDelivery
    \/ /\ d = [event |-> d.event, left |-> d.left]
       /\ d.event \in Event
       /\ d.left \in Seq(EventHandlerFor(d.event.type)) \ {<<>>}

\* A command is alone in the queue and its unit of work is new.
QueueOK ==
    \/ queue \in Seq(Event)
    \/ /\ \E c \in Command : queue = <<c>>
       /\ uow = NewUnitOfWork
       /\ delivery = NoDelivery

HistoryOK ==
    /\ emails \in [Skus -> Nat]
    /\ refused \in [Skus -> Nat]
    /\ accepted \subseteq OrderLine

RequestOK ==
    /\ serving \in BOOLEAN
    /\ reply \in {"none", "ok", "error"}
    /\ served \in 0 .. MaxRequests
    /\ ~serving => queue = <<>> /\ delivery = NoDelivery

(***************************************************************************)
(* The inductive invariant.                                                *)
(***************************************************************************)
IInv ==
    /\ GoodStore(store)
    /\ GoodUnit(uow)
    /\ QueueOK
    /\ DeliveryOK(delivery)
    /\ HistoryOK
    /\ RequestOK

-----------------------------------------------------------------------------
\* The messages of the bus, by type.
LEMMA EventTypes ==
    /\ \A line \in OrderLine, ref \in Refs : Allocated(line, ref) \in Event
    /\ \A line \in OrderLine : Deallocated(line) \in Event
    /\ \A sku \in Skus : OutOfStock(sku) \in Event
    /\ \A e \in Event : e.type \in EventType
    /\ \A c \in Command : c.type \in CommandType
BY EventRecords DEF Event, EventType, Command, CommandType

\* The methods of the aggregate keep a product good.
LEMMA MethodsGood ==
    ASSUME NEW sku \in Skus, NEW p, Good(sku, p)
    PROVE  /\ \A line \in OrderLine : line.sku = sku =>
                 \A q \in AfterAllocate(p, line) : Good(sku, q)
           /\ \A ref \in DOMAIN p.batches, qty \in 0 .. IntMax :
                 \A q \in AfterChange(p, ref, qty) : Good(sku, q)
BY AfterAllocateSound, AfterChangeSound DEF Good

-----------------------------------------------------------------------------
(***************************************************************************)
(* The unit of work keeps its products and its events, and a commit writes *)
(* good products, whether it returns or throws.                            *)
(***************************************************************************)

LEMMA SeeingGood ==
    ASSUME NEW w, GoodUnit(w), NEW sku \in Skus, NEW p, Good(sku, p)
    PROVE  GoodUnit(Seeing(w, sku, p))
<1> DEFINE x == Seeing(w, sku, p)
<1>1. x = [seen |-> [s \in DOMAIN w.seen \cup {sku} |->
                        IF s = sku THEN p ELSE w.seen[s]],
           newMessages |-> w.newMessages, broken |-> w.broken]
  BY DEF Seeing, GoodUnit
<1>2. IsFiniteSet(DOMAIN w.seen \cup {sku})
  BY FS_AddElement DEF GoodUnit
<1> HIDE DEF x
<1>3. /\ DOMAIN x.seen = DOMAIN w.seen \cup {sku}
      /\ \A s \in DOMAIN x.seen : x.seen[s] = IF s = sku THEN p ELSE w.seen[s]
      /\ x.seen = [s \in DOMAIN x.seen |-> x.seen[s]]
  BY <1>1
<1>4. GoodProducts(x.seen)
  BY <1>3 DEF GoodUnit, GoodProducts
<1>5. /\ x = [seen |-> x.seen, newMessages |-> x.newMessages, broken |-> x.broken]
      /\ x.newMessages = w.newMessages /\ x.broken = w.broken
  BY <1>1
<1> QED  BY <1>2, <1>3, <1>4, <1>5 DEF GoodUnit, x

\* The places of the events are finitely many.
LEMMA EventPlacesFinite ==
    ASSUME NEW w, GoodUnit(w)
    PROVE  IsFiniteSet(EventPlaces(w))
<1> DEFINE D == DOMAIN w.seen
           parts == {{sku} \X DOMAIN w.seen[sku].messages : sku \in D}
           f == [sku \in D |-> {sku} \X DOMAIN w.seen[sku].messages]
<1>1. f \in Surjection(D, parts)
  BY DEF Surjection
<1>2. IsFiniteSet(D)
  BY DEF GoodUnit
<1>3. IsFiniteSet(parts)
  <2> HIDE DEF D, f, parts
  <2> QED  BY <1>1, <1>2, FS_Surjection
<1>4. \A sku \in D : IsFiniteSet({sku} \X DOMAIN w.seen[sku].messages)
  <2> SUFFICES ASSUME NEW sku \in D
               PROVE  IsFiniteSet({sku} \X DOMAIN w.seen[sku].messages)
    OBVIOUS
  <2> DEFINE m == w.seen[sku].messages
  <2>1. m \in Seq(Event)
    BY DEF GoodUnit, GoodProducts, Good, Sound, ProductOK
  <2> HIDE DEF m
  <2>2. DOMAIN m = 1 .. Len(m) /\ Len(m) \in Nat
    BY <2>1, LenProperties
  <2>3. IsFiniteSet(DOMAIN m)
    BY <2>2, FS_Interval
  <2>4. IsFiniteSet({sku})
    BY FS_Singleton
  <2>5. IsFiniteSet({sku} \X DOMAIN m)
    BY <2>3, <2>4, FS_Product
  <2> QED  BY <2>5 DEF m
<1>5. IsFiniteSet(UNION parts)
  <2>1. \A part \in parts : IsFiniteSet(part)
    BY <1>4
  <2> HIDE DEF parts
  <2> QED  BY <1>3, <2>1, FS_UNION
<1> QED  BY <1>5 DEF EventPlaces

\* Whatever the order of the products, what is taken out of them is events.
LEMMA EventsAtType ==
    ASSUME NEW w, GoodUnit(w), NEW places \in EventOrders(w)
    PROVE  EventsAt(w, places) \in Seq(Event)
<1> DEFINE P == EventPlaces(w)
<1>1. places \in SetToSeqs(P)
  BY DEF EventOrders
<1>2. IsFiniteSet(P)
  BY EventPlacesFinite
<1> HIDE DEF P
<1>3. /\ places \in Seq(P) /\ Len(places) \in Nat
      /\ DOMAIN places = 1 .. Len(places)
  BY <1>1, <1>2, PermutationsAreSequences
<1>4. \A k \in 1 .. Len(places) :
         w.seen[places[k][1]].messages[places[k][2]] \in Event
  <2> SUFFICES ASSUME NEW k \in 1 .. Len(places)
               PROVE  w.seen[places[k][1]].messages[places[k][2]] \in Event
    OBVIOUS
  <2>1. places[k] \in P
    BY <1>3, ElementOfSeq
  <2>2. PICK sku \in DOMAIN w.seen :
           places[k] \in {sku} \X DOMAIN w.seen[sku].messages
    BY <2>1 DEF P, EventPlaces
  <2>3. places[k][1] = sku /\ places[k][2] \in DOMAIN w.seen[sku].messages
    BY <2>2
  <2>4. w.seen[sku].messages \in Seq(Event)
    BY DEF GoodUnit, GoodProducts, Good, Sound, ProductOK
  <2> QED  BY <2>3, <2>4, LenProperties, ElementOfSeq
<1>5. EventsAt(w, places) \in [1 .. Len(places) -> Event]
  BY <1>3, <1>4 DEF EventsAt
<1> QED  BY <1>3, <1>5

LEMMA CollectedGood ==
    ASSUME NEW w, GoodUnit(w), NEW u \in Collected(w)
    PROVE  /\ GoodUnit(u)
           /\ \A sku \in DOMAIN u.seen : u.seen[sku].messages = <<>>
<1>1. PICK places \in EventOrders(w) :
         u = [w EXCEPT
                !.newMessages = @ \o EventsAt(w, places),
                !.seen = [sku \in DOMAIN @ |-> [@[sku] EXCEPT !.messages = <<>>]]]
  BY DEF Collected
<1>2. EventsAt(w, places) \in Seq(Event)
  BY EventsAtType
<1>3. u = [seen |-> [sku \in DOMAIN w.seen |->
                        [w.seen[sku] EXCEPT !.messages = <<>>]],
           newMessages |-> w.newMessages \o EventsAt(w, places),
           broken |-> w.broken]
  BY <1>1 DEF GoodUnit
<1>4. /\ DOMAIN u.seen = DOMAIN w.seen
      /\ \A sku \in DOMAIN u.seen :
            u.seen[sku] = [batches |-> w.seen[sku].batches,
                           version |-> w.seen[sku].version, messages |-> <<>>]
      /\ u.seen = [sku \in DOMAIN u.seen |-> u.seen[sku]]
  BY <1>3 DEF GoodUnit, GoodProducts, Good, Sound, ProductOK
<1>5. \A sku \in DOMAIN u.seen : Good(sku, u.seen[sku]) /\ u.seen[sku].messages = <<>>
  <2> SUFFICES ASSUME NEW sku \in DOMAIN u.seen
               PROVE  Good(sku, u.seen[sku]) /\ u.seen[sku].messages = <<>>
    OBVIOUS
  <2>1. Good(sku, w.seen[sku])
    BY <1>4 DEF GoodUnit, GoodProducts
  <2>2. <<>> \in Seq(Event)
    BY EmptySeq
  <2> DEFINE q == w.seen[sku]
             x == u.seen[sku]
  <2>3. x = [batches |-> q.batches, version |-> q.version, messages |-> <<>>]
    BY <1>4
  <2>4. Good(sku, q)
    BY <2>1
  <2> HIDE DEF q, x
  <2>5. /\ x.batches = q.batches /\ x.version = q.version /\ x.messages = <<>>
        /\ x = [batches |-> x.batches, version |-> x.version,
                messages |-> x.messages]
    BY <2>3
  <2>6. Good(sku, x)
    BY <2>2, <2>4, <2>5 DEF Good, Sound, ProductOK
  <2> QED  BY <2>5, <2>6 DEF x
<1>6. u.newMessages \in Seq(Event)
  BY <1>2, <1>3, ConcatProperties DEF GoodUnit
<1>7. u = [seen |-> u.seen, newMessages |-> u.newMessages, broken |-> u.broken]
      /\ u.broken \in BOOLEAN
  BY <1>3 DEF GoodUnit
<1> QED  BY <1>4, <1>5, <1>6, <1>7 DEF GoodUnit, GoodProducts

LEMMA WrittenGood ==
    ASSUME NEW s, GoodStore(s), NEW u, GoodUnit(u),
           \A sku \in DOMAIN u.seen : u.seen[sku].messages = <<>>
    PROVE  GoodStore(Written(s, u))
<1> DEFINE w == Written(s, u)
<1>1. /\ DOMAIN w = DOMAIN s \cup DOMAIN u.seen
      /\ \A sku \in DOMAIN w :
            w[sku] = IF sku \in DOMAIN u.seen THEN u.seen[sku] ELSE s[sku]
      /\ w = [sku \in DOMAIN w |-> w[sku]]
  BY DEF Written
<1> HIDE DEF w
<1> QED  BY <1>1 DEF GoodStore, GoodUnit, GoodProducts, w

LEMMA UnitFields ==
    ASSUME NEW seen, GoodProducts(seen), IsFiniteSet(DOMAIN seen),
           NEW messages \in Seq(Event), NEW broken \in BOOLEAN
    PROVE  GoodUnit([seen |-> seen, newMessages |-> messages, broken |-> broken])
<1> DEFINE w == [seen |-> seen, newMessages |-> messages, broken |-> broken]
<1>1. w.seen = seen
  OBVIOUS
<1>2. w.newMessages = messages
  OBVIOUS
<1>3. w.broken = broken
  OBVIOUS
<1>4. w = [seen |-> w.seen, newMessages |-> w.newMessages, broken |-> w.broken]
  BY <1>1, <1>2, <1>3
<1> HIDE DEF w
<1>5. GoodUnit(w)
  BY <1>1, <1>2, <1>3, <1>4 DEF GoodUnit
<1> QED  BY <1>5 DEF w

\* A unit of work that sees nothing, and one whose transaction is finished.
LEMMA UnitVariantsGood ==
    ASSUME NEW u, GoodUnit(u)
    PROVE  /\ GoodUnit([u EXCEPT !.seen = <<>>])
           /\ GoodUnit([u EXCEPT !.broken = TRUE])
           /\ GoodUnit([u EXCEPT !.newMessages = <<>>])
<1>1. u = [seen |-> u.seen, newMessages |-> u.newMessages, broken |-> u.broken]
  BY DEF GoodUnit
<1>2. /\ GoodProducts(u.seen) /\ IsFiniteSet(DOMAIN u.seen)
      /\ u.newMessages \in Seq(Event) /\ u.broken \in BOOLEAN
  BY DEF GoodUnit
<1>3. GoodProducts(<<>>) /\ IsFiniteSet(DOMAIN <<>>)
  BY EmptyMap, FS_EmptySet DEF GoodProducts
<1>4. <<>> \in Seq(Event)
  BY EmptySeq
<1>5. GoodUnit([u EXCEPT !.seen = <<>>])
  <2>1. [u EXCEPT !.seen = <<>>]
           = [seen |-> <<>>, newMessages |-> u.newMessages, broken |-> u.broken]
    BY <1>1
  <2> QED  BY <1>2, <1>3, <2>1, UnitFields
<1>6. GoodUnit([u EXCEPT !.broken = TRUE])
  <2>1. \A b : [u EXCEPT !.broken = b]
                  = [seen |-> u.seen, newMessages |-> u.newMessages, broken |-> b]
    BY <1>1
  <2>2. [u EXCEPT !.broken = TRUE]
           = [seen |-> u.seen, newMessages |-> u.newMessages, broken |-> TRUE]
    BY <2>1, Zenon
  <2> QED  BY <1>2, <2>2, UnitFields, Zenon
<1>7. GoodUnit([u EXCEPT !.newMessages = <<>>])
  <2>1. [u EXCEPT !.newMessages = <<>>]
           = [seen |-> u.seen, newMessages |-> <<>>, broken |-> u.broken]
    BY <1>1
  <2>2. \A m \in Seq(Event) :
           GoodUnit([seen |-> u.seen, newMessages |-> m, broken |-> u.broken])
    BY <1>2, UnitFields
  <2>3. GoodUnit([seen |-> u.seen, newMessages |-> <<>>, broken |-> u.broken])
    BY <1>4, <2>2
  <2> QED  BY <2>1, <2>3
<1> QED  BY <1>5, <1>6, <1>7

LEMMA ResultGood ==
    ASSUME NEW s, GoodStore(s), NEW w, GoodUnit(w)
    PROVE  GoodResult(Returned(s, w)) /\ GoodResult(Threw(s, w))
<1>1. GoodResult(Returned(s, w))
  <2>1. Returned(s, w).store = s
    BY DEF Returned
  <2>2. Returned(s, w).uow = w
    BY DEF Returned
  <2>3. Returned(s, w).threw = FALSE
    BY DEF Returned
  <2> QED  BY <2>1, <2>2, <2>3 DEF GoodResult
<1>2. GoodResult(Threw(s, w))
  <2>1. Threw(s, w).store = s
    BY DEF Threw
  <2>2. Threw(s, w).uow = w
    BY DEF Threw
  <2>3. Threw(s, w).threw = TRUE
    BY DEF Threw
  <2> QED  BY <2>1, <2>2, <2>3 DEF GoodResult
<1> QED  BY <1>1, <1>2

LEMMA CommitGood ==
    ASSUME NEW s, GoodStore(s), NEW w, GoodUnit(w), NEW r \in Commit(s, w)
    PROVE  GoodResult(r)
<1>1. PICK u \in Collected(w) :
         \/ r = Returned(Written(s, u), [u EXCEPT !.seen = <<>>])
         \/ r = Threw(s, [u EXCEPT !.broken = TRUE])
         \/ r = Threw(Written(s, u), [u EXCEPT !.broken = TRUE])
  BY DEF Commit
<1>2. /\ GoodUnit(u)
      /\ \A sku \in DOMAIN u.seen : u.seen[sku].messages = <<>>
  BY CollectedGood
<1>3. GoodStore(Written(s, u))
  BY <1>2, WrittenGood
<1>4. GoodUnit([u EXCEPT !.seen = <<>>]) /\ GoodUnit([u EXCEPT !.broken = TRUE])
  BY <1>2, UnitVariantsGood
<1> QED  BY <1>1, <1>3, <1>4, ResultGood

-----------------------------------------------------------------------------
(***************************************************************************)
(* Every handler, whatever it comes to, leaves a good store and unit of    *)
(* work.                                                                   *)
(***************************************************************************)
LEMMA GetGood ==
    ASSUME NEW s, GoodStore(s), NEW w, GoodUnit(w), NEW sku,
           Known(s, w, sku)
    PROVE  sku \in Skus /\ Good(sku, Get(s, w, sku))
BY DEF Known, Get, GoodStore, GoodUnit, GoodProducts

LEMMA HandleCreateBatchGood ==
    ASSUME NEW s, GoodStore(s), NEW w, GoodUnit(w),
           NEW b \in BatchType, b.allocations = {}, b.purchased <= IntMax,
           NEW r \in HandleCreateBatch(s, w, b)
    PROVE  GoodResult(r)
<1> DEFINE p == IF Known(s, w, b.sku) THEN Get(s, w, b.sku) ELSE NewProduct
<1>1. b.sku \in Skus
  BY DEF BatchType
<1>2. Sound(b.sku, p)
  BY GetGood, NewProductSound DEF Good
<1>3. CASE Admissible(p.batches, b.sku, b)
  <2>1. r \in Commit(s, Seeing(w, b.sku, WithBatch(p, b)))
    BY <1>3 DEF HandleCreateBatch
  <2> HIDE DEF p
  <2>2. Good(b.sku, WithBatch(p, b))
    BY <1>2, WithBatchSound DEF Good
  <2>3. GoodUnit(Seeing(w, b.sku, WithBatch(p, b)))
    BY <1>1, <2>2, SeeingGood
  <2> QED  BY <2>1, <2>3, CommitGood
<1>4. CASE ~Admissible(p.batches, b.sku, b)
  <2>1. r = Threw(s, Seeing(w, b.sku, p))
    BY <1>4 DEF HandleCreateBatch
  <2> HIDE DEF p
  <2>2. Good(b.sku, p)
    BY <1>2, <1>4 DEF Good, Admissible
  <2>3. GoodUnit(Seeing(w, b.sku, p))
    BY <1>1, <2>2, SeeingGood
  <2> QED  BY <2>1, <2>3, ResultGood
<1> QED  BY <1>3, <1>4

LEMMA HandleAllocateGood ==
    ASSUME NEW s, GoodStore(s), NEW w, GoodUnit(w), NEW line \in OrderLine,
           NEW r \in HandleAllocate(s, w, line)
    PROVE  GoodResult(r)
<1>1. CASE \/ ~Known(s, w, line.sku)
           \/ w.broken /\ line.sku \notin DOMAIN w.seen
  <2>1. r = Threw(s, w)
    BY <1>1 DEF HandleAllocate
  <2> QED  BY <2>1, ResultGood
<1>2. CASE ~(\/ ~Known(s, w, line.sku)
             \/ w.broken /\ line.sku \notin DOMAIN w.seen)
  <2> DEFINE p == Get(s, w, line.sku)
  <2>1. line.sku \in Skus /\ Good(line.sku, p)
    BY <1>2, GetGood
  <2>2. DOMAIN p.batches # {}
    BY <2>1 DEF Good
  <2>3. PICK q \in AfterAllocate(p, line) :
           r \in Commit(s, Seeing(w, line.sku, q))
    BY <1>2, <2>2 DEF HandleAllocate
  <2> HIDE DEF p
  <2>4. Good(line.sku, q)
    BY <2>1, MethodsGood
  <2>5. GoodUnit(Seeing(w, line.sku, q))
    BY <2>1, <2>4, SeeingGood
  <2> QED  BY <2>3, <2>5, CommitGood
<1> QED  BY <1>1, <1>2

LEMMA NewUnitOfWorkGood == GoodUnit(NewUnitOfWork)
<1>1. GoodProducts(<<>>) /\ IsFiniteSet(DOMAIN <<>>)
  BY EmptyMap, FS_EmptySet DEF GoodProducts
<1>2. \A m \in Seq(Event), b \in BOOLEAN :
         GoodUnit([seen |-> <<>>, newMessages |-> m, broken |-> b])
  BY <1>1, UnitFields
<1>3. <<>> \in Seq(Event)
  BY EmptySeq
<1>4. \A b \in BOOLEAN :
         GoodUnit([seen |-> <<>>, newMessages |-> <<>>, broken |-> b])
  BY <1>2, <1>3
<1> QED  BY <1>4, Zenon DEF NewUnitOfWork

\* The first command of a unit of work finds its product in the store.
LEMMA HandleChangeBatchQuantityGood ==
    ASSUME NEW s, GoodStore(s), NEW ref, NEW qty \in 0 .. IntMax,
           NEW r \in HandleChangeBatchQuantity(s, NewUnitOfWork, ref, qty)
    PROVE  GoodResult(r)
<1> DEFINE w == NewUnitOfWork
<1>1. GoodUnit(w)
  BY NewUnitOfWorkGood
<1>2. DOMAIN w.seen = {}
  BY EmptyMap DEF NewUnitOfWork
<1>3. ByBatchRef(s, w, ref) = Owners(s, ref)
  BY <1>2 DEF ByBatchRef, Owners
<1>4. CASE Owners(s, ref) = {}
  <2>1. r = Threw(s, w)
    BY <1>3, <1>4 DEF HandleChangeBatchQuantity
  <2> QED  BY <1>1, <2>1, ResultGood
<1>5. CASE Owners(s, ref) # {}
  <2>1. PICK sku \in Owners(s, ref) :
           \E q \in AfterChange(Get(s, w, sku), ref, qty) :
              r \in Commit(s, Seeing(w, sku, q))
    BY <1>3, <1>5 DEF HandleChangeBatchQuantity
  <2>2. Get(s, w, sku) = s[sku]
    BY <1>2 DEF Get
  <2> HIDE DEF w
  <2>3. PICK q \in AfterChange(s[sku], ref, qty) :
           r \in Commit(s, Seeing(w, sku, q))
    BY <2>1, <2>2
  <2>4. /\ sku \in Skus /\ Good(sku, s[sku])
        /\ ref \in DOMAIN s[sku].batches
    BY DEF Owners, GoodStore, GoodProducts
  <2>5. Good(sku, q)
    BY <2>4, MethodsGood
  <2>6. GoodUnit(Seeing(w, sku, q))
    BY <1>1, <2>4, <2>5, SeeingGood
  <2> QED  BY <1>1, <2>3, <2>6, CommitGood
<1> QED  BY <1>4, <1>5

\* Whatever handler the bus has for a command, or none.
LEMMA CalledGood ==
    ASSUME GoodStore(store), uow = NewUnitOfWork, NEW command \in Command,
           NEW r \in Called(command)
    PROVE  GoodResult(r)
<1>1. GoodUnit(uow)
  BY NewUnitOfWorkGood
<1>2. CASE command.type \notin DOMAIN Bus.commands
  <2>1. r = Threw(store, uow)
    BY <1>2 DEF Called
  <2> QED  BY <1>1, <2>1, ResultGood
<1>3. CASE command.type \in DOMAIN Bus.commands
  <2> DEFINE handler == Bus.commands[command.type]
  <2>1. handler \in CommandHandlerFor(command.type)
    BY <1>3, ServiceAssumption
  <2>2. r \in HandleCommand(store, uow, handler, command)
    BY <1>3 DEF Called
  <2> HIDE DEF handler
  <2>3. CASE command.type = "CreateBatch"
    <3>1. handler = "AddBatch"
      BY <2>1, <2>3 DEF CommandHandlerFor
    <3>2. /\ command.batch \in BatchType /\ command.batch.allocations = {}
          /\ command.batch.purchased <= IntMax
      BY <2>3 DEF Command
    <3>3. r \in HandleCreateBatch(store, uow, command.batch)
      BY <2>2, <3>1 DEF HandleCommand
    <3> QED  BY <1>1, <3>2, <3>3, HandleCreateBatchGood
  <2>4. CASE command.type = "Allocate"
    <3>1. handler = "Allocate"
      BY <2>1, <2>4 DEF CommandHandlerFor
    <3>2. command.line \in OrderLine
      BY <2>4 DEF Command
    <3>3. r \in HandleAllocate(store, uow, command.line)
      BY <2>2, <3>1 DEF HandleCommand
    <3> QED  BY <1>1, <3>2, <3>3, HandleAllocateGood
  <2>5. CASE command.type = "ChangeBatchQuantity"
    <3>1. handler = "ChangeBatchQuantity"
      BY <2>1, <2>5 DEF CommandHandlerFor
    <3>2. command.qty \in 0 .. IntMax
      BY <2>5 DEF Command
    <3>3. r \in HandleChangeBatchQuantity(store, uow, command.ref, command.qty)
      BY <2>2, <3>1 DEF HandleCommand
    <3> QED  BY <3>2, <3>3, HandleChangeBatchQuantityGood
  <2> QED  BY <2>3, <2>4, <2>5 DEF Command
<1> QED  BY <1>2, <1>3

-----------------------------------------------------------------------------
\* The types of what a step of the bus passes on and records.

LEMMA RefusalsType ==
    ASSUME NEW m \in Seq(Event), NEW sku
    PROVE  Refusals(m, sku) \in Nat
<1> DEFINE R == {i \in DOMAIN m : m[i].type = "OutOfStock" /\ m[i].sku = sku}
<1>1. DOMAIN m = 1 .. Len(m) /\ Len(m) \in Nat
  BY LenProperties
<1>2. IsFiniteSet(DOMAIN m)
  BY <1>1, FS_Interval
<1>3. R \subseteq DOMAIN m
  OBVIOUS
<1> HIDE DEF R
<1>4. Cardinality(R) \in Nat
  BY <1>2, <1>3, FS_Subset, FS_CardinalityType
<1> QED  BY <1>4 DEF R, Refusals

LEMMA RecordType ==
    ASSUME NEW before, before.newMessages \in Seq(Event),
           NEW after, after.newMessages \in Seq(Event),
           HistoryOK, Record(before, after)
    PROVE  refused' \in [Skus -> Nat]
<1> DEFINE m == Len(before.newMessages) + 1
           n == Len(after.newMessages)
<1>1. m \in Nat /\ m >= 1 /\ n \in Nat
  BY LenProperties
<1>2. \A i \in m .. n : after.newMessages[i] \in Event
  BY <1>1, ElementOfSeq
<1>3. Raised(before, after) = SubSeq(after.newMessages, m, n)
  BY DEF Raised
<1> HIDE DEF m, n
<1>4. Raised(before, after) \in Seq(Event)
  BY <1>1, <1>2, <1>3, SubSeqProperties
<1>5. \A sku : Refusals(Raised(before, after), sku) \in Nat
  BY <1>4, RefusalsType
<1> QED  BY <1>5 DEF HistoryOK, Record

LEMMA PlacedType ==
    ASSUME NEW m \in Seq(Event)
    PROVE  Placed(m) \subseteq OrderLine
<1>1. \A e \in ToSet(m) : e \in Event
  BY LenProperties, ElementOfSeq DEF ToSet
<1>2. \A e \in Event : e.type = "Allocated" => e.line \in OrderLine
  BY DEF Event
<1> QED  BY <1>1, <1>2 DEF Placed

LEMMA WithoutMessagesGood ==
    ASSUME NEW w, GoodUnit(w)
    PROVE  GoodUnit(WithoutMessages(w))
BY UnitVariantsGood DEF WithoutMessages

LEMMA DeliveringOK ==
    ASSUME NEW e \in Event, NEW left \in Seq(EventHandlerFor(e.type))
    PROVE  DeliveryOK(Delivering(e, left))
<1>1. CASE left = <<>>
  BY <1>1 DEF Delivering, DeliveryOK
<1>2. CASE left # <<>>
  <2> DEFINE d == [event |-> e, left |-> left]
  <2>1. Delivering(e, left) = d
    BY <1>2 DEF Delivering
  <2>2. d = [event |-> d.event, left |-> d.left] /\ d.event = e /\ d.left = left
    OBVIOUS
  <2> HIDE DEF d
  <2> QED  BY <1>2, <2>1, <2>2 DEF DeliveryOK
<1> QED  BY <1>1, <1>2

LEMMA SubscribersType ==
    ASSUME NEW e \in Event
    PROVE  SubscribersOf(Bus, e.type) \in Seq(EventHandlerFor(e.type))
BY ServiceAssumption, EmptySeq DEF SubscribersOf

LEMMA MakeCommandType ==
    ASSUME NEW dto \in Dtos, NEW command \in MakeCommand(dto)
    PROVE  command \in Command
<1>1. dto \in Command
  BY ServiceAssumption
<1>2. CASE dto.type = "CreateBatch" /\ dto.batch.eta = NoEta
  <2>1. PICK eta \in UnsetEtas :
           command = CreateBatch([dto.batch EXCEPT !.eta = eta])
    BY <1>2 DEF MakeCommand
  <2> DEFINE b == [dto.batch EXCEPT !.eta = eta]
  <2>2. /\ dto.batch \in BatchType /\ dto.batch.allocations = {}
        /\ dto.batch.purchased <= IntMax
    BY <1>1, <1>2 DEF Command
  <2>3. eta \in Nat
    BY ServiceAssumption
  <2>4. b \in BatchType /\ b.allocations = {} /\ b.purchased <= IntMax
    BY <2>2, <2>3 DEF BatchType
  <2> HIDE DEF b
  <2>5. CreateBatch(b) \in Command
    BY <2>4 DEF CreateBatch, Command
  <2> QED  BY <2>1, <2>5 DEF b
<1>3. CASE ~(dto.type = "CreateBatch" /\ dto.batch.eta = NoEta)
  BY <1>1, <1>3 DEF MakeCommand
<1> QED  BY <1>2, <1>3

-----------------------------------------------------------------------------
(***************************************************************************)
(* The invariant holds at the start and is kept by every step.             *)
(***************************************************************************)
LEMMA InitGood == Init => IInv
<1> SUFFICES ASSUME Init PROVE IInv
  OBVIOUS
<1>1. GoodStore(store)
  BY EmptyMap DEF Init, GoodStore, GoodProducts
<1>2. GoodUnit(uow)
  BY NewUnitOfWorkGood DEF Init
<1>3. QueueOK
  BY EmptySeq DEF Init, QueueOK
<1>4. DeliveryOK(delivery)
  BY DEF Init, DeliveryOK
<1>5. HistoryOK
  BY DEF Init, HistoryOK
<1>6. RequestOK
  <2>1. served \in 0 .. MaxRequests
    BY ServiceAssumption DEF Init
  <2>2. serving \in BOOLEAN /\ reply \in {"none", "ok", "error"}
    BY DEF Init
  <2>3. queue = <<>> /\ delivery = NoDelivery
    BY DEF Init
  <2> QED  BY <2>1, <2>2, <2>3 DEF RequestOK
<1> QED  BY <1>1, <1>2, <1>3, <1>4, <1>5, <1>6 DEF IInv

LEMMA RequestGood ==
    ASSUME IInv, NEW command \in Command, Request(command)
    PROVE  IInv'
<1>1. GoodStore(store') /\ HistoryOK' /\ DeliveryOK(delivery')
  BY DEF IInv, Request, HistoryOK
<1>2. GoodUnit(uow')
  BY NewUnitOfWorkGood DEF Request
<1>3. QueueOK'
  BY DEF IInv, RequestOK, Request, QueueOK
<1>4. RequestOK'
  BY ServiceAssumption DEF IInv, RequestOK, Request
<1> QED  BY <1>1, <1>2, <1>3, <1>4 DEF IInv

LEMMA EventIsNoCommand ==
    /\ \A e \in Event : IsEvent(e)
    /\ \A c \in Command : ~IsEvent(c)
BY DEF IsEvent, Event, Command, EventType

LEMMA BusHandlesCommandGood ==
    ASSUME IInv, BusHandlesCommand
    PROVE  IInv'
<1>1. PICK command \in Command : queue = <<command>> /\ uow = NewUnitOfWork
                                  /\ delivery = NoDelivery
  <2>1. queue \notin Seq(Event)
    BY EventIsNoCommand, HeadTailProperties DEF BusHandlesCommand
  <2> QED  BY <2>1 DEF IInv, QueueOK
<1>2. Head(queue) = command /\ Tail(queue) = <<>>
  BY <1>1
<1>3. PICK r \in Called(command) :
         /\ store' = r.store
         /\ IF r.threw
            THEN /\ queue' = <<>>
                 /\ uow' = NewUnitOfWork
                 /\ serving' = FALSE
                 /\ reply' = "error"
                 /\ UNCHANGED <<refused, accepted>>
            ELSE /\ queue' = Tail(queue) \o r.uow.newMessages
                 /\ uow' = WithoutMessages(r.uow)
                 /\ Record(uow, r.uow)
                 /\ accepted' = accepted \cup Placed(r.uow.newMessages)
                 /\ UNCHANGED <<serving, reply>>
  BY <1>2 DEF BusHandlesCommand
<1>4. GoodResult(r)
  BY <1>1, CalledGood DEF IInv
<1>5. /\ r.uow.newMessages \in Seq(Event)
      /\ uow.newMessages \in Seq(Event)
  BY <1>4 DEF IInv, GoodResult, GoodUnit
<1>6. UNCHANGED <<view, emails, delivery, served>>
  BY DEF BusHandlesCommand
<1>7. GoodStore(store')
  BY <1>3, <1>4 DEF GoodResult
<1>8. GoodUnit(uow')
  BY <1>3, <1>4, NewUnitOfWorkGood, WithoutMessagesGood DEF GoodResult
<1>9. queue' \in Seq(Event)
  <2>1. CASE r.threw
    BY <1>3, <2>1, EmptySeq
  <2>2. CASE ~r.threw
    <3>1. queue' = <<>> \o r.uow.newMessages
      BY <1>2, <1>3, <2>2
    <3>2. queue' = r.uow.newMessages
      BY <1>5, <3>1, ConcatEmptySeq
    <3> QED  BY <1>5, <3>2
  <2> QED  BY <2>1, <2>2
<1>10. HistoryOK'
  BY <1>3, <1>5, <1>6, RecordType, PlacedType DEF IInv, HistoryOK
<1>11. RequestOK'
  BY <1>1, <1>3, <1>6 DEF IInv, RequestOK
<1>12. DeliveryOK(delivery')
  BY <1>6 DEF IInv
<1> QED  BY <1>7, <1>8, <1>9, <1>10, <1>11, <1>12 DEF IInv, QueueOK

LEMMA BusTakesEventGood ==
    ASSUME IInv, BusTakesEvent
    PROVE  IInv'
<1>1. queue \in Seq(Event)
  BY EventIsNoCommand DEF IInv, QueueOK, BusTakesEvent
<1>2. Head(queue) \in Event /\ Tail(queue) \in Seq(Event)
  BY <1>1, HeadTailProperties DEF BusTakesEvent
<1>3. DeliveryOK(delivery')
  BY <1>2, SubscribersType, DeliveringOK DEF BusTakesEvent
<1>4. QueueOK'
  BY <1>2 DEF BusTakesEvent, QueueOK
<1>5. GoodStore(store') /\ GoodUnit(uow') /\ HistoryOK'
  BY DEF IInv, BusTakesEvent, HistoryOK
<1>6. RequestOK'
  BY DEF IInv, BusTakesEvent, RequestOK
<1> QED  BY <1>3, <1>4, <1>5, <1>6 DEF IInv

\* What the steps of the subscribers have in common.
LEMMA SubscriberGood ==
    ASSUME IInv, delivery # NoDelivery,
           NEW after, GoodUnit(after), Returns(after) \/ Throws(after),
           GoodStore(store'), HistoryOK', UNCHANGED <<serving, reply, served>>
    PROVE  IInv'
<1>1. queue \in Seq(Event) /\ serving
  BY DEF IInv, QueueOK, RequestOK
<1>2. /\ delivery.event \in Event
      /\ delivery.left \in Seq(EventHandlerFor(delivery.event.type))
      /\ delivery.left # <<>>
  BY DEF IInv, DeliveryOK
<1>3. Tail(delivery.left) \in Seq(EventHandlerFor(delivery.event.type))
  BY <1>2, HeadTailProperties
<1>4. DeliveryOK(delivery')
  BY <1>2, <1>3, DeliveringOK DEF Returns, Throws
<1>5. after.newMessages \in Seq(Event)
  BY DEF GoodUnit
<1>6. queue' \in Seq(Event)
  BY <1>1, <1>5, ConcatProperties DEF Returns, Throws
<1>7. GoodUnit(uow')
  BY WithoutMessagesGood DEF Returns, Throws
<1>8. RequestOK'
  BY <1>1 DEF IInv, RequestOK
<1> QED  BY <1>4, <1>6, <1>7, <1>8 DEF IInv, QueueOK

LEMMA ReadModelGood ==
    ASSUME IInv, AddAllocationToReadModel \/ RemoveAllocationFromReadModel
    PROVE  IInv'
<1>1. delivery # NoDelivery /\ (Returns(uow) \/ Throws(uow))
  BY DEF AddAllocationToReadModel, RemoveAllocationFromReadModel, Due
<1>2. UNCHANGED <<store, emails, serving, reply, served, refused, accepted>>
  BY DEF AddAllocationToReadModel, RemoveAllocationFromReadModel
<1>3. GoodStore(store') /\ HistoryOK' /\ GoodUnit(uow)
  BY <1>2 DEF IInv, HistoryOK
<1> QED  BY <1>1, <1>2, <1>3, SubscriberGood

LEMMA SendOutOfStockNotificationGood ==
    ASSUME IInv, SendOutOfStockNotification
    PROVE  IInv'
<1>1. delivery # NoDelivery /\ Returns(uow)
  BY DEF SendOutOfStockNotification, Due
<1>2. UNCHANGED <<store, view, serving, reply, served, refused, accepted>>
  BY DEF SendOutOfStockNotification
<1>3. emails' \in [Skus -> Nat]
  <2> DEFINE sku == delivery.event.sku
  <2>1. emails' = [emails EXCEPT ![sku] = emails[sku] + 1]
    BY DEF SendOutOfStockNotification
  <2>2. emails \in [Skus -> Nat]
    BY DEF IInv, HistoryOK
  <2> HIDE DEF sku
  <2>3. \A s \in Skus : emails'[s] \in Nat
    BY <2>1, <2>2
  <2> QED  BY <2>1, <2>2, <2>3
<1>4. GoodStore(store') /\ HistoryOK' /\ GoodUnit(uow)
  BY <1>2, <1>3 DEF IInv, HistoryOK
<1> QED  BY <1>1, <1>2, <1>4, SubscriberGood

LEMMA ReallocateGood ==
    ASSUME IInv, Reallocate
    PROVE  IInv'
<1>1. delivery # NoDelivery /\ Head(delivery.left) = "Reallocate"
  BY DEF Reallocate, Due
<1>2. /\ delivery.event \in Event
      /\ "Reallocate" \in EventHandlerFor(delivery.event.type)
  BY <1>1, HeadTailProperties DEF IInv, DeliveryOK
<1>3. delivery.event.line \in OrderLine
  BY <1>2 DEF Event, EventHandlerFor
<1>4. PICK r \in HandleAllocate(store, uow, delivery.event.line) :
         /\ store' = r.store
         /\ IF r.threw THEN Throws(r.uow) ELSE Returns(r.uow)
         /\ Record(uow, r.uow)
  BY DEF Reallocate
<1>5. GoodResult(r)
  BY <1>3, HandleAllocateGood DEF IInv
<1>6. UNCHANGED <<view, emails, serving, reply, served, accepted>>
  BY DEF Reallocate
<1>7. refused' \in [Skus -> Nat]
  BY <1>4, <1>5, RecordType DEF IInv, GoodResult, GoodUnit
<1>8. HistoryOK'
  BY <1>6, <1>7 DEF IInv, HistoryOK
<1>9. GoodStore(store') /\ GoodUnit(r.uow)
  BY <1>4, <1>5 DEF GoodResult
<1> QED  BY <1>1, <1>4, <1>6, <1>8, <1>9, SubscriberGood

LEMMA FinishRequestGood ==
    ASSUME IInv, FinishRequest
    PROVE  IInv'
<1>1. GoodStore(store') /\ HistoryOK' /\ DeliveryOK(delivery')
  BY DEF IInv, FinishRequest, HistoryOK
<1>2. GoodUnit(uow')
  BY NewUnitOfWorkGood DEF FinishRequest
<1>3. QueueOK'
  BY EmptySeq DEF FinishRequest, QueueOK
<1>4. RequestOK'
  BY DEF IInv, RequestOK, FinishRequest
<1> QED  BY <1>1, <1>2, <1>3, <1>4 DEF IInv

LEMMA StepGood == IInv /\ [Next]_vars => IInv'
<1> SUFFICES ASSUME IInv, [Next]_vars PROVE IInv'
  OBVIOUS
<1>1. CASE \E command \in Commands : Request(command)
  <2>1. PICK command \in Commands : Request(command)
    BY <1>1
  <2>2. command \in Command
    BY ServiceAssumption
  <2> QED  BY <2>1, <2>2, RequestGood
<1>2. CASE \E dto \in Dtos : \E command \in MakeCommand(dto) : Request(command)
  BY <1>2, MakeCommandType, RequestGood
<1>3. CASE BusHandlesCommand
  BY <1>3, BusHandlesCommandGood
<1>4. CASE BusTakesEvent
  BY <1>4, BusTakesEventGood
<1>5. CASE AddAllocationToReadModel \/ RemoveAllocationFromReadModel
  BY <1>5, ReadModelGood
<1>6. CASE SendOutOfStockNotification
  BY <1>6, SendOutOfStockNotificationGood
<1>7. CASE Reallocate
  BY <1>7, ReallocateGood
<1>8. CASE FinishRequest
  BY <1>8, FinishRequestGood
<1>9. CASE UNCHANGED vars
  BY <1>9 DEF vars, IInv, QueueOK, HistoryOK, RequestOK
<1> QED
  BY <1>1, <1>2, <1>3, <1>4, <1>5, <1>6, <1>7, <1>8, <1>9 DEF Next, BusStep

LEMMA IInvHolds == Spec => []IInv
<1> QED  BY InitGood, StepGood, PTL DEF Spec

LEMMA IInvImpliesTypeOK == IInv => TypeOK
<1> SUFFICES ASSUME IInv PROVE TypeOK
  OBVIOUS
<1>1. /\ ProductsOK(store)
      /\ \A sku \in DOMAIN store : /\ store[sku].messages = <<>>
                                   /\ DOMAIN store[sku].batches # {}
  BY DEF IInv, GoodStore, GoodProducts, Good, Sound, ProductsOK
<1>2. UnitOfWorkOK(uow)
  BY DEF IInv, GoodUnit, GoodProducts, Good, Sound, ProductsOK, UnitOfWorkOK
<1>3. queue \in Seq(Event \cup Command)
  <2>1. CASE queue \in Seq(Event)
    BY <2>1, SeqMonotonic
  <2>2. CASE \E c \in Command : queue = <<c>>
    BY <2>2
  <2> QED  BY <2>1, <2>2 DEF IInv, QueueOK
<1> QED  BY <1>1, <1>2, <1>3
         DEF IInv, DeliveryOK, HistoryOK, RequestOK, TypeOK

(***************************************************************************)
(* The types: no event stays behind in a stored product, every batch and   *)
(* line is under its own SKU, and only subscribers that take an event are  *)
(* passed it, for every wiring of the bus.                                 *)
(***************************************************************************)
THEOREM ServiceTypeCorrect == Spec => []TypeOK
<1> QED  BY IInvHolds, IInvImpliesTypeOK, PTL

(***************************************************************************)
(* No stored batch holds more than was purchased, whatever chain of        *)
(* commands, reductions and reallocations led to it and whichever of their *)
(* commits failed.                                                         *)
(***************************************************************************)
THEOREM StoreStaysSound == Spec => []StoreSound
<1>1. IInv => StoreSound
  BY DEF IInv, GoodStore, GoodProducts, Good, Sound, BatchSound, StoreSound
<1> QED  BY <1>1, IInvHolds, PTL
=============================================================================
