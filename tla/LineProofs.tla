------------------------------ MODULE LineProofs ------------------------------
(***************************************************************************)
(* Theorems about what becomes of the order lines of AllocationService: a  *)
(* line a client was told is allocated is held or its SKU was notified,    *)
(* and between requests the read model shows nothing that is not so, for   *)
(* every set of commands, every width of the integers and every wiring of  *)
(* the bus that has the subscribers concerned.                             *)
(***************************************************************************)
EXTENDS NotificationProofs

HoldsIn(s, line, ref) ==
    /\ line.sku \in DOMAIN s
    /\ ref \in DOMAIN s[line.sku].batches
    /\ line \in s[line.sku].batches[ref].allocations

(***************************************************************************)
(* From store s to store t, with the set of events raised: no product      *)
(* goes, a line that leaves a batch is reported, and so is one that joins. *)
(***************************************************************************)
Reported(s, t, events) ==
    /\ DOMAIN s \subseteq DOMAIN t
    /\ \A line, ref :
         HoldsIn(s, line, ref) =>
            HoldsIn(t, line, ref) \/ Deallocated(line) \in events
    /\ \A line, ref :
         Allocated(line, ref) \in events => HoldsIn(t, line, ref)

\* The same for the product of one SKU.
ProductReported(p, q, events) ==
    /\ DOMAIN p.batches \subseteq DOMAIN q.batches
    /\ \A ref \in DOMAIN p.batches : \A line \in p.batches[ref].allocations :
          line \in q.batches[ref].allocations \/ Deallocated(line) \in events
    /\ \A line, ref :
          Allocated(line, ref) \in events =>
             ref \in DOMAIN q.batches /\ line \in q.batches[ref].allocations

-----------------------------------------------------------------------------
(***************************************************************************)
(* The events of a commit are those of the product it writes.              *)
(***************************************************************************)

\* An ordering of a finite set reaches every element of it.
LEMMA PermutationsReachAll ==
    ASSUME NEW S, IsFiniteSet(S), NEW s \in SetToSeqs(S), NEW x \in S
    PROVE  \E i \in DOMAIN s : s[i] = x
<1> DEFINE D == 1 .. Cardinality(S)
<1>1. Cardinality(S) \in Nat
  BY FS_CardinalityType
<1>2. s \in [D -> S] /\ \A i, j \in D : i # j => s[i] # s[j]
  BY DEF SetToSeqs
<1>3. IsFiniteSet(D) /\ Cardinality(D) = Cardinality(S)
  BY <1>1, FS_Interval
<1> HIDE DEF D
<1>4. s \in Injection(D, S)
  BY <1>2 DEF Injection, IsInjective
<1>5. s \in Surjection(D, S)
  BY <1>3, <1>4, FS_Injection
<1> QED  BY <1>2, <1>5 DEF Surjection

\* What is collected of a product is what it recorded.
LEMMA CollectedEvents ==
    ASSUME NEW sku \in Skus, NEW q, Good(sku, q), NEW w, GoodUnit(w),
           DOMAIN w.seen = {sku}, w.seen[sku] = q,
           NEW places \in EventOrders(w)
    PROVE  ToSet(EventsAt(w, places)) = ToSet(q.messages)
<1>1. EventPlaces(w) = {sku} \X DOMAIN q.messages
  BY DEF EventPlaces
<1>2. places \in SetToSeqs(EventPlaces(w)) /\ IsFiniteSet(EventPlaces(w))
  BY EventPlacesFinite DEF EventOrders
<1>3. /\ places \in Seq(EventPlaces(w))
      /\ DOMAIN places = 1 .. Len(places) /\ Len(places) \in Nat
  BY <1>2, PermutationsAreSequences
<1>4. DOMAIN EventsAt(w, places) = DOMAIN places
  BY DEF EventsAt
<1>5. \A k \in DOMAIN places :
         /\ places[k][1] = sku
         /\ places[k][2] \in DOMAIN q.messages
         /\ EventsAt(w, places)[k] = q.messages[places[k][2]]
  <2> SUFFICES ASSUME NEW k \in DOMAIN places
               PROVE  /\ places[k][1] = sku
                      /\ places[k][2] \in DOMAIN q.messages
                      /\ EventsAt(w, places)[k] = q.messages[places[k][2]]
    OBVIOUS
  <2>1. places[k] \in EventPlaces(w)
    BY <1>3, ElementOfSeq
  <2>2. places[k][1] = sku /\ places[k][2] \in DOMAIN q.messages
    BY <1>1, <2>1
  <2> QED  BY <2>2 DEF EventsAt
<1>6. \A e \in ToSet(EventsAt(w, places)) : e \in ToSet(q.messages)
  BY <1>4, <1>5 DEF ToSet
<1>7. ASSUME NEW i \in DOMAIN q.messages
      PROVE  q.messages[i] \in ToSet(EventsAt(w, places))
  <2>1. <<sku, i>> \in EventPlaces(w)
    BY <1>1
  <2>2. PICK k \in DOMAIN places : places[k] = <<sku, i>>
    BY <1>2, <2>1, PermutationsReachAll
  <2>3. EventsAt(w, places)[k] = q.messages[i]
    BY <1>5, <2>2
  <2> QED  BY <1>4, <2>3 DEF ToSet
<1>8. \A e \in ToSet(q.messages) : e \in ToSet(EventsAt(w, places))
  BY <1>7 DEF ToSet
<1> QED  BY <1>6, <1>8

\* A new unit of work that sees a product sees nothing else.
LEMMA SeeingOne ==
    ASSUME NEW sku, NEW q
    PROVE  LET w == Seeing(NewUnitOfWork, sku, q)
           IN  /\ DOMAIN w.seen = {sku}
               /\ w.seen[sku] = q
               /\ w.newMessages = <<>>
<1> DEFINE f == [s \in {sku} |-> q]
<1>1. \A b : LET w == [seen |-> <<>>, newMessages |-> <<>>, broken |-> b]
             IN  Seeing(w, sku, q).seen = f
  BY EmptyMap DEF Seeing
<1>2. \A b : LET w == [seen |-> <<>>, newMessages |-> <<>>, broken |-> b]
             IN  Seeing(w, sku, q).newMessages = <<>>
  BY DEF Seeing
<1>3. Seeing(NewUnitOfWork, sku, q).seen = f
  BY <1>1, Zenon DEF NewUnitOfWork
<1>4. Seeing(NewUnitOfWork, sku, q).newMessages = <<>>
  BY <1>2, Zenon DEF NewUnitOfWork
<1> QED  BY <1>3, <1>4

\* Store t is s with these batches in the product of this SKU.
Replaces(s, t, sku, batches) ==
    /\ DOMAIN t = DOMAIN s \cup {sku}
    /\ \A k \in DOMAIN s : k # sku => t[k] = s[k]
    /\ t[sku].batches = batches

\* What a commit of one product comes to.
LEMMA CommittedProduct ==
    ASSUME CommitsSucceed, NEW s, NEW sku, NEW q, NEW r,
           CommitsProduct(s, sku, q, r)
    PROVE  /\ r.threw = FALSE
           /\ r.uow.newMessages \in Seq(Event)
           /\ ToSet(r.uow.newMessages) = ToSet(q.messages)
           /\ Replaces(s, r.store, sku, q.batches)
<1> DEFINE w == Seeing(NewUnitOfWork, sku, q)
<1>1. /\ sku \in Skus /\ Good(sku, q) /\ GoodUnit(w) /\ w.broken = FALSE
      /\ r \in Commit(s, w)
  BY DEF CommitsProduct
<1>2. DOMAIN w.seen = {sku} /\ w.seen[sku] = q /\ w.newMessages = <<>>
  BY SeeingOne
<1> HIDE DEF w
<1>3. PICK u \in Collected(w) :
         /\ r = Returned(Written(s, u), [u EXCEPT !.seen = <<>>])
         /\ u.broken = FALSE
  BY <1>1, CommitReturns
<1>4. PICK places \in EventOrders(w) :
         u = [w EXCEPT
                !.newMessages = @ \o EventsAt(w, places),
                !.seen = [k \in DOMAIN @ |-> [@[k] EXCEPT !.messages = <<>>]]]
  BY DEF Collected
<1>5. EventsAt(w, places) \in Seq(Event)
  BY <1>1, EventsAtType
<1>6. u.newMessages = EventsAt(w, places)
  <2>1. u.newMessages = w.newMessages \o EventsAt(w, places)
    BY <1>1, <1>4 DEF GoodUnit
  <2>2. <<>> \o EventsAt(w, places) = EventsAt(w, places)
    BY <1>5, ConcatEmptySeq
  <2> QED  BY <1>2, <2>1, <2>2
<1>7. u.seen = [k \in DOMAIN w.seen |-> [w.seen[k] EXCEPT !.messages = <<>>]]
  BY <1>1, <1>4 DEF GoodUnit
<1>8. DOMAIN u.seen = {sku} /\ u.seen[sku].batches = q.batches
  BY <1>1, <1>2, <1>7 DEF Good, Sound, ProductOK
<1>9. u = [seen |-> u.seen, newMessages |-> u.newMessages, broken |-> u.broken]
  BY <1>1, CollectedGood DEF GoodUnit
<1> DEFINE x == [u EXCEPT !.seen = <<>>]
<1>10. x.newMessages = u.newMessages
  BY <1>9
<1>11. r = Returned(Written(s, u), x)
  BY <1>3
<1> HIDE DEF x
<1>12. r.store = Written(s, u) /\ r.uow = x /\ r.threw = FALSE
  BY <1>11, ResultFields
<1>13. /\ DOMAIN r.store = DOMAIN s \cup {sku}
       /\ \A k \in DOMAIN r.store : r.store[k] = IF k = sku THEN u.seen[k] ELSE s[k]
  BY <1>8, <1>12 DEF Written
<1>14. ToSet(EventsAt(w, places)) = ToSet(q.messages)
  BY <1>1, <1>2, CollectedEvents
<1>15. Replaces(s, r.store, sku, q.batches)
  BY <1>8, <1>13 DEF Replaces
<1> QED  BY <1>5, <1>6, <1>10, <1>12, <1>14, <1>15

-----------------------------------------------------------------------------
(***************************************************************************)
(* The methods of the aggregate report what they do to their lines.        *)
(***************************************************************************)
LEMMA EventsDiffer ==
    /\ \A l, m, r, s : Allocated(l, r) = Allocated(m, s) => l = m /\ r = s
    /\ \A l, m : Deallocated(l) = Deallocated(m) => l = m
    /\ \A l, m, r : Allocated(l, r) # Deallocated(m)
    /\ \A l, r, k : Allocated(l, r) # OutOfStock(k)
    /\ \A m, k : Deallocated(m) # OutOfStock(k)
<1>1. \A l, r : /\ Allocated(l, r).type = "Allocated"
                /\ Allocated(l, r).line = l /\ Allocated(l, r).batchref = r
  BY DEF Allocated
<1>2. \A m : Deallocated(m).type = "Deallocated" /\ Deallocated(m).line = m
  BY DEF Deallocated
<1>3. \A k : OutOfStock(k).type = "OutOfStock"
  BY DEF OutOfStock
<1> QED  BY <1>1, <1>2, <1>3

\* The set of a sequence of one message.
LEMMA OneMessage ==
    ASSUME NEW e
    PROVE  ToSet(Append(<<>>, e)) = {e}
<1>1. Append(<<>>, e) = <<e>>
  OBVIOUS
<1>2. DOMAIN <<e>> = {1} /\ <<e>>[1] = e
  OBVIOUS
<1> QED  BY <1>1, <1>2 DEF ToSet

\* Allocate places the line, or reports that it could not.
LEMMA AllocateReported ==
    ASSUME NEW sku \in Skus, NEW p, Good(sku, p), p.messages = <<>>,
           NEW line \in OrderLine, line.sku = sku,
           NEW q \in AfterAllocate(p, line)
    PROVE  /\ ProductReported(p, q, ToSet(q.messages))
           /\ \A l : Deallocated(l) \notin ToSet(q.messages)
           /\ \/ \E ref \in DOMAIN q.batches : line \in q.batches[ref].allocations
              \/ OutOfStock(sku) \in ToSet(q.messages)
<1>0. p = [batches |-> p.batches, version |-> p.version, messages |-> <<>>]
  BY DEF Good, Sound, ProductOK
<1>1. CASE \E ref \in DOMAIN p.batches :
              /\ MayChoose(p.batches, line, ref)
              /\ q = PlacedIn(p, line, ref)
  <2>1. PICK ref \in DOMAIN p.batches : /\ MayChoose(p.batches, line, ref)
                                        /\ q = PlacedIn(p, line, ref)
    BY <1>1
  <2> DEFINE b == p.batches[ref]
             e == Allocated(line, ref)
  <2>2. CanAllocate(b, line)
    BY <2>1 DEF MayChoose, FirstAble, Able
  <2>3. b \in BatchType /\ BatchSound(b)
    BY DEF Good, Sound, ProductOK, BatchesOK
  <2>4. Holding(b, line).allocations = b.allocations \cup {line}
    BY <2>2, <2>3, HoldingSound
  <2>5. q = [batches  |-> [p.batches EXCEPT ![ref] = Holding(b, line)],
             version  |-> p.version + 1,
             messages |-> Append(p.messages, e)]
    BY <2>1 DEF PlacedIn, Good, Sound, ProductOK
  <2> DEFINE h == Holding(b, line)
  <2> HIDE DEF h, e
  <2>6. /\ DOMAIN q.batches = DOMAIN p.batches
        /\ \A r \in DOMAIN q.batches :
              q.batches[r] = IF r = ref THEN h ELSE p.batches[r]
    BY <2>5 DEF Good, Sound, ProductOK, BatchesOK, h
  <2>7. ToSet(q.messages) = {e}
    <3>1. q.messages = Append(<<>>, e)
      BY <2>5
    <3> QED  BY <3>1, OneMessage
  <2>8. h.allocations = b.allocations \cup {line}
    BY <2>4 DEF h
  <2>9. /\ \A l : Deallocated(l) # e
        /\ \A l, r : Allocated(l, r) = e => l = line /\ r = ref
    BY EventsDiffer DEF e
  <2> QED  BY <2>6, <2>7, <2>8, <2>9 DEF ProductReported
<1>2. CASE q = Refused(p, line)
  <2> DEFINE e == OutOfStock(sku)
  <2>1. q = [batches |-> p.batches, version |-> p.version,
             messages |-> Append(p.messages, e)]
    BY <1>2 DEF Refused, Good, Sound, ProductOK
  <2> HIDE DEF e
  <2>2. ToSet(q.messages) = {e} /\ q.batches = p.batches
    <3>1. q.messages = Append(<<>>, e)
      BY <2>1
    <3> QED  BY <2>1, <3>1, OneMessage
  <2>3. \A l, r : Deallocated(l) # e /\ Allocated(l, r) # e
    BY EventsDiffer DEF e
  <2> QED  BY <2>2, <2>3 DEF ProductReported, e
<1> QED  BY <1>1, <1>2 DEF AfterAllocate

\* ChangeBatchQuantity reports every line it releases.
LEMMA ChangeReported ==
    ASSUME NEW sku \in Skus, NEW p, Good(sku, p), p.messages = <<>>,
           NEW ref \in DOMAIN p.batches, NEW qty \in 0 .. IntMax,
           NEW q \in AfterChange(p, ref, qty)
    PROVE  /\ ProductReported(p, q, ToSet(q.messages))
           /\ \A l, r : Allocated(l, r) \notin ToSet(q.messages)
<1> DEFINE b == p.batches[ref]
<1>1. PICK released \in Releases(b, qty) : q = Reduced(p, ref, qty, released)
  BY DEF AfterChange
<1>2. b \in BatchType /\ BatchSound(b)
  BY DEF Good, Sound, ProductOK, BatchesOK
<1>3. released \in Seq(b.allocations)
  BY <1>2, ReleasesFit
<1> DEFINE h == Shrunk(b, qty, released)
           more == [i \in DOMAIN released |-> Deallocated(released[i])]
           v == p.version + 1
           m == p.messages \o more
<1>4. q = [batches |-> [p.batches EXCEPT ![ref] = h], version |-> v, messages |-> m]
  BY <1>1 DEF Reduced, Good, Sound, ProductOK
<1>5. h.allocations = b.allocations \ ToSet(released)
  BY <1>2 DEF Shrunk, BatchType
<1> HIDE DEF h, v
<1>6. /\ DOMAIN q.batches = DOMAIN p.batches
      /\ \A r \in DOMAIN q.batches :
            q.batches[r] = IF r = ref THEN h ELSE p.batches[r]
  BY <1>4 DEF Good, Sound, ProductOK, BatchesOK
<1>7. q.messages = more
  <2>1. DOMAIN released = 1 .. Len(released) /\ Len(released) \in Nat
    BY <1>3, LenProperties
  <2> DEFINE S == {Deallocated(released[i]) : i \in DOMAIN released}
  <2>2. more \in [1 .. Len(released) -> S]
    BY <2>1
  <2>3. more \in Seq(S)
    BY <2>1, <2>2
  <2> HIDE DEF S, more
  <2>4. <<>> \o more = more
    BY <2>3, ConcatEmptySeq
  <2>5. q.messages = <<>> \o more
    BY <1>4
  <2> QED  BY <2>4, <2>5
<1>8. /\ \A l \in ToSet(released) : Deallocated(l) \in ToSet(q.messages)
      /\ \A e \in ToSet(q.messages) : \E l : e = Deallocated(l)
  BY <1>7 DEF ToSet
<1>9. \A l, r : Allocated(l, r) \notin ToSet(q.messages)
  BY <1>8, EventsDiffer
<1> QED  BY <1>5, <1>6, <1>8, <1>9 DEF ProductReported

\* AddBatch moves no line.
LEMMA WithBatchReported ==
    ASSUME NEW sku, NEW p, Sound(sku, p), p.messages = <<>>, NEW b
    PROVE  /\ ProductReported(p, WithBatch(p, b), ToSet(WithBatch(p, b).messages))
           /\ \A l : Deallocated(l) \notin ToSet(WithBatch(p, b).messages)
<1> DEFINE q == WithBatch(p, b)
<1>1. q = [batches |-> Merged(p.batches, ByReference(b)), version |-> p.version,
           messages |-> p.messages]
  BY DEF WithBatch, Sound, ProductOK
<1>2. /\ DOMAIN p.batches \subseteq DOMAIN q.batches
      /\ \A r \in DOMAIN p.batches : q.batches[r] = p.batches[r]
  BY <1>1 DEF Merged
<1>3. ToSet(q.messages) = {}
  <2>1. q.messages = <<>>
    BY <1>1
  <2> QED  BY <2>1, EmptyMap DEF ToSet
<1> HIDE DEF q
<1>4. /\ ProductReported(p, q, ToSet(q.messages))
      /\ \A l : Deallocated(l) \notin ToSet(q.messages)
  BY <1>2, <1>3 DEF ProductReported
<1> QED  BY <1>4 DEF q

-----------------------------------------------------------------------------
(***************************************************************************)
(* The same for a whole handler, from store to store.                      *)
(***************************************************************************)

\* The commit of one product reports what its methods reported.
LEMMA CommitReported ==
    ASSUME CommitsSucceed, NEW s, GoodStore(s), NEW sku, NEW q, NEW r,
           CommitsProduct(s, sku, q, r),
           ProductReported(Stored(s, sku), q, ToSet(q.messages))
    PROVE  Reported(s, r.store, ToSet(r.uow.newMessages))
<1> DEFINE t == r.store
           events == ToSet(q.messages)
           p == Stored(s, sku)
<1>0. Replaces(s, t, sku, q.batches) /\ ToSet(r.uow.newMessages) = events
  BY CommittedProduct, Zenon
<1>1. /\ ToSet(r.uow.newMessages) = events
      /\ DOMAIN t = DOMAIN s \cup {sku}
      /\ \A k \in DOMAIN s : k # sku => t[k] = s[k]
      /\ t[sku].batches = q.batches
  BY <1>0 DEF Replaces
<1>2. \A ref \in DOMAIN q.batches : \A l \in q.batches[ref].allocations : l.sku = sku
  BY DEF CommitsProduct, Good, Sound, ProductOK, BatchesOK
<1>3. ProductReported(p, q, events)
  OBVIOUS
<1>4. sku \in DOMAIN s => p = s[sku]
  BY DEF Stored
<1> HIDE DEF t, events, p
<1>5. ASSUME NEW l, NEW ref, HoldsIn(s, l, ref)
      PROVE  HoldsIn(t, l, ref) \/ Deallocated(l) \in events
  <2>1. CASE l.sku # sku
    BY <1>1, <1>5, <2>1 DEF HoldsIn
  <2>2. CASE l.sku = sku
    BY <1>1, <1>3, <1>4, <1>5, <2>2 DEF HoldsIn, ProductReported
  <2> QED  BY <2>1, <2>2
<1>6. ASSUME NEW l, NEW ref, Allocated(l, ref) \in events
      PROVE  HoldsIn(t, l, ref)
  <2>1. ref \in DOMAIN q.batches /\ l \in q.batches[ref].allocations
    BY <1>3, <1>6 DEF ProductReported
  <2> QED  BY <1>1, <1>2, <2>1 DEF HoldsIn
<1>7. Reported(s, t, events)
  BY <1>1, <1>5, <1>6 DEF Reported
<1> QED  BY <1>1, <1>7 DEF t

\* What a command does to a product is reported in its events.
LEMMA TurnReported ==
    ASSUME NEW s, GoodStore(s), NEW command \in Command, NEW sku \in Skus, NEW q,
           Turns(s, command, sku, q)
    PROVE  ProductReported(Stored(s, sku), q, ToSet(q.messages))
<1>1. sku \in DOMAIN s => /\ Good(sku, s[sku])
                          /\ s[sku].messages = <<>>
                          /\ Stored(s, sku) = s[sku]
  BY DEF GoodStore, GoodProducts, Stored
<1>2. CASE command.type = "CreateBatch" /\ q = WithBatch(Stored(s, sku), command.batch)
  <2>1. Sound(sku, Stored(s, sku)) /\ Stored(s, sku).messages = <<>>
    <3>1. CASE sku \in DOMAIN s
      BY <1>1, <3>1 DEF Good
    <3>2. CASE sku \notin DOMAIN s
      <4>1. Stored(s, sku) = NewProduct
        BY <3>2 DEF Stored
      <4>2. NewProduct.messages = <<>>
        BY DEF NewProduct
      <4> QED  BY <4>1, <4>2, NewProductSound
    <3> QED  BY <3>1, <3>2
  <2> QED  BY <1>2, <2>1, WithBatchReported
<1>3. CASE /\ command.type = "Allocate" /\ sku = command.line.sku
           /\ sku \in DOMAIN s /\ q \in AfterAllocate(s[sku], command.line)
  <2>1. command.line \in OrderLine
    BY <1>3 DEF Command
  <2> QED  BY <1>1, <1>3, <2>1, AllocateReported
<1>4. CASE /\ command.type = "ChangeBatchQuantity" /\ sku \in DOMAIN s
           /\ command.ref \in DOMAIN s[sku].batches
           /\ q \in AfterChange(s[sku], command.ref, command.qty)
  <2>1. command.qty \in 0 .. IntMax
    BY <1>4 DEF Command
  <2> QED  BY <1>1, <1>4, <2>1, ChangeReported
<1> QED  BY <1>2, <1>3, <1>4 DEF Turns

\* A command throws and leaves the store alone, or reports all it does.
LEMMA CommandReported ==
    ASSUME CommitsSucceed, GoodStore(store), uow = NewUnitOfWork,
           NEW command \in Command, NEW r \in Called(command)
    PROVE  \/ r.threw = TRUE /\ r.store = store
           \/ /\ r.threw = FALSE
              /\ r.uow.newMessages \in Seq(Event)
              /\ Reported(store, r.store, ToSet(r.uow.newMessages))
<1>1. \/ r.threw = TRUE /\ r.store = store
      \/ \E sku, q : /\ Turns(store, command, sku, q)
                     /\ CommitsProduct(store, sku, q, r)
  BY CalledOutcome
<1>2. ASSUME NEW sku, NEW q, Turns(store, command, sku, q),
             CommitsProduct(store, sku, q, r)
      PROVE  /\ r.threw = FALSE
             /\ r.uow.newMessages \in Seq(Event)
             /\ Reported(store, r.store, ToSet(r.uow.newMessages))
  <2>1. sku \in Skus
    BY <1>2 DEF CommitsProduct
  <2>2. ProductReported(Stored(store, sku), q, ToSet(q.messages))
    BY <1>2, <2>1, TurnReported
  <2>3. r.threw = FALSE /\ r.uow.newMessages \in Seq(Event)
    BY <1>2, CommittedProduct, Zenon
  <2> QED  BY <1>2, <2>2, <2>3, CommitReported, Zenon
<1> QED  BY <1>1, <1>2

(***************************************************************************)
(* Reallocate throws if the product is not there, or it places the line or *)
(* is refused; it throws out no line.                                      *)
(***************************************************************************)
LEMMA ReallocateReported ==
    ASSUME CommitsSucceed, NEW s, GoodStore(s), NEW line \in OrderLine,
           NEW r \in HandleAllocate(s, NewUnitOfWork, line)
    PROVE  \/ r = Threw(s, NewUnitOfWork) /\ line.sku \notin DOMAIN s
           \/ /\ r.threw = FALSE
              /\ r.uow.newMessages \in Seq(Event)
              /\ Reported(s, r.store, ToSet(r.uow.newMessages))
              /\ \A l : Deallocated(l) \notin ToSet(r.uow.newMessages)
              /\ \/ \E ref : HoldsIn(r.store, line, ref)
                 \/ OutOfStock(line.sku) \in ToSet(r.uow.newMessages)
<1> DEFINE sku == line.sku
<1>1. \/ r = Threw(s, NewUnitOfWork) /\ sku \notin DOMAIN s
      \/ /\ sku \in DOMAIN s
         /\ \E q \in AfterAllocate(s[sku], line) :
               /\ Good(sku, q)
               /\ GoodUnit(Seeing(NewUnitOfWork, sku, q))
               /\ Seeing(NewUnitOfWork, sku, q).broken = FALSE
               /\ r \in Commit(s, Seeing(NewUnitOfWork, sku, q))
  BY AllocateOfNewUnit
<1>2. sku \in Skus
  BY DEF OrderLine
<1>3. ASSUME sku \in DOMAIN s, NEW q \in AfterAllocate(s[sku], line),
             CommitsProduct(s, sku, q, r)
      PROVE  /\ r.threw = FALSE
             /\ r.uow.newMessages \in Seq(Event)
             /\ Reported(s, r.store, ToSet(r.uow.newMessages))
             /\ \A l : Deallocated(l) \notin ToSet(r.uow.newMessages)
             /\ \/ \E ref : HoldsIn(r.store, line, ref)
                \/ OutOfStock(sku) \in ToSet(r.uow.newMessages)
  <2>1. Good(sku, s[sku]) /\ s[sku].messages = <<>> /\ Stored(s, sku) = s[sku]
    BY <1>3 DEF GoodStore, GoodProducts, Stored
  <2>2. /\ ProductReported(Stored(s, sku), q, ToSet(q.messages))
        /\ \A l : Deallocated(l) \notin ToSet(q.messages)
        /\ \/ \E ref \in DOMAIN q.batches : line \in q.batches[ref].allocations
           \/ OutOfStock(sku) \in ToSet(q.messages)
    BY <1>2, <1>3, <2>1, AllocateReported
  <2>3. /\ r.threw = FALSE
        /\ r.uow.newMessages \in Seq(Event)
        /\ ToSet(r.uow.newMessages) = ToSet(q.messages)
        /\ Replaces(s, r.store, sku, q.batches)
    BY <1>3, CommittedProduct, Zenon
  <2>4. Reported(s, r.store, ToSet(r.uow.newMessages))
    BY <1>3, <2>2, CommitReported
  <2> QED  BY <2>2, <2>3, <2>4 DEF HoldsIn, Replaces
<1>4. ASSUME NEW q \in AfterAllocate(s[sku], line), Good(sku, q),
             r \in Commit(s, Seeing(NewUnitOfWork, sku, q))
      PROVE  CommitsProduct(s, sku, q, r)
  BY <1>2, <1>4, ProductCommitted
<1> HIDE DEF sku
<1>5. CASE r = Threw(s, NewUnitOfWork) /\ sku \notin DOMAIN s
  BY <1>5 DEF sku
<1>6. CASE sku \in DOMAIN s /\ \E q \in AfterAllocate(s[sku], line) :
                /\ Good(sku, q)
                /\ r \in Commit(s, Seeing(NewUnitOfWork, sku, q))
  <2>1. PICK q \in AfterAllocate(s[sku], line) :
                /\ Good(sku, q)
                /\ r \in Commit(s, Seeing(NewUnitOfWork, sku, q))
    BY <1>6
  <2>2. CommitsProduct(s, sku, q, r)
    BY <1>4, <2>1
  <2> QED  BY <1>3, <1>6, <2>2 DEF sku
<1> QED  BY <1>1, <1>5, <1>6

-----------------------------------------------------------------------------
(***************************************************************************)
(* The messages of a sequence, as a set.                                   *)
(***************************************************************************)

\* What joins the end of a sequence leaves the others there.
LEMMA SetOfConcat ==
    ASSUME NEW S, NEW s \in Seq(S), NEW t \in Seq(S)
    PROVE  ToSet(s \o t) = ToSet(s) \cup ToSet(t)
<1>1. /\ DOMAIN s = 1 .. Len(s) /\ Len(s) \in Nat
      /\ DOMAIN t = 1 .. Len(t) /\ Len(t) \in Nat
  BY LenProperties
<1>2. /\ s \o t \in Seq(S)
      /\ Len(s \o t) = Len(s) + Len(t)
      /\ \A i \in 1 .. Len(s) + Len(t) :
            (s \o t)[i] = IF i <= Len(s) THEN s[i] ELSE t[i - Len(s)]
  BY ConcatProperties
<1> DEFINE u == s \o t
<1> HIDE DEF u
<1>3. DOMAIN u = 1 .. Len(s) + Len(t)
  BY <1>2, LenProperties DEF u
<1>4. \A i \in 1 .. Len(s) : u[i] = s[i] /\ i \in DOMAIN u
  BY <1>1, <1>2, <1>3 DEF u
<1>5. \A i \in 1 .. Len(t) : u[i + Len(s)] = t[i] /\ i + Len(s) \in DOMAIN u
  BY <1>1, <1>2, <1>3 DEF u
<1>6. \A i \in DOMAIN u : \/ i \in DOMAIN s /\ u[i] = s[i]
                          \/ i - Len(s) \in DOMAIN t /\ u[i] = t[i - Len(s)]
  BY <1>1, <1>2, <1>3 DEF u
<1>7. ToSet(u) = ToSet(s) \cup ToSet(t)
  BY <1>1, <1>4, <1>5, <1>6 DEF ToSet
<1> QED  BY <1>7 DEF u

\* The first message and the others.
LEMMA SetOfHead ==
    ASSUME NEW S, NEW s \in Seq(S), s # <<>>
    PROVE  ToSet(s) = {Head(s)} \cup ToSet(Tail(s))
<1>1. s = <<Head(s)>> \o Tail(s) /\ Head(s) \in S /\ Tail(s) \in Seq(S)
  BY HeadThenTail, HeadTailProperties
<1>2. <<Head(s)>> \in Seq(S)
  BY <1>1
<1>3. ToSet(s) = ToSet(<<Head(s)>>) \cup ToSet(Tail(s))
  BY <1>1, <1>2, SetOfConcat
<1>4. ToSet(<<Head(s)>>) = {Head(s)}
  BY DEF ToSet
<1> QED  BY <1>3, <1>4

-----------------------------------------------------------------------------
(***************************************************************************)
(* A line that is not held may still be waiting for Reallocate.            *)
(***************************************************************************)
HeldIn(s, line) == \E ref : HoldsIn(s, line, ref)

\* Some event of the queue, or the one being handled, is still to reach
\* this subscriber.
Reaches(q, d, event, subscriber) ==
    \/ event \in ToSet(q)
    \/ /\ d # NoDelivery
       /\ d.event = event
       /\ subscriber \in ToSet(d.left)

Missing(s, q, d, line) ==
    ~HeldIn(s, line) /\ ~Reaches(q, d, Deallocated(line), "Reallocate")

\* The batch that holds a line has a reference of Refs.
LEMMA HeldIsHeldIn ==
    ASSUME GoodStore(store), NEW line
    PROVE  Held(line) <=> HeldIn(store, line)
<1>1. \A sku \in DOMAIN store : DOMAIN store[sku].batches \subseteq Refs
  BY DEF GoodStore, GoodProducts, Good, Sound, ProductOK, BatchesOK
<1>2. \A ref : Holds(line, ref) <=> HoldsIn(store, line, ref)
  BY DEF Holds, HoldsIn
<1>3. \A ref : HoldsIn(store, line, ref) => ref \in Refs
  BY <1>1 DEF HoldsIn
<1> QED  BY <1>2, <1>3 DEF Held, HeldIn

\* A subscriber returns or throws: the queue keeps its events, and those that
\* join it are of the unit of work.
LEMMA QueueGrows ==
    ASSUME NEW after, GoodUnit(after), Returns(after) \/ Throws(after),
           queue \in Seq(Event)
    PROVE  /\ ToSet(queue) \subseteq ToSet(queue')
           /\ ToSet(queue') \subseteq ToSet(queue) \cup ToSet(after.newMessages)
<1>1. after.newMessages \in Seq(Event)
  BY DEF GoodUnit
<1>2. queue' = queue \o after.newMessages \/ queue' = queue
  BY DEF Returns, Throws
<1>3. ToSet(queue \o after.newMessages) = ToSet(queue) \cup ToSet(after.newMessages)
  BY <1>1, SetOfConcat, Zenon
<1>4. CASE queue' = queue \o after.newMessages
  <2>1. ToSet(queue') = ToSet(queue) \cup ToSet(after.newMessages)
    BY <1>3, <1>4, Zenon
  <2> QED  BY <2>1, Zenon
<1>5. CASE queue' = queue
  BY <1>5, Zenon
<1> QED  BY <1>2, <1>4, <1>5

\* A subscriber returns or throws: what an event of the queue, or the one
\* being handled, is still to reach, it is still to reach.
LEMMA SubscriberReaches ==
    ASSUME IInv, NEW due, Due(due), NEW after, GoodUnit(after),
           Returns(after) \/ Throws(after),
           NEW event \in Event, NEW subscriber,
           Reaches(queue, delivery, event, subscriber)
    PROVE  \/ Reaches(queue', delivery', event, subscriber)
           \/ subscriber = due /\ delivery.event = event
<1>1. delivery # NoDelivery /\ Head(delivery.left) = due
  BY DEF Due
<1>2. queue \in Seq(Event)
  BY <1>1 DEF IInv, QueueOK
<1>3. ToSet(queue) \subseteq ToSet(queue')
  BY <1>2, QueueGrows
<1> DEFINE left == delivery.left
<1>4. delivery' = Delivering(delivery.event, Tail(left))
  BY DEF Returns, Throws
<1>5. left \in Seq(EventHandlerFor(delivery.event.type)) /\ left # <<>>
  BY <1>1 DEF IInv, DeliveryOK
<1>6. ToSet(left) = {due} \cup ToSet(Tail(left))
  BY <1>1, <1>5, SetOfHead
<1> HIDE DEF left
<1>7. ASSUME subscriber \in ToSet(Tail(left)), delivery.event = event
      PROVE  Reaches(queue', delivery', event, subscriber)
  <2>1. Tail(left) # <<>>
    BY <1>7, EmptyMap DEF ToSet
  <2>2. delivery' = [event |-> event, left |-> Tail(left)]
    BY <1>4, <1>7, <2>1 DEF Delivering
  <2> DEFINE d == delivery'
  <2>3. d.event = event /\ d.left = Tail(left)
    BY <2>2
  <2>4. d # NoDelivery
    BY <2>1, <2>3 DEF NoDelivery
  <2> QED  BY <1>7, <2>3, <2>4 DEF Reaches
<1>8. CASE event \in ToSet(queue)
  BY <1>3, <1>8 DEF Reaches
<1>9. CASE delivery.event = event /\ subscriber \in ToSet(left)
  BY <1>6, <1>7, <1>9
<1> QED  BY <1>8, <1>9 DEF Reaches, left

\* An event leaves the queue and is passed to its subscribers.
LEMMA TakenReaches ==
    ASSUME IInv, BusTakesEvent, NEW event \in Event, NEW subscriber,
           subscriber \in ToSet(SubscribersOf(Bus, event.type)),
           Reaches(queue, delivery, event, subscriber)
    PROVE  Reaches(queue', delivery', event, subscriber)
<1>1. queue \in Seq(Event) /\ queue # <<>>
  BY EventIsNoCommand DEF IInv, QueueOK, BusTakesEvent
<1>2. delivery = NoDelivery /\ queue' = Tail(queue)
  BY DEF BusTakesEvent
<1>3. delivery' = Delivering(Head(queue), SubscribersOf(Bus, Head(queue).type))
  BY DEF BusTakesEvent
<1>4. event \in ToSet(queue)
  BY <1>2 DEF Reaches
<1>5. event = Head(queue) \/ event \in ToSet(queue')
  BY <1>1, <1>2, <1>4, SetOfHead
<1>6. CASE event = Head(queue)
  <2> DEFINE left == SubscribersOf(Bus, event.type)
             d == delivery'
  <2>1. d = Delivering(event, left) /\ subscriber \in ToSet(left)
    BY <1>3, <1>6
  <2> HIDE DEF left
  <2>2. left # <<>>
    BY <2>1, EmptyMap DEF ToSet
  <2>3. d = [event |-> event, left |-> left]
    BY <2>1, <2>2 DEF Delivering
  <2>4. d.event = event /\ d.left = left
    BY <2>3
  <2>5. d # NoDelivery
    BY <2>2, <2>4 DEF NoDelivery
  <2> QED  BY <2>1, <2>4, <2>5 DEF Reaches
<1> QED  BY <1>5, <1>6 DEF Reaches

-----------------------------------------------------------------------------
(***************************************************************************)
(* The lines clients were told are allocated, and the refusals that        *)
(* account for those that are held no longer.  While a line awaits         *)
(* Reallocate it is not lost; this is why the invariant speaks of the      *)
(* queue and of the subscribers still to be called.                        *)
(***************************************************************************)
ReallocateSubscribed ==
    "Reallocate" \in ToSet(SubscribersOf(Bus, "Deallocated"))

Lost(sku) ==
    {l \in accepted : l.sku = sku /\ Missing(store, queue, delivery, l)}

AccountInv ==
    /\ IsFiniteSet(accepted)
    /\ \A l \in accepted : l.sku \in DOMAIN store
    /\ \A sku \in Skus : Cardinality(Lost(sku)) <= refused[sku]

\* A request begins with no line accepted.
LEMMA AccountInit ==
    ASSUME Init
    PROVE  AccountInv
<1>1. IsFiniteSet({}) /\ Cardinality({}) = 0
  BY FS_EmptySet
<1>2. accepted = {} /\ \A sku \in Skus : refused[sku] = 0
  BY DEF Init
<1>3. \A sku \in Skus : Lost(sku) = {}
  BY <1>2 DEF Lost
<1>4. \A sku \in Skus : Cardinality(Lost(sku)) <= refused[sku]
  <2> TAKE sku \in Skus
  <2>1. Cardinality(Lost(sku)) = 0
    BY <1>1, <1>3
  <2>2. refused[sku] = 0
    BY <1>2
  <2>3. 0 <= 0
    OBVIOUS
  <2> QED  BY <2>1, <2>2, <2>3, Zenon
<1>5. IsFiniteSet(accepted)
  BY <1>1, <1>2, Zenon
<1> QED  BY <1>2, <1>4, <1>5 DEF AccountInv

\* Every line lost by a step is one that was lost, or one more was refused.
LEMMA AccountKept ==
    ASSUME IInv, IInv', AccountInv, IsFiniteSet(accepted'),
           \A l \in accepted' : l.sku \in DOMAIN store',
           \A sku \in Skus : refused'[sku] >= refused[sku],
           NEW line,
           \A l \in accepted' : Missing(store', queue', delivery', l) =>
              \/ l \in accepted /\ Missing(store, queue, delivery, l)
              \/ l = line /\ refused'[l.sku] >= refused[l.sku] + 1
    PROVE  AccountInv'
<1> SUFFICES ASSUME NEW sku \in Skus
             PROVE  Cardinality(Lost(sku)') <= refused'[sku]
  BY DEF AccountInv
<1> DEFINE old == Lost(sku)
           new == Lost(sku)'
<1>1. /\ refused[sku] \in Nat /\ refused'[sku] \in Nat
      /\ refused'[sku] >= refused[sku]
  BY DEF IInv, HistoryOK
<1>2. IsFiniteSet(old) /\ Cardinality(old) \in Nat /\ Cardinality(old) <= refused[sku]
  <2>1. old \in SUBSET accepted /\ IsFiniteSet(accepted)
    BY DEF Lost, AccountInv
  <2> HIDE DEF old
  <2>2. IsFiniteSet(old)
    BY <2>1, FS_Subset
  <2> QED  BY <2>2, FS_CardinalityType DEF AccountInv, old
<1>3. \A l \in new : \/ l \in old
                     \/ l = line /\ refused'[sku] >= refused[sku] + 1
  BY DEF Lost
<1> HIDE DEF old, new
<1>4. CASE refused'[sku] >= refused[sku] + 1
  <2>1. new \in SUBSET (old \cup {line})
    BY <1>3
  <2>2. /\ IsFiniteSet(old \cup {line})
        /\ Cardinality(old \cup {line})
             = IF line \in old THEN Cardinality(old) ELSE Cardinality(old) + 1
    BY <1>2, FS_AddElement
  <2>3. Cardinality(new) <= Cardinality(old \cup {line}) /\ Cardinality(new) \in Nat
    BY <2>1, <2>2, FS_Subset, FS_CardinalityType
  <2>4. Cardinality(new) <= refused'[sku]
    BY <1>1, <1>2, <1>4, <2>2, <2>3
  <2> QED  BY <2>4 DEF new
<1>5. CASE ~(refused'[sku] >= refused[sku] + 1)
  <2>1. new \in SUBSET old
    BY <1>3, <1>5
  <2>2. Cardinality(new) <= Cardinality(old) /\ Cardinality(new) \in Nat
    BY <1>2, <2>1, FS_Subset, FS_CardinalityType
  <2>3. Cardinality(new) <= refused'[sku]
    BY <1>1, <1>2, <2>2
  <2> QED  BY <2>3 DEF new
<1> QED  BY <1>4, <1>5

\* The lines placed by a sequence of events are finitely many, and each of
\* them has an event that tells of its batch.
LEMMA PlacedFinite ==
    ASSUME NEW m \in Seq(Event)
    PROVE  /\ IsFiniteSet(Placed(m))
           /\ \A l \in Placed(m) : \E ref : Allocated(l, ref) \in ToSet(m)
<1>1. DOMAIN m = 1 .. Len(m) /\ Len(m) \in Nat
  BY LenProperties
<1>2. IsFiniteSet(DOMAIN m)
  BY <1>1, FS_Interval
<1> DEFINE D == {i \in DOMAIN m : m[i].type = "Allocated"}
           f == [i \in D |-> m[i].line]
<1>3. IsFiniteSet(D)
  <2>1. D \in SUBSET DOMAIN m
    OBVIOUS
  <2> HIDE DEF D
  <2> QED  BY <1>2, <2>1, FS_Subset
<1>4. f \in Surjection(D, Placed(m))
  BY DEF Surjection, Placed, ToSet
<1>5. IsFiniteSet(Placed(m))
  <2> HIDE DEF D, f
  <2> QED  BY <1>3, <1>4, FS_Surjection
<1>6. ASSUME NEW l \in Placed(m)
      PROVE  \E ref : Allocated(l, ref) \in ToSet(m)
  <2>1. PICK e \in ToSet(m) : e.type = "Allocated" /\ e.line = l
    BY DEF Placed
  <2>2. e \in Event
    BY ElementOfSeq DEF ToSet
  <2>3. e = Allocated(l, e.batchref)
    BY <2>1, <2>2 DEF Event, Allocated
  <2> QED  BY <2>1, <2>3
<1> QED  BY <1>5, <1>6

\* A refusal among the messages is counted.
LEMMA RefusedIsCounted ==
    ASSUME NEW m \in Seq(Event), NEW sku \in Skus, OutOfStock(sku) \in ToSet(m)
    PROVE  Refusals(m, sku) >= 1
<1> DEFINE I == {i \in DOMAIN m : m[i].type = "OutOfStock" /\ m[i].sku = sku}
<1>1. PICK i \in DOMAIN m : m[i] = OutOfStock(sku)
  BY DEF ToSet
<1>2. i \in I
  BY <1>1 DEF OutOfStock
<1>3. IsFiniteSet(I)
  <2>1. DOMAIN m = 1 .. Len(m) /\ Len(m) \in Nat
    BY LenProperties
  <2>2. IsFiniteSet(DOMAIN m) /\ I \in SUBSET DOMAIN m
    BY <2>1, FS_Interval
  <2> HIDE DEF I
  <2> QED  BY <2>2, FS_Subset
<1> HIDE DEF I
<1>4. Cardinality(I) \in Nat /\ Cardinality(I) # 0
  BY <1>2, <1>3, FS_CardinalityType, FS_EmptySet
<1> QED  BY <1>4 DEF Refusals, I

\* Nothing is told to a client and no store changes: what awaits Reallocate
\* must go on awaiting it.
LEMMA AccountUnmoved ==
    ASSUME IInv, IInv', AccountInv,
           UNCHANGED <<store, refused, accepted>>,
           \A l \in accepted : Reaches(queue, delivery, Deallocated(l), "Reallocate")
              => Reaches(queue', delivery', Deallocated(l), "Reallocate")
    PROVE  AccountInv'
<1>1. \A l \in accepted' : Missing(store', queue', delivery', l) =>
         l \in accepted /\ Missing(store, queue, delivery, l)
  BY DEF Missing
<1>2. \A sku \in Skus : refused'[sku] >= refused[sku]
  BY DEF IInv, HistoryOK
<1>3. IsFiniteSet(accepted') /\ \A l \in accepted' : l.sku \in DOMAIN store'
  BY DEF AccountInv
<1> QED  BY <1>1, <1>2, <1>3, AccountKept

\* Nothing awaits a subscriber while the queue is empty or holds a command.
LEMMA NothingAwaits ==
    ASSUME IInv, NEW l, NEW subscriber,
           \/ queue = <<>> /\ delivery = NoDelivery
           \/ queue # <<>> /\ ~IsEvent(Head(queue))
    PROVE  ~Reaches(queue, delivery, Deallocated(l), subscriber)
<1>1. CASE queue = <<>> /\ delivery = NoDelivery
  BY <1>1, EmptyMap DEF Reaches, ToSet
<1>2. CASE queue # <<>> /\ ~IsEvent(Head(queue))
  <2>1. PICK command \in Command : queue = <<command>> /\ delivery = NoDelivery
    <3>1. queue \notin Seq(Event)
      BY <1>2, EventIsNoCommand, HeadTailProperties
    <3> QED  BY <3>1 DEF IInv, QueueOK
  <2>2. ToSet(queue) = {command}
    BY <2>1 DEF ToSet
  <2>3. Deallocated(l) # command
    BY EventTypes DEF Deallocated, CommandType
  <2> QED  BY <2>1, <2>2, <2>3 DEF Reaches
<1> QED  BY <1>1, <1>2

\* A command: every line that leaves a batch awaits Reallocate.
LEMMA AccountCommand ==
    ASSUME CommitsSucceed, IInv, IInv', uow = NewUnitOfWork, AccountInv,
           BusHandlesCommand
    PROVE  AccountInv'
<1>1. PICK command \in Command : queue = <<command>>
  <2>1. queue \notin Seq(Event)
    BY EventIsNoCommand, HeadTailProperties DEF BusHandlesCommand
  <2> QED  BY <2>1 DEF IInv, QueueOK
<1>2. Head(queue) = command /\ Tail(queue) = <<>>
  BY <1>1
<1>3. PICK r \in Called(command) :
         /\ store' = r.store
         /\ IF r.threw
            THEN UNCHANGED <<refused, accepted>>
            ELSE /\ queue' = Tail(queue) \o r.uow.newMessages
                 /\ Record(uow, r.uow)
                 /\ accepted' = accepted \cup Placed(r.uow.newMessages)
  BY <1>2 DEF BusHandlesCommand
<1>4. GoodStore(store) /\ queue # <<>> /\ ~IsEvent(Head(queue))
  BY DEF IInv, BusHandlesCommand
<1>5. \A l \in accepted : ~Reaches(queue, delivery, Deallocated(l), "Reallocate")
  BY <1>4, NothingAwaits
<1>6. CASE r.threw = TRUE /\ r.store = store
  <2>1. UNCHANGED <<store, refused, accepted>>
    BY <1>3, <1>6
  <2> QED  BY <1>5, <2>1, AccountUnmoved
<1>7. CASE /\ r.threw = FALSE
           /\ r.uow.newMessages \in Seq(Event)
           /\ Reported(store, r.store, ToSet(r.uow.newMessages))
  <2> DEFINE m == r.uow.newMessages
  <2>1. m \in Seq(Event) /\ Reported(store, store', ToSet(m))
    BY <1>3, <1>7
  <2>2. queue' = m
    BY <1>2, <1>3, <1>7, ConcatEmptySeq
  <2>3. accepted' = accepted \cup Placed(m)
    BY <1>3, <1>7
  <2>4. \A sku \in Skus : refused'[sku] >= refused[sku]
    <3>1. Raised(uow, r.uow) = m
      <4>1. uow.newMessages = <<>> /\ <<>> \o m = m /\ <<>> \in Seq(Event)
        BY <2>1, ConcatEmptySeq, EmptySeq DEF NewUnitOfWork
      <4>2. r.uow.newMessages = uow.newMessages \o m
        BY <4>1
      <4> QED  BY <2>1, <4>1, <4>2, RaisedIsAppended
    <3>2. \A sku \in Skus : refused'[sku] = refused[sku] + Refusals(m, sku)
      BY <1>3, <1>7, <3>1 DEF Record
    <3>3. \A sku \in Skus : refused[sku] \in Nat /\ Refusals(m, sku) \in Nat
      BY <2>1, RefusalsType DEF IInv, HistoryOK
    <3> HIDE DEF m
    <3> QED  BY <3>2, <3>3
  <2> HIDE DEF m
  <2>5. \A l \in Placed(m) : HeldIn(store', l)
    BY <2>1, PlacedFinite DEF Reported, HeldIn
  <2>6. IsFiniteSet(accepted')
    BY <2>1, <2>3, PlacedFinite, FS_Union DEF AccountInv
  <2>7. \A l \in accepted' : l.sku \in DOMAIN store'
    BY <2>1, <2>3, <2>5 DEF AccountInv, Reported, HeldIn, HoldsIn
  <2>8. ASSUME NEW l \in accepted', Missing(store', queue', delivery', l)
        PROVE  l \in accepted /\ Missing(store, queue, delivery, l)
    <3>1. l \in accepted
      BY <2>3, <2>5, <2>8 DEF Missing
    <3>2. ASSUME NEW ref, HoldsIn(store, l, ref)
          PROVE  FALSE
      <4>1. HoldsIn(store', l, ref) \/ Deallocated(l) \in ToSet(m)
        BY <2>1, <3>2 DEF Reported
      <4>2. Deallocated(l) \in ToSet(m) =>
               Reaches(queue', delivery', Deallocated(l), "Reallocate")
        BY <2>2 DEF Reaches
      <4> QED  BY <2>8, <4>1, <4>2 DEF Missing, HeldIn
    <3> QED  BY <1>5, <3>1, <3>2 DEF Missing, HeldIn
  <2> QED  BY <2>4, <2>6, <2>7, <2>8, AccountKept
<1> QED  BY <1>1, <1>4, <1>6, <1>7, CommandReported

\* Reallocate: the line it is called for is held again, or was refused; it
\* throws only for a product that is not there.
LEMMA AccountReallocate ==
    ASSUME CommitsSucceed, IInv, IInv', uow = NewUnitOfWork, AccountInv,
           Reallocate
    PROVE  AccountInv'
<1>1. Due("Reallocate") /\ accepted' = accepted
  BY DEF Reallocate
<1>2. delivery # NoDelivery /\ Head(delivery.left) = "Reallocate"
  BY <1>1 DEF Due
<1>3. /\ delivery.event \in Event
      /\ "Reallocate" \in EventHandlerFor(delivery.event.type)
  BY <1>2, HeadTailProperties DEF IInv, DeliveryOK
<1>4. delivery.event.line \in OrderLine
  BY <1>3 DEF Event, EventHandlerFor
<1>5. PICK line \in OrderLine : line = delivery.event.line
  BY <1>4
<1>6. \A l : delivery.event = Deallocated(l) => l = line
  BY <1>5 DEF Deallocated
<1>7. PICK r \in HandleAllocate(store, uow, line) :
         /\ store' = r.store
         /\ IF r.threw THEN Throws(r.uow) ELSE Returns(r.uow)
         /\ Record(uow, r.uow)
  BY <1>5 DEF Reallocate
<1>8. GoodUnit(r.uow) /\ GoodStore(store) /\ GoodUnit(uow)
  BY <1>7, HandleAllocateGood DEF IInv, GoodResult
<1>9. Returns(r.uow) \/ Throws(r.uow)
  BY <1>7
<1>10. ASSUME NEW l \in accepted, l # line,
              Reaches(queue, delivery, Deallocated(l), "Reallocate")
       PROVE  Reaches(queue', delivery', Deallocated(l), "Reallocate")
  <2>1. Deallocated(l) \in Event
    BY EventTypes DEF IInv, HistoryOK
  <2> QED  BY <1>1, <1>6, <1>8, <1>9, <1>10, <2>1, SubscriberReaches
<1>11. /\ \A sku \in Skus : refused'[sku] >= refused[sku]
       /\ OutOfStock(line.sku) \in ToSet(r.uow.newMessages) =>
             refused'[line.sku] >= refused[line.sku] + 1
  <2> DEFINE m == r.uow.newMessages
  <2>1. m \in Seq(Event)
    BY <1>8 DEF GoodUnit
  <2>2. Raised(uow, r.uow) = m
    <3>1. uow.newMessages = <<>> /\ <<>> \o m = m /\ <<>> \in Seq(Event)
      BY <2>1, ConcatEmptySeq, EmptySeq DEF NewUnitOfWork
    <3>2. r.uow.newMessages = uow.newMessages \o m
      BY <3>1
    <3> QED  BY <2>1, <3>1, <3>2, RaisedIsAppended
  <2> HIDE DEF m
  <2>3. \A sku \in Skus : /\ refused'[sku] = refused[sku] + Refusals(m, sku)
                          /\ refused[sku] \in Nat /\ Refusals(m, sku) \in Nat
    BY <1>7, <2>1, <2>2, RefusalsType DEF Record, IInv, HistoryOK
  <2>4. line.sku \in Skus
    BY DEF OrderLine
  <2>5. OutOfStock(line.sku) \in ToSet(m) => Refusals(m, line.sku) >= 1
    BY <2>1, <2>4, RefusedIsCounted
  <2> QED  BY <2>3, <2>4, <2>5 DEF m
<1>12. CASE r = Threw(store, NewUnitOfWork) /\ line.sku \notin DOMAIN store
  <2>1. store' = store
    BY <1>7, <1>12, ResultFields
  <2>2. line \notin accepted
    BY <1>12 DEF AccountInv
  <2>3. \A l \in accepted' : Missing(store', queue', delivery', l) =>
           l \in accepted /\ Missing(store, queue, delivery, l)
    BY <1>1, <1>10, <2>1, <2>2 DEF Missing
  <2>4. IsFiniteSet(accepted') /\ \A l \in accepted' : l.sku \in DOMAIN store'
    BY <1>1, <2>1 DEF AccountInv
  <2> QED  BY <1>11, <2>3, <2>4, AccountKept
<1>13. CASE /\ Reported(store, r.store, ToSet(r.uow.newMessages))
            /\ \A l : Deallocated(l) \notin ToSet(r.uow.newMessages)
            /\ \/ \E ref : HoldsIn(r.store, line, ref)
               \/ OutOfStock(line.sku) \in ToSet(r.uow.newMessages)
  <2>1. /\ DOMAIN store \subseteq DOMAIN store'
        /\ \A l : HeldIn(store, l) => HeldIn(store', l)
    BY <1>7, <1>13 DEF Reported, HeldIn
  <2>2. \A l \in accepted' : Missing(store', queue', delivery', l) =>
           \/ l \in accepted /\ Missing(store, queue, delivery, l)
           \/ l = line /\ refused'[l.sku] >= refused[l.sku] + 1
    <3> SUFFICES ASSUME NEW l \in accepted', Missing(store', queue', delivery', l)
                 PROVE  \/ l \in accepted /\ Missing(store, queue, delivery, l)
                        \/ l = line /\ refused'[l.sku] >= refused[l.sku] + 1
      OBVIOUS
    <3>1. CASE l = line
      <4>1. ~HeldIn(store', line)
        BY <3>1 DEF Missing
      <4>2. OutOfStock(line.sku) \in ToSet(r.uow.newMessages)
        BY <1>7, <1>13, <4>1 DEF HeldIn
      <4> QED  BY <1>11, <3>1, <4>2
    <3>2. CASE l # line
      BY <1>1, <1>10, <2>1, <3>2 DEF Missing
    <3> QED  BY <3>1, <3>2
  <2>3. IsFiniteSet(accepted') /\ \A l \in accepted' : l.sku \in DOMAIN store'
    BY <1>1, <2>1 DEF AccountInv
  <2> QED  BY <1>11, <2>2, <2>3, AccountKept
<1>14. r \in HandleAllocate(store, NewUnitOfWork, line)
  BY <1>7
<1> QED  BY <1>8, <1>12, <1>13, <1>14, ReallocateReported

\* With Reallocate subscribed, every step accounts for the lines.
LEMMA AccountStep ==
    ASSUME CommitsSucceed, ReallocateSubscribed, IInv, IInv',
           uow = NewUnitOfWork, AccountInv, [Next]_vars
    PROVE  AccountInv'
<1>1. \A l \in accepted : Deallocated(l) \in Event
  BY EventTypes DEF IInv, HistoryOK
<1>2. CASE (\/ \E command \in Commands : Request(command)
            \/ \E dto \in Dtos : \E command \in MakeCommand(dto) : Request(command))
           \/ FinishRequest
  <2>1. queue = <<>> /\ delivery = NoDelivery
    BY <1>2 DEF IInv, RequestOK, Request, FinishRequest
  <2>2. UNCHANGED <<store, refused, accepted>>
    BY <1>2 DEF Request, FinishRequest
  <2> QED  BY <2>1, <2>2, NothingAwaits, AccountUnmoved
<1>3. CASE BusHandlesCommand
  BY <1>3, AccountCommand
<1>4. CASE BusTakesEvent
  <2>1. UNCHANGED <<store, refused, accepted>>
    BY <1>4 DEF BusTakesEvent
  <2>2. \A l : "Reallocate" \in ToSet(SubscribersOf(Bus, Deallocated(l).type))
    BY DEF ReallocateSubscribed, Deallocated
  <2> QED  BY <1>1, <1>4, <2>1, <2>2, TakenReaches, AccountUnmoved
<1>5. ASSUME NEW due, Due(due), due # "Reallocate",
             NEW after, GoodUnit(after), Returns(after) \/ Throws(after),
             UNCHANGED <<store, refused, accepted>>
      PROVE  AccountInv'
  <2>1. \A l \in accepted :
           Reaches(queue, delivery, Deallocated(l), "Reallocate")
             => Reaches(queue', delivery', Deallocated(l), "Reallocate")
    BY <1>1, <1>5, SubscriberReaches
  <2> QED  BY <1>5, <2>1, AccountUnmoved
<1>6. CASE \/ AddAllocationToReadModel \/ RemoveAllocationFromReadModel
           \/ SendOutOfStockNotification
  <2>1. /\ \/ Due("AddAllocationToReadModel")
           \/ Due("RemoveAllocationFromReadModel")
           \/ Due("SendOutOfStockNotification")
        /\ Returns(uow) \/ Throws(uow)
        /\ UNCHANGED <<store, refused, accepted>>
    BY <1>6 DEF AddAllocationToReadModel, RemoveAllocationFromReadModel,
                SendOutOfStockNotification
  <2>2. GoodUnit(uow)
    BY DEF IInv
  <2> QED  BY <1>5, <2>1, <2>2
<1>7. CASE Reallocate
  BY <1>7, AccountReallocate
<1>8. CASE UNCHANGED vars
  BY <1>8, AccountUnmoved DEF vars
<1> QED
  BY <1>2, <1>3, <1>4, <1>6, <1>7, <1>8 DEF Next, BusStep

\* Between requests nothing awaits anything: what was refused is notified.
LEMMA AccountImplies ==
    ASSUME IInv, OnceInv, AccountInv
    PROVE  AcceptedLinesAccounted
<1> SUFFICES ASSUME ~serving, NEW sku \in Skus
             PROVE  Cardinality({l \in accepted : l.sku = sku /\ ~Held(l)})
                      <= emails[sku]
  BY DEF AcceptedLinesAccounted
<1> DEFINE lines == {l \in accepted : l.sku = sku /\ ~Held(l)}
<1>1. queue = <<>> /\ delivery = NoDelivery
  BY DEF IInv, RequestOK
<1>2. \A l \in accepted : ~Reaches(queue, delivery, Deallocated(l), "Reallocate")
  BY <1>1, NothingAwaits
<1>3. lines = Lost(sku)
  BY <1>2, HeldIsHeldIn DEF IInv, Lost, Missing
<1>4. Cardinality(Lost(sku)) <= refused[sku]
  BY DEF AccountInv
<1>5. refused[sku] = emails[sku]
  <2>1. uow.newMessages \in Seq(Event) /\ Len(uow.newMessages) = 0
    <3>1. uow.newMessages = <<>>
      BY DEF OnceInv, NewUnitOfWork
    <3>2. <<>> \in Seq(Event) /\ Len(<<>>) = 0
      BY EmptySeq
    <3> QED  BY <3>1, <3>2
  <2>2. queue \in Seq(Event) /\ Refusals(queue, sku) = 0
    BY <1>1, EmptySeq, RefusalsOfOne
  <2>3. DeliveryOK(delivery) /\ PassedOn(delivery, sku) = 0
    BY <1>1 DEF DeliveryOK, PassedOn
  <2>4. PendingIn(uow.newMessages, queue, delivery, sku)
           = Refusals(queue, sku) + PassedOn(delivery, sku)
    BY <2>1, <2>2, <2>3, PendingOfQueue
  <2>5. Pending(sku) = 0
    BY <2>2, <2>3, <2>4, PendingNow
  <2> QED  BY <2>5 DEF OnceInv, RefusalsNotifiedOnce, IInv, HistoryOK
<1> HIDE DEF lines
<1>6. Cardinality(lines) <= emails[sku]
  BY <1>3, <1>4, <1>5
<1> QED  BY <1>6 DEF lines

(***************************************************************************)
(* While Deallocated reaches Reallocate, OutOfStock has its one subscriber *)
(* and commits succeed, a line a client was told is allocated is never     *)
(* lost without a word: between requests a batch holds it, or for each     *)
(* line of the SKU that is held no longer a notification was sent.  A      *)
(* failing read model does not change that, nor do chains of reductions    *)
(* and reallocations of any length.                                        *)
(***************************************************************************)
THEOREM LinesAreAccountedFor ==
    ASSUME OneNotifier, CommitsSucceed, ReallocateSubscribed
    PROVE  Spec => []AcceptedLinesAccounted
<1>1. Init => IInv /\ OnceInv /\ AccountInv
  BY InitGood, OnceInit, AccountInit
<1>2. IInv /\ OnceInv /\ AccountInv /\ [Next]_vars
         => IInv' /\ OnceInv' /\ AccountInv'
  BY StepGood, OnceStep, AccountStep DEF OnceInv
<1>3. IInv /\ OnceInv /\ AccountInv => AcceptedLinesAccounted
  BY AccountImplies
<1> QED  BY <1>1, <1>2, <1>3, PTL DEF Spec

-----------------------------------------------------------------------------
(***************************************************************************)
(* The read model.  A row that is not so any more has a Deallocated event  *)
(* that will still delete it, and an Allocated event that will still add   *)
(* its row tells of a line that is held: only a reduction takes lines out  *)
(* of a batch, and a reduction is a command, taken when no event is left.  *)
(***************************************************************************)
StorageIsSafe == Failures = {}

RemoveSubscribed ==
    "RemoveAllocationFromReadModel" \in ToSet(SubscribersOf(Bus, "Deallocated"))

RowHeld(s, row) ==
    \E l, ref : HoldsIn(s, l, ref) /\ row = Row(l.reference, l.sku, ref)

Removing(q, d, row) ==
    \E l \in OrderLine :
        /\ Reaches(q, d, Deallocated(l), "RemoveAllocationFromReadModel")
        /\ row.orderid = l.reference
        /\ row.sku = l.sku

RowsInv ==
    /\ \A row \in DOMAIN view : RowHeld(store, row) \/ Removing(queue, delivery, row)
    /\ \A l \in OrderLine, ref \in Refs :
          Reaches(queue, delivery, Allocated(l, ref), "AddAllocationToReadModel")
             => HoldsIn(store, l, ref)

\* The rows of the lines that are held, in the two ways of saying it.
LEMMA HeldRowsAreRowsHeld ==
    ASSUME GoodStore(store), NEW row, RowHeld(store, row)
    PROVE  row \in HeldRows
<1>1. PICK l, ref : HoldsIn(store, l, ref) /\ row = Row(l.reference, l.sku, ref)
  BY DEF RowHeld
<1> QED  BY <1>1 DEF HeldRows, HoldsIn

\* A row joins the view.
LEMMA ViewGains ==
    ASSUME NEW bag, NEW row
    PROVE  DOMAIN (bag (+) SetToBag({row})) = DOMAIN bag \cup {row}
BY DEF (+), SetToBag

\* The view is empty at first, and no event is on its way.
LEMMA RowsInit ==
    ASSUME Init
    PROVE  RowsInv
<1>1. DOMAIN view = {}
  BY DEF Init, EmptyBag, SetToBag
<1>2. queue = <<>> /\ delivery = NoDelivery
  BY DEF Init
<1>3. \A event, s : ~Reaches(queue, delivery, event, s)
  BY <1>2, EmptyMap DEF Reaches, ToSet
<1> QED  BY <1>1, <1>3 DEF RowsInv

\* What an event reaches once a subscriber is done, it reached before, unless
\* the subscriber raised it.
LEMMA ReachedBefore ==
    ASSUME IInv, delivery # NoDelivery, NEW after, GoodUnit(after),
           Returns(after) \/ Throws(after),
           NEW event, NEW subscriber, event \notin ToSet(after.newMessages),
           Reaches(queue', delivery', event, subscriber)
    PROVE  Reaches(queue, delivery, event, subscriber)
<1> DEFINE left == delivery.left
<1>1. queue \in Seq(Event)
  BY DEF IInv, QueueOK
<1>2. event \in ToSet(queue') => event \in ToSet(queue)
  BY <1>1, QueueGrows
<1>3. delivery' = Delivering(delivery.event, Tail(left))
  BY DEF Returns, Throws
<1>4. left \in Seq(EventHandlerFor(delivery.event.type)) /\ left # <<>>
  BY DEF IInv, DeliveryOK
<1>5. ToSet(left) = {Head(left)} \cup ToSet(Tail(left))
  BY <1>4, SetOfHead
<1> HIDE DEF left
<1>6. ASSUME delivery' # NoDelivery
      PROVE  delivery'.event = delivery.event /\ delivery'.left = Tail(left)
  BY <1>3, <1>6 DEF Delivering
<1> QED  BY <1>2, <1>5, <1>6 DEF Reaches, left

\* An event that was taken from the queue was in it.
LEMMA TakenBefore ==
    ASSUME IInv, BusTakesEvent, NEW event, NEW subscriber,
           Reaches(queue', delivery', event, subscriber)
    PROVE  Reaches(queue, delivery, event, subscriber)
<1>1. queue \in Seq(Event) /\ queue # <<>>
  BY EventIsNoCommand DEF IInv, QueueOK, BusTakesEvent
<1>2. queue' = Tail(queue)
  BY DEF BusTakesEvent
<1>3. ToSet(queue) = {Head(queue)} \cup ToSet(queue')
  BY <1>1, <1>2, SetOfHead
<1>4. delivery' # NoDelivery => delivery'.event = Head(queue)
  BY DEF BusTakesEvent, Delivering
<1> QED  BY <1>3, <1>4 DEF Reaches

\* A step that leaves store and view alone: the events on their way to be
\* removed stay on it, and no other comes.
LEMMA RowsUnmoved ==
    ASSUME RowsInv, UNCHANGED <<store, view>>,
           \A l \in OrderLine :
              Reaches(queue, delivery, Deallocated(l), "RemoveAllocationFromReadModel")
              => Reaches(queue', delivery', Deallocated(l),
                         "RemoveAllocationFromReadModel"),
           \A l \in OrderLine, ref \in Refs :
              Reaches(queue', delivery', Allocated(l, ref), "AddAllocationToReadModel")
              => Reaches(queue, delivery, Allocated(l, ref),
                         "AddAllocationToReadModel")
    PROVE  RowsInv'
<1>1. \A row \in DOMAIN view' : RowHeld(store', row) \/ Removing(queue', delivery', row)
  BY DEF RowsInv, Removing
<1>2. \A l \in OrderLine, ref \in Refs :
         Reaches(queue', delivery', Allocated(l, ref), "AddAllocationToReadModel")
             => HoldsIn(store', l, ref)
  BY DEF RowsInv
<1> QED  BY <1>1, <1>2 DEF RowsInv

\* A command: a row of a line that leaves a batch is to be removed.
LEMMA RowsCommand ==
    ASSUME CommitsSucceed, IInv, uow = NewUnitOfWork, RowsInv,
           BusHandlesCommand
    PROVE  RowsInv'
<1>1. PICK command \in Command : queue = <<command>> /\ delivery = NoDelivery
  <2>1. queue \notin Seq(Event)
    BY EventIsNoCommand, HeadTailProperties DEF BusHandlesCommand
  <2> QED  BY <2>1 DEF IInv, QueueOK
<1>2. Head(queue) = command /\ Tail(queue) = <<>>
  BY <1>1
<1>3. PICK r \in Called(command) :
         /\ store' = r.store
         /\ IF r.threw
            THEN queue' = <<>>
            ELSE queue' = Tail(queue) \o r.uow.newMessages
  BY <1>2 DEF BusHandlesCommand
<1>4. /\ GoodStore(store) /\ queue # <<>> /\ ~IsEvent(Head(queue))
      /\ view' = view /\ delivery' = NoDelivery
  BY <1>1 DEF IInv, BusHandlesCommand
<1>5. \A row \in DOMAIN view : RowHeld(store, row)
  BY <1>4, NothingAwaits DEF RowsInv, Removing
<1>6. CASE r.threw = TRUE /\ r.store = store
  <2>1. queue' = <<>> /\ store' = store
    BY <1>3, <1>6
  <2>2. \A event, s : ~Reaches(queue', delivery', event, s)
    BY <1>4, <2>1, EmptyMap DEF Reaches, ToSet
  <2> QED  BY <1>4, <1>5, <2>1, <2>2 DEF RowsInv
<1>7. CASE /\ r.threw = FALSE
           /\ r.uow.newMessages \in Seq(Event)
           /\ Reported(store, r.store, ToSet(r.uow.newMessages))
  <2> DEFINE m == r.uow.newMessages
  <2>1. Reported(store, store', ToSet(m))
    BY <1>3, <1>7
  <2>2. queue' = m
    BY <1>2, <1>3, <1>7, ConcatEmptySeq
  <2> HIDE DEF m
  <2>3. \A event, s : Reaches(queue', delivery', event, s) <=> event \in ToSet(m)
    BY <1>4, <2>2 DEF Reaches
  <2>4. ASSUME NEW row \in DOMAIN view
        PROVE  RowHeld(store', row) \/ Removing(queue', delivery', row)
    <3>1. PICK l, ref : HoldsIn(store, l, ref) /\ row = Row(l.reference, l.sku, ref)
      BY <1>5 DEF RowHeld
    <3>2. CASE HoldsIn(store', l, ref)
      BY <3>1, <3>2 DEF RowHeld
    <3>3. CASE Deallocated(l) \in ToSet(m)
      <4>1. l \in OrderLine
        BY <1>4, <3>1 DEF HoldsIn, GoodStore, GoodProducts, Good, Sound,
                          ProductOK, BatchesOK, BatchType
      <4>2. row.orderid = l.reference /\ row.sku = l.sku
        BY <3>1 DEF Row
      <4> QED  BY <2>3, <3>3, <4>1, <4>2 DEF Removing
    <3> QED  BY <2>1, <3>1, <3>2, <3>3 DEF Reported
  <2>5. \A l \in OrderLine, ref \in Refs :
           Reaches(queue', delivery', Allocated(l, ref), "AddAllocationToReadModel")
              => HoldsIn(store', l, ref)
    BY <2>1, <2>3 DEF Reported
  <2> QED  BY <1>4, <2>4, <2>5 DEF RowsInv
<1> QED  BY <1>4, <1>6, <1>7, CommandReported

\* A row is added: its event is about to leave the bus, and tells of a line
\* that is held.
LEMMA RowsAdded ==
    ASSUME StorageIsSafe, IInv, uow = NewUnitOfWork, RowsInv,
           AddAllocationToReadModel
    PROVE  RowsInv'
<1> DEFINE add == "AddAllocationToReadModel"
           event == delivery.event
           row   == Row(event.line.reference, event.line.sku, event.batchref)
<1>1. Due(add) /\ Returns(uow) /\ store' = store /\ GoodUnit(uow)
  BY DEF AddAllocationToReadModel, StorageIsSafe, IInv
<1>2. view' = view (+) SetToBag({row})
  BY DEF AddAllocationToReadModel, StorageIsSafe
<1>3. DOMAIN view' = DOMAIN view \cup {row}
  BY <1>2, ViewGains
<1>4. delivery # NoDelivery /\ Head(delivery.left) = add
  BY <1>1 DEF Due
<1>5. /\ delivery.left \in Seq(EventHandlerFor(event.type)) /\ delivery.left # <<>>
      /\ event \in Event
  BY <1>4 DEF IInv, DeliveryOK
<1>6. add \in EventHandlerFor(event.type) /\ add \in ToSet(delivery.left)
  BY <1>4, <1>5, HeadTailProperties, SetOfHead
<1>7. event \in [type : {"Allocated"}, line : OrderLine, batchref : Refs]
  BY <1>5, <1>6 DEF Event, EventHandlerFor
<1>8. PICK l \in OrderLine, ref \in Refs : event = Allocated(l, ref)
  BY <1>7 DEF Allocated
<1>9. HoldsIn(store, l, ref)
  BY <1>4, <1>6, <1>8 DEF RowsInv, Reaches
<1>10. row = Row(l.reference, l.sku, ref)
  BY <1>8 DEF Allocated
<1> HIDE DEF event, row
<1>11. ASSUME NEW k \in OrderLine,
              Reaches(queue, delivery, Deallocated(k), "RemoveAllocationFromReadModel")
       PROVE  Reaches(queue', delivery', Deallocated(k), "RemoveAllocationFromReadModel")
  BY <1>1, <1>11, EventTypes, SubscriberReaches
<1>12. ToSet(uow.newMessages) = {}
  BY EmptyMap DEF NewUnitOfWork, ToSet
<1>13. \A k \in OrderLine, t \in Refs :
          Reaches(queue', delivery', Allocated(k, t), add)
             => Reaches(queue, delivery, Allocated(k, t), add)
  BY <1>1, <1>4, <1>12, ReachedBefore
<1>14. \A x \in DOMAIN view' : RowHeld(store', x) \/ Removing(queue', delivery', x)
  BY <1>1, <1>3, <1>9, <1>10, <1>11 DEF RowsInv, Removing, RowHeld
<1>15. \A k \in OrderLine, t \in Refs :
          Reaches(queue', delivery', Allocated(k, t), add) => HoldsIn(store', k, t)
  BY <1>1, <1>13 DEF RowsInv
<1> QED  BY <1>14, <1>15 DEF RowsInv

\* The rows of an order and SKU are removed, those not so any more included.
LEMMA RowsRemoved ==
    ASSUME StorageIsSafe, IInv, uow = NewUnitOfWork, RowsInv,
           RemoveAllocationFromReadModel
    PROVE  RowsInv'
<1> DEFINE remove == "RemoveAllocationFromReadModel"
           line == delivery.event.line
<1>1. Due(remove) /\ Returns(uow) /\ store' = store /\ GoodUnit(uow)
  BY DEF RemoveAllocationFromReadModel, StorageIsSafe, IInv
<1>2. view' = [row \in RowsWithout(line) |-> view[row]]
  BY DEF RemoveAllocationFromReadModel, StorageIsSafe
<1>3. DOMAIN view' = {row \in DOMAIN view :
                        ~(row.orderid = line.reference /\ row.sku = line.sku)}
  BY <1>2 DEF RowsWithout
<1>4. ASSUME NEW k \in OrderLine,
             Reaches(queue, delivery, Deallocated(k), remove), k # line
      PROVE  Reaches(queue', delivery', Deallocated(k), remove)
  <2>1. delivery.event # Deallocated(k)
    BY <1>4 DEF Deallocated
  <2> QED  BY <1>1, <1>4, <2>1, EventTypes, SubscriberReaches
<1>5. ToSet(uow.newMessages) = {}
  BY EmptyMap DEF NewUnitOfWork, ToSet
<1>6. \A k \in OrderLine, t \in Refs :
         Reaches(queue', delivery', Allocated(k, t), "AddAllocationToReadModel")
           => Reaches(queue, delivery, Allocated(k, t), "AddAllocationToReadModel")
  BY <1>1, <1>5, ReachedBefore DEF Due
<1> HIDE DEF line
<1>7. \A x \in DOMAIN view' : RowHeld(store', x) \/ Removing(queue', delivery', x)
  <2> SUFFICES ASSUME NEW x \in DOMAIN view'
               PROVE  RowHeld(store', x) \/ Removing(queue', delivery', x)
    OBVIOUS
  <2>1. x \in DOMAIN view /\ ~(x.orderid = line.reference /\ x.sku = line.sku)
    BY <1>3
  <2>2. RowHeld(store, x) \/ Removing(queue, delivery, x)
    BY <2>1 DEF RowsInv
  <2>3. CASE Removing(queue, delivery, x)
    <3>1. PICK k \in OrderLine : /\ Reaches(queue, delivery, Deallocated(k), remove)
                                 /\ x.orderid = k.reference
                                 /\ x.sku = k.sku
      BY <2>3 DEF Removing
    <3>2. Reaches(queue', delivery', Deallocated(k), remove)
      BY <1>4, <2>1, <3>1
    <3> QED  BY <3>1, <3>2 DEF Removing
  <2> QED  BY <1>1, <2>2, <2>3
<1>8. \A k \in OrderLine, t \in Refs :
         Reaches(queue', delivery', Allocated(k, t), "AddAllocationToReadModel")
            => HoldsIn(store', k, t)
  BY <1>1, <1>6 DEF RowsInv
<1> QED  BY <1>7, <1>8 DEF RowsInv

\* Reallocate throws out no line: rows that are so stay so.
LEMMA RowsReallocate ==
    ASSUME CommitsSucceed, IInv, uow = NewUnitOfWork, RowsInv, Reallocate
    PROVE  RowsInv'
<1> DEFINE remove == "RemoveAllocationFromReadModel"
           add == "AddAllocationToReadModel"
<1>1. Due("Reallocate") /\ delivery # NoDelivery /\ view' = view
  BY DEF Reallocate, Due
<1>2. /\ delivery.event \in Event
      /\ "Reallocate" \in EventHandlerFor(delivery.event.type)
  BY <1>1, HeadTailProperties DEF IInv, DeliveryOK, Due
<1>3. delivery.event.line \in OrderLine
  BY <1>2 DEF Event, EventHandlerFor
<1>4. PICK line \in OrderLine : line = delivery.event.line
  BY <1>3
<1>5. PICK r \in HandleAllocate(store, uow, line) :
         /\ store' = r.store
         /\ IF r.threw THEN Throws(r.uow) ELSE Returns(r.uow)
  BY <1>4 DEF Reallocate
<1>6. GoodUnit(r.uow) /\ GoodStore(store) /\ r \in HandleAllocate(store, NewUnitOfWork, line)
  BY <1>5, HandleAllocateGood DEF IInv, GoodResult
<1>7. Returns(r.uow) \/ Throws(r.uow)
  BY <1>5
<1> DEFINE m == r.uow.newMessages
<1>8. /\ \A l, ref : HoldsIn(store, l, ref) => HoldsIn(store', l, ref)
      /\ \A l, ref : Allocated(l, ref) \in ToSet(m) => HoldsIn(store', l, ref)
  <2>1. CASE r = Threw(store, NewUnitOfWork)
    <3>1. store' = store /\ m = <<>>
      BY <1>5, <2>1, ResultFields DEF NewUnitOfWork
    <3>2. ToSet(m) = {}
      BY <3>1, EmptyMap DEF ToSet
    <3> QED  BY <3>1, <3>2
  <2>2. CASE /\ Reported(store, r.store, ToSet(m))
             /\ \A l : Deallocated(l) \notin ToSet(m)
    BY <1>5, <2>2 DEF Reported
  <2> QED  BY <1>6, <2>1, <2>2, ReallocateReported
<1> HIDE DEF m
<1>9. ASSUME NEW l \in OrderLine, Reaches(queue, delivery, Deallocated(l), remove)
      PROVE  Reaches(queue', delivery', Deallocated(l), remove)
  BY <1>1, <1>6, <1>7, <1>9, EventTypes, SubscriberReaches
<1>10. ASSUME NEW l \in OrderLine, NEW ref \in Refs,
              Reaches(queue', delivery', Allocated(l, ref), add)
       PROVE  HoldsIn(store', l, ref)
  <2>1. CASE Allocated(l, ref) \in ToSet(m)
    BY <1>8, <2>1
  <2>2. CASE Allocated(l, ref) \notin ToSet(m)
    <3>1. Reaches(queue, delivery, Allocated(l, ref), add)
      BY <1>1, <1>6, <1>7, <1>10, <2>2, ReachedBefore DEF m
    <3> QED  BY <1>8, <3>1 DEF RowsInv
  <2> QED  BY <2>1, <2>2
<1>11. \A x \in DOMAIN view' : RowHeld(store', x) \/ Removing(queue', delivery', x)
  BY <1>1, <1>8, <1>9 DEF RowsInv, Removing, RowHeld
<1> QED  BY <1>10, <1>11 DEF RowsInv

\* With the removing subscriber in place, every step keeps the rows true.
LEMMA RowsStep ==
    ASSUME StorageIsSafe, RemoveSubscribed, IInv, uow = NewUnitOfWork,
           RowsInv, [Next]_vars
    PROVE  RowsInv'
<1> DEFINE remove == "RemoveAllocationFromReadModel"
           add == "AddAllocationToReadModel"
<1>1. CommitsSucceed
  BY DEF StorageIsSafe, CommitsSucceed
<1>2. /\ \A l \in OrderLine : Deallocated(l) \in Event
      /\ \A l \in OrderLine, ref \in Refs : Allocated(l, ref) \in Event
  BY EventTypes
<1>3. CASE (\/ \E command \in Commands : Request(command)
            \/ \E dto \in Dtos : \E command \in MakeCommand(dto) : Request(command))
           \/ FinishRequest
  <2>1. /\ queue = <<>> /\ delivery = NoDelivery /\ delivery' = NoDelivery
        /\ UNCHANGED <<store, view>>
    BY <1>3 DEF IInv, RequestOK, Request, FinishRequest
  <2>2. queue' = <<>> \/ \E command \in Command : queue' = <<command>>
    BY <1>3, <2>1, RequestsAreCommands DEF Request, FinishRequest
  <2>3. \A l, ref : Allocated(l, ref) \notin ToSet(queue')
    <3>1. CASE queue' = <<>>
      BY <3>1, EmptyMap DEF ToSet
    <3>2. CASE \E command \in Command : queue' = <<command>>
      <4>1. PICK command \in Command : queue' = <<command>>
        BY <3>2
      <4>2. ToSet(queue') = {command}
        BY <4>1 DEF ToSet
      <4>3. \A l, ref : Allocated(l, ref) # command
        BY EventTypes DEF Allocated, CommandType
      <4> QED  BY <4>2, <4>3
    <3> QED  BY <2>2, <3>1, <3>2
  <2>4. \A l, ref : ~Reaches(queue', delivery', Allocated(l, ref), add)
    BY <2>1, <2>3 DEF Reaches
  <2>5. \A l : ~Reaches(queue, delivery, Deallocated(l), remove)
    BY <2>1, NothingAwaits
  <2> QED  BY <2>1, <2>4, <2>5, RowsUnmoved
<1>4. CASE BusHandlesCommand
  BY <1>1, <1>4, RowsCommand
<1>5. CASE BusTakesEvent
  <2>1. UNCHANGED <<store, view>>
    BY <1>5 DEF BusTakesEvent
  <2>2. \A l : remove \in ToSet(SubscribersOf(Bus, Deallocated(l).type))
    BY DEF RemoveSubscribed, Deallocated
  <2>3. \A l \in OrderLine : Reaches(queue, delivery, Deallocated(l), remove)
           => Reaches(queue', delivery', Deallocated(l), remove)
    BY <1>2, <1>5, <2>2, TakenReaches
  <2>4. \A l \in OrderLine, ref \in Refs :
           Reaches(queue', delivery', Allocated(l, ref), add)
              => Reaches(queue, delivery, Allocated(l, ref), add)
    BY <1>5, TakenBefore
  <2> QED  BY <2>1, <2>3, <2>4, RowsUnmoved
<1>6. CASE AddAllocationToReadModel
  BY <1>6, RowsAdded
<1>7. CASE RemoveAllocationFromReadModel
  BY <1>7, RowsRemoved
<1>8. CASE SendOutOfStockNotification
  <2>1. /\ Due("SendOutOfStockNotification") /\ Returns(uow)
        /\ UNCHANGED <<store, view>> /\ GoodUnit(uow)
    BY <1>8 DEF SendOutOfStockNotification, IInv
  <2>2. ToSet(uow.newMessages) = {}
    BY EmptyMap DEF NewUnitOfWork, ToSet
  <2>3. \A l \in OrderLine : Reaches(queue, delivery, Deallocated(l), remove)
           => Reaches(queue', delivery', Deallocated(l), remove)
    BY <1>2, <2>1, SubscriberReaches
  <2>4. \A l \in OrderLine, ref \in Refs :
           Reaches(queue', delivery', Allocated(l, ref), add)
              => Reaches(queue, delivery, Allocated(l, ref), add)
    BY <2>1, <2>2, ReachedBefore DEF Due
  <2> QED  BY <2>1, <2>3, <2>4, RowsUnmoved
<1>9. CASE Reallocate
  BY <1>1, <1>9, RowsReallocate
<1>10. CASE UNCHANGED vars
  BY <1>10, RowsUnmoved DEF vars
<1> QED
  BY <1>3, <1>4, <1>5, <1>6, <1>7, <1>8, <1>9, <1>10 DEF Next, BusStep

\* Between requests no row is still to be removed.
LEMMA RowsImply ==
    ASSUME IInv, RowsInv
    PROVE  RowsAreHeld
<1> SUFFICES ASSUME ~serving, NEW row \in DOMAIN view
             PROVE  row \in HeldRows
  BY DEF RowsAreHeld
<1>1. queue = <<>> /\ delivery = NoDelivery
  BY DEF IInv, RequestOK
<1>2. ~Removing(queue, delivery, row)
  BY <1>1, NothingAwaits DEF Removing
<1>3. RowHeld(store, row)
  BY <1>2 DEF RowsInv
<1> QED  BY <1>3, HeldRowsAreRowsHeld DEF IInv

(***************************************************************************)
(* While the storage does not fail and Deallocated reaches the subscriber  *)
(* that removes rows, the read model shows nothing between requests that   *)
(* is not so, wherever that subscriber stands among those of the bus and   *)
(* whatever the others are: every row is the allocation of a line of its   *)
(* order to its batch.                                                     *)
(***************************************************************************)
THEOREM ReadModelIsTrue ==
    ASSUME StorageIsSafe, RemoveSubscribed
    PROVE  Spec => []RowsAreHeld
<1>1. CommitsSucceed
  BY DEF StorageIsSafe, CommitsSucceed
<1>2. Init => IInv /\ uow = NewUnitOfWork /\ RowsInv
  BY InitGood, RowsInit DEF Init
<1>3. IInv /\ uow = NewUnitOfWork /\ RowsInv /\ [Next]_vars
         => IInv' /\ (uow = NewUnitOfWork)' /\ RowsInv'
  BY <1>1, StepGood, UnitStaysNew, RowsStep
<1>4. IInv /\ uow = NewUnitOfWork /\ RowsInv => RowsAreHeld
  BY RowsImply
<1> QED  BY <1>2, <1>3, <1>4, PTL DEF Spec
=============================================================================
