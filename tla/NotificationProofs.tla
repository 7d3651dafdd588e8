-------------------------- MODULE NotificationProofs --------------------------
(***************************************************************************)
(* Theorems about the events of AllocationService on their way from the    *)
(* aggregates through the unit of work and the queue of the bus to the     *)
(* mailbox: for every set of commands and every width of the integers no   *)
(* refusal is notified twice, and none is lost unless a commit fails.      *)
(***************************************************************************)
EXTENDS ServiceProofs

-----------------------------------------------------------------------------
(***************************************************************************)
(* Counting the refusals among the messages of a sequence.                 *)
(***************************************************************************)

\* The refusals in two sequences, one after the other.
LEMMA RefusalsConcat ==
    ASSUME NEW s \in Seq(Event), NEW t \in Seq(Event), NEW sku
    PROVE  Refusals(s \o t, sku) = Refusals(s, sku) + Refusals(t, sku)
<1> DEFINE R(m) == {i \in DOMAIN m : m[i].type = "OutOfStock" /\ m[i].sku = sku}
           n == Len(s)
           moved == {i \in n + 1 .. n + Len(t) : i - n \in R(t)}
           f == [i \in R(t) |-> n + i]
<1>1. /\ DOMAIN s = 1 .. n /\ n \in Nat
      /\ DOMAIN t = 1 .. Len(t) /\ Len(t) \in Nat
  BY LenProperties
<1>2. /\ DOMAIN (s \o t) = 1 .. n + Len(t)
      /\ \A i \in 1 .. n : (s \o t)[i] = s[i]
      /\ \A i \in n + 1 .. n + Len(t) : (s \o t)[i] = t[i - n]
  BY <1>1, ConcatProperties, LenProperties
<1>3. \A i \in n + 1 .. n + Len(t) : i - n \in DOMAIN t
  BY <1>1
<1>4. R(s \o t) = R(s) \cup moved
  <2>1. \A i \in R(s \o t) : i \in R(s) \cup moved
    <3> SUFFICES ASSUME NEW i \in R(s \o t) PROVE i \in R(s) \cup moved
      OBVIOUS
    <3>1. CASE i <= n
      <4>1. i \in 1 .. n
        BY <1>1, <1>2, <3>1
      <4> QED  BY <1>1, <1>2, <4>1
    <3>2. CASE i > n
      <4>1. i \in n + 1 .. n + Len(t)
        BY <1>1, <1>2, <3>2
      <4> QED  BY <1>2, <1>3, <4>1
    <3> QED  BY <1>1, <1>2, <3>1, <3>2
  <2>2. \A i \in R(s) : i \in R(s \o t)
    BY <1>1, <1>2
  <2>3. \A i \in moved : i \in R(s \o t)
    BY <1>1, <1>2
  <2> HIDE DEF R, moved
  <2> QED  BY <2>1, <2>2, <2>3
<1>5. R(s) \cap moved = {}
  BY <1>1
<1>6. IsFiniteSet(R(s)) /\ IsFiniteSet(R(t))
  <2>1. IsFiniteSet(DOMAIN s) /\ IsFiniteSet(DOMAIN t)
    BY <1>1, FS_Interval
  <2>2. R(s) \in SUBSET DOMAIN s /\ R(t) \in SUBSET DOMAIN t
    OBVIOUS
  <2> HIDE DEF R
  <2> QED  BY <2>1, <2>2, FS_Subset
<1>7. f \in Bijection(R(t), moved)
  <2>1. \A i \in R(t) : n + i \in moved
    BY <1>1
  <2>2. \A i \in moved : i - n \in R(t) /\ n + (i - n) = i
    BY <1>1
  <2>3. \A i, j \in R(t) : n + i = n + j => i = j
    BY <1>1
  <2> HIDE DEF R, moved
  <2>4. f \in [R(t) -> moved]
    BY <2>1
  <2>5. \A i \in moved : \E j \in R(t) : f[j] = i
    BY <2>2
  <2> QED  BY <2>3, <2>4, <2>5 DEF Bijection, Injection, Surjection, IsInjective
<1> HIDE DEF R, moved, f
<1>8. IsFiniteSet(moved) /\ Cardinality(moved) = Cardinality(R(t))
  BY <1>6, <1>7, FS_Bijection DEF ExistsBijection
<1>9. Cardinality(R(s) \cup moved) = Cardinality(R(s)) + Cardinality(moved)
  <2>1. Cardinality(R(s) \cap moved) = 0
    BY <1>5, FS_EmptySet
  <2>2. Cardinality(R(s)) \in Nat /\ Cardinality(moved) \in Nat
    BY <1>6, <1>8, FS_CardinalityType
  <2>3. Cardinality(R(s) \cup moved)
           = Cardinality(R(s)) + Cardinality(moved) - Cardinality(R(s) \cap moved)
    BY <1>6, <1>8, FS_Union
  <2> QED  BY <2>1, <2>2, <2>3
<1> QED  BY <1>4, <1>8, <1>9 DEF R, Refusals

\* The refusals in no message and in one.
LEMMA RefusalsOfOne ==
    ASSUME NEW sku \in Skus
    PROVE  /\ Refusals(<<>>, sku) = 0
           /\ \A e \in Event :
                Refusals(<<e>>, sku) = IF e = OutOfStock(sku) THEN 1 ELSE 0
           /\ \A c \in Command : Refusals(<<c>>, sku) = 0
<1>1. Refusals(<<>>, sku) = 0
  <2>1. {i \in DOMAIN <<>> : <<>>[i].type = "OutOfStock" /\ <<>>[i].sku = sku} = {}
    BY EmptyMap
  <2> QED  BY <2>1, FS_EmptySet DEF Refusals
<1>2. ASSUME NEW e
      PROVE  Refusals(<<e>>, sku)
               = IF e.type = "OutOfStock" /\ e.sku = sku THEN 1 ELSE 0
  <2> DEFINE R == {i \in DOMAIN <<e>> :
                      <<e>>[i].type = "OutOfStock" /\ <<e>>[i].sku = sku}
  <2>1. DOMAIN <<e>> = {1} /\ <<e>>[1] = e
    OBVIOUS
  <2>2. R = IF e.type = "OutOfStock" /\ e.sku = sku THEN {1} ELSE {}
    BY <2>1
  <2>3. Cardinality({1}) = 1 /\ Cardinality({}) = 0
    BY FS_Singleton, FS_EmptySet
  <2> HIDE DEF R
  <2>4. Cardinality(R) = IF e.type = "OutOfStock" /\ e.sku = sku THEN 1 ELSE 0
    BY <2>2, <2>3
  <2> QED  BY <2>4 DEF R, Refusals
<1>3. \A e \in Event : (e.type = "OutOfStock" /\ e.sku = sku) <=> e = OutOfStock(sku)
  BY DEF Event, OutOfStock
<1>4. \A c \in Command : c.type # "OutOfStock"
  BY DEF Command
<1> QED  BY <1>1, <1>2, <1>3, <1>4

\* A sequence is its first message and then the others.
LEMMA HeadThenTail ==
    ASSUME NEW S, NEW s \in Seq(S), s # <<>>
    PROVE  s = <<Head(s)>> \o Tail(s)
<1>1. /\ Head(s) \in S /\ Tail(s) \in Seq(S)
      /\ Len(Tail(s)) = Len(s) - 1
      /\ \A i \in 1 .. Len(Tail(s)) : Tail(s)[i] = s[i + 1]
  BY HeadTailProperties
<1>2. Len(s) \in Nat /\ Len(s) >= 1 /\ Head(s) = s[1]
  BY LenProperties, EmptySeq
<1>3. PICK h : h = <<Head(s)>>
  OBVIOUS
<1>4. PICK t : t = Tail(s)
  OBVIOUS
<1>5. h \in Seq(S) /\ Len(h) = 1 /\ h[1] = s[1]
  BY <1>1, <1>2, <1>3
<1>6. /\ h \o t \in Seq(S) /\ Len(h \o t) = Len(s)
      /\ \A i \in 1 .. Len(s) : (h \o t)[i] = IF i <= 1 THEN h[i] ELSE t[i - 1]
  <2>1. t \in Seq(S) /\ Len(h) + Len(t) = Len(s)
    BY <1>1, <1>2, <1>4, <1>5
  <2>2. /\ h \o t \in Seq(S) /\ Len(h \o t) = Len(h) + Len(t)
        /\ \A i \in 1 .. Len(h) + Len(t) :
              (h \o t)[i] = IF i <= Len(h) THEN h[i] ELSE t[i - Len(h)]
    BY <1>5, <2>1, ConcatProperties
  <2> QED  BY <1>5, <2>1, <2>2
<1>7. \A i \in 1 .. Len(s) : (h \o t)[i] = s[i]
  <2> SUFFICES ASSUME NEW i \in 1 .. Len(s) PROVE (h \o t)[i] = s[i]
    OBVIOUS
  <2>1. CASE i = 1
    BY <1>2, <1>5, <1>6, <2>1
  <2>2. CASE i # 1
    <3>1. i - 1 \in 1 .. Len(Tail(s)) /\ (i - 1) + 1 = i
      BY <1>1, <1>2, <2>2
    <3>2. t[i - 1] = s[i]
      BY <1>1, <1>4, <3>1
    <3>3. (h \o t)[i] = t[i - 1]
      BY <1>2, <1>6, <2>2
    <3> QED  BY <3>2, <3>3
  <2> QED  BY <2>1, <2>2
<1> QED  BY <1>3, <1>4, <1>6, <1>7, SeqEqual

\* The first message of a sequence and the others.
LEMMA RefusalsOfHead ==
    ASSUME NEW s \in Seq(Event), s # <<>>, NEW sku \in Skus
    PROVE  Refusals(s, sku) = (IF Head(s) = OutOfStock(sku) THEN 1 ELSE 0)
                                 + Refusals(Tail(s), sku)
<1>1. Head(s) \in Event /\ Tail(s) \in Seq(Event)
  BY HeadTailProperties
<1>2. <<Head(s)>> \in Seq(Event)
  BY <1>1
<1>3. s = <<Head(s)>> \o Tail(s)
  BY HeadThenTail
<1>4. Refusals(<<Head(s)>> \o Tail(s), sku)
         = Refusals(<<Head(s)>>, sku) + Refusals(Tail(s), sku)
  BY <1>1, <1>2, RefusalsConcat
<1>5. Refusals(<<Head(s)>>, sku) = IF Head(s) = OutOfStock(sku) THEN 1 ELSE 0
  BY <1>1, RefusalsOfOne
<1> QED  BY <1>3, <1>4, <1>5

\* What a unit of work raised is what was appended to its messages.
LEMMA RaisedIsAppended ==
    ASSUME NEW before, before.newMessages \in Seq(Event), NEW m \in Seq(Event),
           NEW after, after.newMessages = before.newMessages \o m
    PROVE  Raised(before, after) = m
<1> DEFINE s == before.newMessages
           n == Len(s)
<1>1. s \in Seq(Event) /\ n \in Nat /\ Len(m) \in Nat
  BY LenProperties
<1>2. Raised(before, after) = SubSeq(s \o m, n + 1, n + Len(m))
  BY <1>1, ConcatProperties DEF Raised
<1> HIDE DEF s
<1>3. CASE m = <<>>
  <2>1. Len(m) = 0
    BY <1>3
  <2>2. SubSeq(s \o m, n + 1, n + Len(m)) = <<>>
    BY <1>1, <2>1, SubSeqEmpty
  <2> QED  BY <1>2, <1>3, <2>2
<1>4. CASE m # <<>>
  <2>1. Len(m) > 0
    BY <1>1, <1>4, EmptySeq
  <2>2. SubSeq(s \o m, n + 1, n + Len(m))
           = SubSeq(m, n + 1 - n, n + Len(m) - n)
    BY <1>1, <2>1, SubSeqOfConcat2
  <2>3. n + 1 - n = 1 /\ n + Len(m) - n = Len(m)
    BY <1>1
  <2> QED  BY <1>2, <2>2, <2>3, SubSeqFull
<1> QED  BY <1>3, <1>4

-----------------------------------------------------------------------------
(***************************************************************************)
(* What is on its way to the mailbox.                                      *)
(***************************************************************************)

\* The event being handled is a refusal of this SKU: 1, or 0 if not.
PassedOn(d, sku) == IF d # NoDelivery /\ d.event = OutOfStock(sku) THEN 1 ELSE 0

\* Pending, of any messages of a unit of work, queue and delivery.
PendingIn(n, q, d, sku) ==
    Refusals(n \o q, sku)
      + Cardinality({e \in {d.event} : e # <<>> /\ e = OutOfStock(sku)})

\* What is pending now and after the step, in one form.
LEMMA PendingNow ==
    ASSUME NEW sku
    PROVE  /\ Pending(sku) = PendingIn(uow.newMessages, queue, delivery, sku)
           /\ Pending(sku)' = PendingIn(uow'.newMessages, queue', delivery', sku)
BY DEF Pending, PendingIn

\* The set that Pending counts has the event being handled in it, or nothing.
LEMMA DeliveryCounted ==
    ASSUME NEW d, DeliveryOK(d), NEW sku \in Skus
    PROVE  Cardinality({e \in {d.event} : e # <<>> /\ e = OutOfStock(sku)})
             = PassedOn(d, sku)
<1> DEFINE E == {e \in {d.event} : e # <<>> /\ e = OutOfStock(sku)}
<1>1. CASE d = NoDelivery
  <2>1. d.event = <<>>
    BY <1>1 DEF NoDelivery
  <2>2. E = {}
    BY <2>1
  <2> QED  BY <1>1, <2>2, FS_EmptySet DEF PassedOn
<1>2. CASE d # NoDelivery
  <2>1. <<>> # OutOfStock(sku)
    <3>1. DOMAIN OutOfStock(sku) = {"type", "sku"}
      BY DEF OutOfStock
    <3> QED  BY <3>1, EmptyMap
  <2>2. E = IF d.event = OutOfStock(sku) THEN {d.event} ELSE {}
    BY <2>1
  <2>3. Cardinality({d.event}) = 1 /\ Cardinality({}) = 0
    BY FS_Singleton, FS_EmptySet
  <2> HIDE DEF E
  <2>4. Cardinality(E) = IF d.event = OutOfStock(sku) THEN 1 ELSE 0
    BY <2>2, <2>3
  <2> QED  BY <1>2, <2>4 DEF PassedOn, E
<1> QED  BY <1>1, <1>2

\* Events only: those of the unit of work, those of the queue and the one
\* being handled.
LEMMA PendingOfEvents ==
    ASSUME NEW n \in Seq(Event), NEW q \in Seq(Event),
           NEW d, DeliveryOK(d), NEW sku \in Skus
    PROVE  /\ PendingIn(n, q, d, sku)
                = Refusals(n, sku) + Refusals(q, sku) + PassedOn(d, sku)
           /\ Refusals(n, sku) \in Nat
           /\ Refusals(q, sku) \in Nat
           /\ PassedOn(d, sku) \in Nat
<1>1. Refusals(n \o q, sku) = Refusals(n, sku) + Refusals(q, sku)
  BY RefusalsConcat
<1>2. Refusals(n, sku) \in Nat /\ Refusals(q, sku) \in Nat
  BY RefusalsType
<1>3. PassedOn(d, sku) \in Nat
  BY DEF PassedOn
<1> QED  BY <1>1, <1>2, <1>3, DeliveryCounted DEF PendingIn

\* A unit of work without messages.
LEMMA PendingOfQueue ==
    ASSUME NEW n \in Seq(Event), Len(n) = 0, NEW q \in Seq(Event),
           NEW d, DeliveryOK(d), NEW sku \in Skus
    PROVE  PendingIn(n, q, d, sku) = Refusals(q, sku) + PassedOn(d, sku)
<1>1. Refusals(n, sku) = 0
  <2>1. DOMAIN n = {}
    BY LenProperties
  <2>2. {i \in DOMAIN n : n[i].type = "OutOfStock" /\ n[i].sku = sku} = {}
    BY <2>1
  <2> QED  BY <2>2, FS_EmptySet DEF Refusals
<1>2. /\ PendingIn(n, q, d, sku)
            = Refusals(n, sku) + Refusals(q, sku) + PassedOn(d, sku)
      /\ Refusals(q, sku) \in Nat /\ PassedOn(d, sku) \in Nat
  BY PendingOfEvents
<1> QED  BY <1>1, <1>2

\* A command: nothing is on its way.
LEMMA PendingOfCommand ==
    ASSUME NEW c \in Command, NEW sku \in Skus
    PROVE  PendingIn(<<>>, <<c>>, NoDelivery, sku) = 0
<1>1. <<>> \o <<c>> = <<c>>
  OBVIOUS
<1>2. Refusals(<<c>>, sku) = 0
  BY RefusalsOfOne
<1>3. PassedOn(NoDelivery, sku) = 0 /\ DeliveryOK(NoDelivery)
  BY DEF PassedOn, DeliveryOK
<1> QED  BY <1>1, <1>2, <1>3, DeliveryCounted DEF PendingIn

-----------------------------------------------------------------------------
(***************************************************************************)
(* What a handler adds to the messages of its unit of work, whether it     *)
(* returns or throws.                                                      *)
(***************************************************************************)
LEMMA ResultFields ==
    /\ \A s, w : /\ Returned(s, w).store = s
                /\ Returned(s, w).uow = w
                /\ Returned(s, w).threw = FALSE
    /\ \A s, w : /\ Threw(s, w).store = s
                /\ Threw(s, w).uow = w
                /\ Threw(s, w).threw = TRUE
BY DEF Returned, Threw

\* Whatever a commit comes to, the messages there were stay in front.
LEMMA CommitAppends ==
    ASSUME NEW s, NEW w, GoodUnit(w), NEW r \in Commit(s, w)
    PROVE  \E m \in Seq(Event) : r.uow.newMessages = w.newMessages \o m
<1>1. PICK u \in Collected(w) :
         \/ r = Returned(Written(s, u), [u EXCEPT !.seen = <<>>])
         \/ r = Threw(s, [u EXCEPT !.broken = TRUE])
         \/ r = Threw(Written(s, u), [u EXCEPT !.broken = TRUE])
  BY DEF Commit
<1>2. PICK places \in EventOrders(w) :
         u = [w EXCEPT
                !.newMessages = @ \o EventsAt(w, places),
                !.seen = [sku \in DOMAIN @ |-> [@[sku] EXCEPT !.messages = <<>>]]]
  BY DEF Collected
<1>3. EventsAt(w, places) \in Seq(Event)
  BY EventsAtType
<1>4. u.newMessages = w.newMessages \o EventsAt(w, places)
  BY <1>2 DEF GoodUnit
<1>5. u = [seen |-> u.seen, newMessages |-> u.newMessages, broken |-> u.broken]
  BY CollectedGood DEF GoodUnit
<1>6. r.uow.newMessages = u.newMessages
  <2> DEFINE x == [u EXCEPT !.seen = <<>>]
             y == [u EXCEPT !.broken = TRUE]
  <2>1. x.newMessages = u.newMessages
    BY <1>5
  <2>2. y.newMessages = u.newMessages
    BY <1>5
  <2>3. \/ r = Returned(Written(s, u), x)
        \/ r = Threw(s, y)
        \/ r = Threw(Written(s, u), y)
    BY <1>1
  <2> HIDE DEF x, y
  <2>4. r.uow = x \/ r.uow = y
    BY <2>3, ResultFields
  <2> QED  BY <2>1, <2>2, <2>4
<1> QED  BY <1>3, <1>4, <1>6

\* Seeing a product leaves the messages of a unit of work alone.
LEMMA SeeingMessages ==
    ASSUME NEW w, GoodUnit(w), NEW sku, NEW p
    PROVE  Seeing(w, sku, p).newMessages = w.newMessages
BY DEF Seeing, GoodUnit

\* So does a whole Allocate or Reallocate, whether it returns or throws.
LEMMA HandleAllocateAppends ==
    ASSUME NEW s, GoodStore(s), NEW w, GoodUnit(w), NEW line \in OrderLine,
           NEW r \in HandleAllocate(s, w, line)
    PROVE  \E m \in Seq(Event) : r.uow.newMessages = w.newMessages \o m
<1>1. CASE r.uow.newMessages = w.newMessages
  <2>1. w.newMessages \o <<>> = w.newMessages /\ <<>> \in Seq(Event)
    BY ConcatEmptySeq, EmptySeq DEF GoodUnit
  <2> QED  BY <1>1, <2>1
<1>2. CASE \/ ~Known(s, w, line.sku)
           \/ w.broken /\ line.sku \notin DOMAIN w.seen
  <2>1. r = Threw(s, w)
    BY <1>2 DEF HandleAllocate
  <2>2. r.uow = w
    BY <2>1 DEF Threw
  <2> QED  BY <1>1, <2>2
<1>3. CASE ~(\/ ~Known(s, w, line.sku)
             \/ w.broken /\ line.sku \notin DOMAIN w.seen)
  <2> DEFINE p == Get(s, w, line.sku)
  <2>1. line.sku \in Skus /\ Good(line.sku, p)
    BY <1>3, GetGood
  <2>2. DOMAIN p.batches # {}
    BY <2>1 DEF Good
  <2>3. PICK q \in AfterAllocate(p, line) :
           r \in Commit(s, Seeing(w, line.sku, q))
    BY <1>3, <2>2 DEF HandleAllocate
  <2> HIDE DEF p
  <2>4. GoodUnit(Seeing(w, line.sku, q))
    BY <2>1, MethodsGood, SeeingGood
  <2> DEFINE x == Seeing(w, line.sku, q)
  <2>5. x.newMessages = w.newMessages
    BY SeeingMessages
  <2> HIDE DEF x
  <2>6. \E m \in Seq(Event) : r.uow.newMessages = x.newMessages \o m
    BY <2>3, <2>4, CommitAppends DEF x
  <2> QED  BY <2>5, <2>6
<1> QED  BY <1>2, <1>3

-----------------------------------------------------------------------------
(***************************************************************************)
(* What each step does to the refusals on their way.                       *)
(***************************************************************************)

\* OutOfStock has at most one subscriber, or exactly one: the notification.
AtMostOneNotifier == Len(SubscribersOf(Bus, "OutOfStock")) <= 1

OneNotifier == Len(SubscribersOf(Bus, "OutOfStock")) = 1

\* The notification of a refusal is the last subscriber that is called.
LastNotifier(d) ==
    d # NoDelivery /\ d.event.type = "OutOfStock" => Len(d.left) = 1

\* A command was alone in the queue; what it raised is all there is now.
LEMMA CommandBalance ==
    ASSUME IInv, BusHandlesCommand, NEW sku \in Skus
    PROVE  /\ Pending(sku) = 0
           /\ emails' = emails
           /\ \/ refused' = refused /\ Pending(sku)' = 0
              \/ refused'[sku] = refused[sku] + Pending(sku)'
<1>1. PICK command \in Command : queue = <<command>> /\ uow = NewUnitOfWork
                                  /\ delivery = NoDelivery
  <2>1. queue \notin Seq(Event)
    BY EventIsNoCommand, HeadTailProperties DEF BusHandlesCommand
  <2> QED  BY <2>1 DEF IInv, QueueOK
<1>2. Head(queue) = command /\ Tail(queue) = <<>>
  BY <1>1
<1>3. PICK r \in Called(command) :
         IF r.threw
         THEN /\ queue' = <<>>
              /\ uow' = NewUnitOfWork
              /\ UNCHANGED <<refused, accepted>>
         ELSE /\ queue' = Tail(queue) \o r.uow.newMessages
              /\ uow' = WithoutMessages(r.uow)
              /\ Record(uow, r.uow)
  BY <1>2 DEF BusHandlesCommand
<1>4. GoodUnit(r.uow)
  BY <1>1, CalledGood DEF IInv, GoodResult
<1>5. delivery' = NoDelivery /\ emails' = emails
  BY <1>1 DEF BusHandlesCommand
<1>6. DeliveryOK(delivery') /\ PassedOn(delivery', sku) = 0
  BY <1>5 DEF DeliveryOK, PassedOn
<1>7. <<>> \in Seq(Event) /\ Refusals(<<>>, sku) = 0
  BY EmptySeq, RefusalsOfOne
<1>8. Pending(sku) = 0
  BY <1>1, PendingOfCommand, PendingNow DEF NewUnitOfWork
<1>9. CASE r.threw
  <2>1. /\ uow'.newMessages \in Seq(Event) /\ Len(uow'.newMessages) = 0
        /\ queue' = <<>>
    <3>1. uow'.newMessages = <<>> /\ queue' = <<>>
      BY <1>3, <1>9 DEF NewUnitOfWork
    <3>2. <<>> \in Seq(Event) /\ Len(<<>>) = 0
      BY EmptySeq
    <3> QED  BY <3>1, <3>2
  <2>2. queue' \in Seq(Event) /\ Refusals(queue', sku) = 0
    BY <1>7, <2>1
  <2>3. PendingIn(uow'.newMessages, queue', delivery', sku)
           = Refusals(queue', sku) + PassedOn(delivery', sku)
    BY <1>6, <2>1, <2>2, PendingOfQueue
  <2> QED  BY <1>3, <1>5, <1>6, <1>7, <1>8, <1>9, <2>2, <2>3, PendingNow
<1>10. CASE ~r.threw
  <2> DEFINE m == r.uow.newMessages
  <2>1. m \in Seq(Event)
    BY <1>4 DEF GoodUnit
  <2>2. uow'.newMessages \in Seq(Event) /\ Len(uow'.newMessages) = 0
    BY <1>3, <1>4, <1>10, EmptySeq DEF WithoutMessages, GoodUnit
  <2>3. queue' = m
    BY <1>2, <1>3, <1>10, <2>1, ConcatEmptySeq
  <2> HIDE DEF m
  <2>4. PendingIn(uow'.newMessages, queue', delivery', sku) = Refusals(m, sku)
    <3>1. queue' \in Seq(Event) /\ Refusals(m, sku) \in Nat
      BY <2>1, <2>3, RefusalsType
    <3>2. PendingIn(uow'.newMessages, queue', delivery', sku)
             = Refusals(queue', sku) + PassedOn(delivery', sku)
      BY <1>6, <2>2, <3>1, PendingOfQueue
    <3> QED  BY <1>6, <1>7, <2>3, <3>1, <3>2
  <2>5. Raised(uow, r.uow) = m
    <3>1. uow.newMessages = <<>> /\ <<>> \o m = m
      BY <1>1, <2>1, ConcatEmptySeq DEF NewUnitOfWork
    <3>2. r.uow.newMessages = uow.newMessages \o m
      BY <3>1 DEF m
    <3> QED  BY <1>7, <2>1, <3>1, <3>2, RaisedIsAppended
  <2>6. refused'[sku] = refused[sku] + Refusals(m, sku)
    BY <1>3, <1>10, <2>5 DEF Record
  <2> QED  BY <1>5, <1>8, <2>4, <2>6, PendingNow
<1> QED  BY <1>9, <1>10

\* An event leaves the queue and is handed to its subscribers.
LEMMA TakeBalance ==
    ASSUME IInv, BusTakesEvent, NEW sku \in Skus
    PROVE  /\ Pending(sku)' = Pending(sku)
                                 - (IF Head(queue) = OutOfStock(sku) THEN 1 ELSE 0)
                                 + PassedOn(delivery', sku)
           /\ Pending(sku) \in Nat
           /\ PassedOn(delivery', sku) = 1 => Head(queue) = OutOfStock(sku)
           /\ PassedOn(delivery', sku) \in {0, 1}
           /\ OneNotifier /\ Head(queue) = OutOfStock(sku)
                 => PassedOn(delivery', sku) = 1
           /\ AtMostOneNotifier => LastNotifier(delivery')
<1>1. queue \in Seq(Event) /\ queue # <<>>
  BY EventIsNoCommand DEF IInv, QueueOK, BusTakesEvent
<1>2. Head(queue) \in Event /\ Tail(queue) \in Seq(Event)
  BY <1>1, HeadTailProperties
<1> DEFINE left == SubscribersOf(Bus, Head(queue).type)
<1>3. left \in Seq(EventHandlerFor(Head(queue).type))
  BY <1>2, SubscribersType
<1>4. /\ delivery = NoDelivery /\ uow' = uow /\ queue' = Tail(queue)
      /\ delivery' = Delivering(Head(queue), left)
  BY DEF BusTakesEvent
<1>5. DeliveryOK(delivery) /\ PassedOn(delivery, sku) = 0
  BY <1>4 DEF DeliveryOK, PassedOn
<1>6. DeliveryOK(delivery')
  BY <1>2, <1>3, <1>4, DeliveringOK
<1>7. uow.newMessages \in Seq(Event)
  BY DEF IInv, GoodUnit
<1>8. /\ Pending(sku) = Refusals(uow.newMessages, sku) + Refusals(queue, sku)
      /\ Refusals(uow.newMessages, sku) \in Nat /\ Refusals(queue, sku) \in Nat
  BY <1>1, <1>5, <1>7, PendingOfEvents, PendingNow
<1>9. /\ Pending(sku)' = Refusals(uow.newMessages, sku)
                            + Refusals(Tail(queue), sku)
                            + PassedOn(delivery', sku)
      /\ Refusals(Tail(queue), sku) \in Nat
  <2>1. queue' = Tail(queue) /\ uow'.newMessages = uow.newMessages
    BY <1>4
  <2>2. queue' \in Seq(Event)
    BY <1>2, <2>1
  <2>3. Pending(sku)' = PendingIn(uow.newMessages, queue', delivery', sku)
    BY <2>1, PendingNow, Zenon
  <2>4. /\ Pending(sku)' = Refusals(uow.newMessages, sku)
                              + Refusals(queue', sku) + PassedOn(delivery', sku)
        /\ Refusals(queue', sku) \in Nat
    BY <1>6, <1>7, <2>2, <2>3, PendingOfEvents
  <2> QED  BY <2>1, <2>4
<1>10. Refusals(queue, sku) = (IF Head(queue) = OutOfStock(sku) THEN 1 ELSE 0)
                                 + Refusals(Tail(queue), sku)
  BY <1>1, RefusalsOfHead
<1>11. PassedOn(delivery', sku) \in {0, 1}
  BY DEF PassedOn
<1>12. delivery' # NoDelivery =>
          /\ delivery'.event = Head(queue) /\ delivery'.left = left
          /\ left # <<>>
  BY <1>4 DEF Delivering
<1>13. PassedOn(delivery', sku) = 1 => Head(queue) = OutOfStock(sku)
  BY <1>12 DEF PassedOn
<1>14. Head(queue).type = "OutOfStock" => left = SubscribersOf(Bus, "OutOfStock")
  OBVIOUS
<1>15. OneNotifier /\ Head(queue) = OutOfStock(sku)
          => PassedOn(delivery', sku) = 1
  <2> SUFFICES ASSUME OneNotifier, Head(queue) = OutOfStock(sku)
               PROVE  PassedOn(delivery', sku) = 1
    OBVIOUS
  <2>1. Len(left) = 1
    BY <1>14 DEF OneNotifier, OutOfStock
  <2> HIDE DEF left
  <2>2. left # <<>>
    BY <2>1
  <2>3. delivery' = [event |-> Head(queue), left |-> left]
    BY <1>4, <2>2 DEF Delivering
  <2>4. delivery'.event = OutOfStock(sku) /\ delivery' # NoDelivery
    BY <2>2, <2>3 DEF NoDelivery
  <2> QED  BY <2>4 DEF PassedOn
<1>16. AtMostOneNotifier => LastNotifier(delivery')
  <2>0. Len(left) \in Nat
    BY <1>3, LenProperties
  <2>1. left # <<>> => Len(left) > 0
    BY <1>3, LenProperties, EmptySeq
  <2> SUFFICES ASSUME AtMostOneNotifier, delivery' # NoDelivery,
                      delivery'.event.type = "OutOfStock"
               PROVE  Len(delivery'.left) = 1
    BY DEF LastNotifier
  <2>2. Len(left) <= 1
    BY <1>12, <1>14 DEF AtMostOneNotifier
  <2>3. delivery'.left = left /\ left # <<>>
    BY <1>12
  <2> HIDE DEF left
  <2>4. Len(left) > 0
    BY <2>1, <2>3
  <2>5. Len(left) = 1
    BY <2>0, <2>2, <2>4
  <2> QED  BY <2>3, <2>5
<1> QED
  BY <1>8, <1>9, <1>10, <1>11, <1>13, <1>15, <1>16

\* A subscriber returns or throws: what it raised goes to the queue or stays
\* in the unit of work.
LEMMA SubscriberBalance ==
    ASSUME IInv, delivery # NoDelivery, NEW m \in Seq(Event),
           NEW after, GoodUnit(after), Returns(after) \/ Throws(after),
           after.newMessages = uow.newMessages \o m, NEW sku \in Skus
    PROVE  /\ Pending(sku)' = Pending(sku) + Refusals(m, sku)
                                 - PassedOn(delivery, sku)
                                 + PassedOn(delivery', sku)
           /\ Pending(sku) \in Nat /\ Refusals(m, sku) \in Nat
           /\ delivery.event.type # "OutOfStock" =>
                /\ PassedOn(delivery, sku) = 0
                /\ PassedOn(delivery', sku) = 0
           /\ delivery.event.type = "OutOfStock" /\ LastNotifier(delivery) =>
                /\ PassedOn(delivery', sku) = 0
                /\ PassedOn(delivery, sku)
                     = IF delivery.event = OutOfStock(sku) THEN 1 ELSE 0
           /\ LastNotifier(delivery) => LastNotifier(delivery')
<1>1. queue \in Seq(Event)
  BY DEF IInv, QueueOK
<1>2. /\ delivery.event \in Event
      /\ delivery.left \in Seq(EventHandlerFor(delivery.event.type))
      /\ delivery.left # <<>>
  BY DEF IInv, DeliveryOK
<1>3. /\ Tail(delivery.left) \in Seq(EventHandlerFor(delivery.event.type))
      /\ Len(Tail(delivery.left)) = Len(delivery.left) - 1
  BY <1>2, HeadTailProperties
<1>4. delivery' = Delivering(delivery.event, Tail(delivery.left))
  BY DEF Returns, Throws
<1>5. DeliveryOK(delivery) /\ DeliveryOK(delivery')
  BY <1>2, <1>3, <1>4, DeliveringOK DEF IInv
<1>6. /\ uow.newMessages \in Seq(Event) /\ after.newMessages \in Seq(Event)
      /\ after = [seen |-> after.seen, newMessages |-> after.newMessages,
                  broken |-> after.broken]
  BY DEF IInv, GoodUnit
<1>7. /\ Pending(sku) = Refusals(uow.newMessages, sku) + Refusals(queue, sku)
                           + PassedOn(delivery, sku)
      /\ Refusals(uow.newMessages, sku) \in Nat /\ Refusals(queue, sku) \in Nat
      /\ PassedOn(delivery, sku) \in Nat
  BY <1>1, <1>5, <1>6, PendingOfEvents, PendingNow
<1>8. /\ Refusals(after.newMessages, sku)
            = Refusals(uow.newMessages, sku) + Refusals(m, sku)
      /\ Refusals(m, sku) \in Nat
  BY <1>6, RefusalsConcat, RefusalsType
<1>9. Pending(sku)' = Refusals(after.newMessages, sku) + Refusals(queue, sku)
                         + PassedOn(delivery', sku)
  <2> DEFINE n == after.newMessages
  <2> HIDE DEF n
  <2>0. n \in Seq(Event)
    BY <1>6 DEF n
  <2>1. CASE Returns(after)
    <3>1. queue' = queue \o n /\ queue' \in Seq(Event)
      BY <1>1, <2>0, <2>1, ConcatProperties DEF Returns, n
    <3>2. uow'.newMessages \in Seq(Event) /\ Len(uow'.newMessages) = 0
      BY <1>6, <2>1, EmptySeq DEF Returns, WithoutMessages
    <3>3. Refusals(queue', sku) = Refusals(queue, sku) + Refusals(n, sku)
      BY <1>1, <2>0, <3>1, RefusalsConcat
    <3>4. Pending(sku)' = Refusals(queue', sku) + PassedOn(delivery', sku)
      <4>1. queue' \in Seq(Event)
        BY <3>1
      <4> QED  BY <1>5, <3>2, <4>1, PendingOfQueue, PendingNow
    <3>5. Refusals(n, sku) \in Nat /\ PassedOn(delivery', sku) \in Nat
      BY <2>0, RefusalsType DEF PassedOn
    <3> QED  BY <1>7, <3>3, <3>4, <3>5 DEF n
  <2>2. CASE Throws(after)
    <3>1. queue' = queue /\ uow'.newMessages = n
      BY <2>2 DEF Throws, n
    <3>2. queue' \in Seq(Event)
      BY <1>1, <3>1
    <3>3. Pending(sku)' = Refusals(n, sku) + Refusals(queue', sku)
                             + PassedOn(delivery', sku)
      BY <1>5, <2>0, <3>1, <3>2, PendingOfEvents, PendingNow
    <3> QED  BY <3>1, <3>3 DEF n
  <2> QED  BY <2>1, <2>2
<1>10. delivery' # NoDelivery =>
          /\ delivery'.event = delivery.event
          /\ delivery'.left = Tail(delivery.left)
          /\ Tail(delivery.left) # <<>>
  BY <1>4 DEF Delivering
<1>11. delivery.event.type # "OutOfStock" =>
          PassedOn(delivery, sku) = 0 /\ PassedOn(delivery', sku) = 0
  BY <1>10 DEF PassedOn, OutOfStock
<1>12. delivery.event.type = "OutOfStock" /\ LastNotifier(delivery) =>
          delivery' = NoDelivery
  <2> SUFFICES ASSUME delivery.event.type = "OutOfStock", LastNotifier(delivery)
               PROVE  delivery' = NoDelivery
    OBVIOUS
  <2>1. Len(Tail(delivery.left)) = 0
    BY <1>3 DEF LastNotifier
  <2>2. Tail(delivery.left) = <<>>
    BY <1>3, <2>1, EmptySeq
  <2> QED  BY <1>4, <2>2 DEF Delivering
<1>13. delivery.event.type = "OutOfStock" /\ LastNotifier(delivery) =>
          /\ PassedOn(delivery', sku) = 0
          /\ PassedOn(delivery, sku)
               = IF delivery.event = OutOfStock(sku) THEN 1 ELSE 0
  BY <1>12 DEF PassedOn
<1>14. LastNotifier(delivery) => LastNotifier(delivery')
  BY <1>10, <1>12 DEF LastNotifier
<1> QED
  <2>1. PassedOn(delivery', sku) \in Nat
    BY DEF PassedOn
  <2>2. Pending(sku)' = Pending(sku) + Refusals(m, sku)
                                 - PassedOn(delivery, sku)
                                 + PassedOn(delivery', sku)
    BY <1>7, <1>8, <1>9, <2>1
  <2>3. Pending(sku) \in Nat
    BY <1>7
  <2> QED  BY <1>8, <1>11, <1>13, <1>14, <2>2, <2>3

\* A subscriber that raises nothing.
LEMMA NothingAppended ==
    ASSUME NEW s \in Seq(Event), NEW sku \in Skus
    PROVE  \E m \in Seq(Event) : s = s \o m /\ Refusals(m, sku) = 0
<1>1. <<>> \in Seq(Event) /\ Refusals(<<>>, sku) = 0 /\ s = s \o <<>>
  BY EmptySeq, RefusalsOfOne, ConcatEmptySeq
<1> QED  BY <1>1

\* A subscriber other than the notification is called for another event.
LEMMA OtherSubscriber ==
    ASSUME DeliveryOK(delivery), NEW s, Due(s),
           s # "SendOutOfStockNotification"
    PROVE  delivery # NoDelivery /\ delivery.event.type # "OutOfStock"
<1>1. /\ delivery # NoDelivery /\ s = Head(delivery.left)
      /\ delivery.left \in Seq(EventHandlerFor(delivery.event.type))
      /\ delivery.left # <<>>
  BY DEF Due, DeliveryOK
<1>2. s \in EventHandlerFor(delivery.event.type)
  BY <1>1, HeadTailProperties
<1>3. "OutOfStock" = delivery.event.type => s = "SendOutOfStockNotification"
  BY <1>2 DEF EventHandlerFor
<1> QED  BY <1>1, <1>3

\* The subscribers that keep the read model pass on no refusal.
LEMMA ReadModelBalance ==
    ASSUME IInv, AddAllocationToReadModel \/ RemoveAllocationFromReadModel,
           NEW sku \in Skus
    PROVE  /\ Pending(sku)' = Pending(sku)
           /\ refused' = refused /\ emails' = emails
           /\ LastNotifier(delivery) => LastNotifier(delivery')
<1>1. /\ delivery # NoDelivery /\ delivery.event.type # "OutOfStock"
  BY OtherSubscriber
     DEF IInv, AddAllocationToReadModel, RemoveAllocationFromReadModel
<1>2. Returns(uow) \/ Throws(uow)
  BY DEF AddAllocationToReadModel, RemoveAllocationFromReadModel
<1>3. GoodUnit(uow) /\ uow.newMessages \in Seq(Event)
  BY DEF IInv, GoodUnit
<1>4. PICK m \in Seq(Event) : /\ uow.newMessages = uow.newMessages \o m
                              /\ Refusals(m, sku) = 0
  BY <1>3, NothingAppended
<1>5. /\ Pending(sku)' = Pending(sku)
      /\ LastNotifier(delivery) => LastNotifier(delivery')
  <2>1. /\ Pending(sku)' = Pending(sku) + Refusals(m, sku)
                              - PassedOn(delivery, sku)
                              + PassedOn(delivery', sku)
        /\ Pending(sku) \in Nat
        /\ PassedOn(delivery, sku) = 0 /\ PassedOn(delivery', sku) = 0
        /\ LastNotifier(delivery) => LastNotifier(delivery')
    BY <1>1, <1>2, <1>3, <1>4, SubscriberBalance
  <2> QED  BY <1>4, <2>1
<1>6. refused' = refused /\ emails' = emails
  BY DEF AddAllocationToReadModel, RemoveAllocationFromReadModel
<1> QED  BY <1>5, <1>6

\* What Reallocate is refused is on its way and is recorded.
LEMMA ReallocateBalance ==
    ASSUME IInv, Reallocate, NEW sku \in Skus
    PROVE  /\ refused'[sku] - Pending(sku)' = refused[sku] - Pending(sku)
           /\ refused[sku] \in Nat /\ refused'[sku] \in Nat
           /\ Pending(sku) \in Nat /\ Pending(sku)' \in Nat
           /\ emails' = emails
           /\ LastNotifier(delivery) => LastNotifier(delivery')
<1>1. delivery # NoDelivery /\ delivery.event.type # "OutOfStock"
  BY OtherSubscriber DEF IInv, Reallocate
<1>2. /\ delivery.event \in Event
      /\ "Reallocate" \in EventHandlerFor(delivery.event.type)
  BY HeadTailProperties DEF IInv, DeliveryOK, Reallocate, Due
<1>3. delivery.event.line \in OrderLine
  BY <1>2 DEF Event, EventHandlerFor
<1>4. PICK r \in HandleAllocate(store, uow, delivery.event.line) :
         /\ IF r.threw THEN Throws(r.uow) ELSE Returns(r.uow)
         /\ Record(uow, r.uow)
  BY DEF Reallocate
<1>5. GoodUnit(r.uow)
  BY <1>3, HandleAllocateGood DEF IInv, GoodResult
<1>6. PICK m \in Seq(Event) : r.uow.newMessages = uow.newMessages \o m
  BY <1>3, HandleAllocateAppends DEF IInv
<1>7. Raised(uow, r.uow) = m
  BY <1>6, RaisedIsAppended DEF IInv, GoodUnit
<1>8. refused'[sku] = refused[sku] + Refusals(m, sku) /\ refused[sku] \in Nat
  BY <1>4, <1>7 DEF Record, IInv, HistoryOK
<1>9. Returns(r.uow) \/ Throws(r.uow)
  BY <1>4
<1>10. /\ Pending(sku)' = Pending(sku) + Refusals(m, sku) - 0 + 0
       /\ Pending(sku) \in Nat /\ Refusals(m, sku) \in Nat
       /\ LastNotifier(delivery) => LastNotifier(delivery')
  <2>1. /\ Pending(sku)' = Pending(sku) + Refusals(m, sku)
                              - PassedOn(delivery, sku)
                              + PassedOn(delivery', sku)
        /\ Pending(sku) \in Nat /\ Refusals(m, sku) \in Nat
        /\ PassedOn(delivery, sku) = 0 /\ PassedOn(delivery', sku) = 0
        /\ LastNotifier(delivery) => LastNotifier(delivery')
    BY <1>1, <1>5, <1>6, <1>9, SubscriberBalance
  <2> QED  BY <2>1
<1>11. emails' = emails
  BY DEF Reallocate
<1> QED  BY <1>8, <1>10, <1>11

\* The notification is sent: one refusal fewer is on its way.
LEMMA SendBalance ==
    ASSUME IInv, LastNotifier(delivery), SendOutOfStockNotification,
           NEW sku \in Skus
    PROVE  /\ emails'[sku] + Pending(sku)' = emails[sku] + Pending(sku)
           /\ emails[sku] \in Nat /\ emails'[sku] \in Nat
           /\ Pending(sku) \in Nat /\ Pending(sku)' \in Nat
           /\ refused' = refused
           /\ LastNotifier(delivery')
<1>1. delivery # NoDelivery /\ Returns(uow)
  BY DEF SendOutOfStockNotification, Due
<1>2. /\ delivery.event \in Event
      /\ "SendOutOfStockNotification" \in EventHandlerFor(delivery.event.type)
  BY HeadTailProperties DEF IInv, DeliveryOK, SendOutOfStockNotification, Due
<1>3. delivery.event.type = "OutOfStock"
  BY <1>2, EventTypes DEF EventHandlerFor, EventType
<1>4. delivery.event = OutOfStock(sku) <=> delivery.event.sku = sku
  BY <1>2, <1>3 DEF Event, OutOfStock
<1>5. GoodUnit(uow) /\ uow.newMessages \in Seq(Event)
  BY DEF IInv, GoodUnit
<1>6. PICK m \in Seq(Event) : /\ uow.newMessages = uow.newMessages \o m
                              /\ Refusals(m, sku) = 0
  BY <1>5, NothingAppended
<1>7. /\ Pending(sku)' = Pending(sku) + Refusals(m, sku)
                            - PassedOn(delivery, sku)
                            + PassedOn(delivery', sku)
      /\ Pending(sku) \in Nat
      /\ PassedOn(delivery', sku) = 0
      /\ PassedOn(delivery, sku)
           = IF delivery.event = OutOfStock(sku) THEN 1 ELSE 0
      /\ LastNotifier(delivery')
  BY <1>1, <1>3, <1>5, <1>6, SubscriberBalance
<1>8. /\ Pending(sku)' = Pending(sku)
                            - (IF delivery.event = OutOfStock(sku) THEN 1 ELSE 0)
      /\ Pending(sku) \in Nat
      /\ LastNotifier(delivery')
  BY <1>6, <1>7
<1>9. /\ emails[sku] \in Nat
      /\ emails'[sku] = emails[sku]
                           + (IF delivery.event = OutOfStock(sku) THEN 1 ELSE 0)
  <2> DEFINE k == delivery.event.sku
  <2>1. emails' = [emails EXCEPT ![k] = emails[k] + 1] /\ emails \in [Skus -> Nat]
    BY DEF SendOutOfStockNotification, IInv, HistoryOK
  <2>2. k = sku <=> delivery.event = OutOfStock(sku)
    BY <1>4
  <2> HIDE DEF k
  <2> QED  BY <2>1, <2>2
<1>10. refused' = refused
  BY DEF SendOutOfStockNotification
<1>11. Pending(sku)' \in Nat
  <2>1. /\ queue \in Seq(Event) /\ uow.newMessages \in Seq(Event)
        /\ DeliveryOK(delivery)
    BY <1>1 DEF IInv, QueueOK, GoodUnit
  <2>2. /\ Pending(sku) = Refusals(uow.newMessages, sku) + Refusals(queue, sku)
                             + PassedOn(delivery, sku)
        /\ Refusals(uow.newMessages, sku) \in Nat /\ Refusals(queue, sku) \in Nat
    BY <2>1, PendingOfEvents, PendingNow
  <2>3. PassedOn(delivery, sku)
           = IF delivery.event = OutOfStock(sku) THEN 1 ELSE 0
    BY <1>1 DEF PassedOn
  <2> QED  BY <1>8, <2>2, <2>3
<1> QED  BY <1>8, <1>9, <1>10, <1>11

-----------------------------------------------------------------------------
(***************************************************************************)
(* Failing commits: nothing is notified that was not refused.              *)
(***************************************************************************)

\* A request begins or ends: nothing is on its way then.
LEMMA BoundaryBalance ==
    ASSUME IInv, NEW sku \in Skus,
           \/ \E command \in Command : Request(command)
           \/ FinishRequest
    PROVE  /\ Pending(sku)' = 0
           /\ uow = NewUnitOfWork => Pending(sku) = 0
           /\ Pending(sku) \in Nat
           /\ refused' = refused /\ emails' = emails
           /\ LastNotifier(delivery')
<1>1. /\ queue = <<>> /\ delivery = NoDelivery /\ delivery' = NoDelivery
      /\ uow' = NewUnitOfWork /\ refused' = refused /\ emails' = emails
  BY DEF IInv, RequestOK, Request, FinishRequest
<1>0. NewUnitOfWork.newMessages = <<>>
  BY DEF NewUnitOfWork
<1>2. /\ queue \in Seq(Event)
      /\ NewUnitOfWork.newMessages \in Seq(Event)
      /\ Len(NewUnitOfWork.newMessages) = 0
  BY <1>0, <1>1, EmptySeq
<1>3. DeliveryOK(NoDelivery) /\ PassedOn(NoDelivery, sku) = 0
  BY DEF DeliveryOK, PassedOn
<1>4. Refusals(queue, sku) = 0
  BY <1>1, RefusalsOfOne
<1>5. PendingIn(NewUnitOfWork.newMessages, queue, NoDelivery, sku) = 0
  BY <1>2, <1>3, <1>4, PendingOfQueue
<1>6. Pending(sku)' = 0
  <2>1. CASE FinishRequest
    <3>1. queue' = queue /\ uow'.newMessages = NewUnitOfWork.newMessages
      BY <1>1, <2>1 DEF FinishRequest
    <3> QED  BY <1>1, <1>5, <3>1, PendingNow
  <2>2. CASE \E command \in Command : Request(command)
    <3>1. PICK command \in Command : queue' = <<command>>
      BY <2>2 DEF Request
    <3>2. uow'.newMessages = <<>>
      BY <1>0, <1>1
    <3>3. PendingIn(<<>>, <<command>>, NoDelivery, sku) = 0
      BY PendingOfCommand
    <3> QED  BY <1>1, <3>1, <3>2, <3>3, PendingNow
  <2> QED  BY <2>1, <2>2
<1>7. uow = NewUnitOfWork => Pending(sku) = 0
  BY <1>1, <1>5, PendingNow
<1>8. Pending(sku) \in Nat
  <2>1. uow.newMessages \in Seq(Event)
    BY DEF IInv, GoodUnit
  <2>2. /\ PendingIn(uow.newMessages, queue, NoDelivery, sku)
              = Refusals(uow.newMessages, sku) + Refusals(queue, sku)
                   + PassedOn(NoDelivery, sku)
        /\ Refusals(uow.newMessages, sku) \in Nat
    BY <1>2, <1>3, <2>1, PendingOfEvents
  <2> QED  BY <1>1, <1>3, <1>4, <2>2, PendingNow
<1>9. LastNotifier(delivery')
  BY <1>1 DEF LastNotifier
<1> QED  BY <1>1, <1>6, <1>7, <1>8, <1>9

\* Every request that Next takes is a Command.
LEMMA RequestsAreCommands ==
    ASSUME \/ \E command \in Commands : Request(command)
           \/ \E dto \in Dtos : \E command \in MakeCommand(dto) : Request(command)
    PROVE  \E command \in Command : Request(command)
BY ServiceAssumption, MakeCommandType

\* A command leaves events in the queue, or nothing.
LEMMA BusEmptiesCommands ==
    ASSUME IInv, BusHandlesCommand
    PROVE  queue' \in Seq(Event) /\ delivery' = NoDelivery
<1>1. PICK command \in Command : queue = <<command>> /\ uow = NewUnitOfWork
                                  /\ delivery = NoDelivery
  <2>1. queue \notin Seq(Event)
    BY EventIsNoCommand, HeadTailProperties DEF BusHandlesCommand
  <2> QED  BY <2>1 DEF IInv, QueueOK
<1>2. Head(queue) = command /\ Tail(queue) = <<>>
  BY <1>1
<1>3. PICK r \in Called(command) :
         \/ queue' = <<>>
         \/ queue' = Tail(queue) \o r.uow.newMessages
  BY <1>2 DEF BusHandlesCommand
<1>4. r.uow.newMessages \in Seq(Event)
  BY <1>1, CalledGood DEF IInv, GoodResult, GoodUnit
<1>5. queue' \in Seq(Event)
  <2>1. CASE queue' = <<>>
    BY <2>1, EmptySeq
  <2>2. CASE queue' = Tail(queue) \o r.uow.newMessages
    BY <1>2, <1>4, <2>2, ConcatEmptySeq
  <2> QED  BY <1>3, <2>1, <2>2
<1> QED  BY <1>1, <1>5 DEF BusHandlesCommand

\* The steps that are not the handling of a message change nothing here.
LEMMA StutterBalance ==
    ASSUME UNCHANGED vars, NEW sku
    PROVE  /\ Pending(sku)' = Pending(sku)
           /\ refused' = refused /\ emails' = emails
           /\ LastNotifier(delivery) => LastNotifier(delivery')
BY DEF vars, Pending, LastNotifier

\* With one subscriber at most, the notification stays the last one called.
LEMMA NotifierStaysLast ==
    ASSUME AtMostOneNotifier, IInv, LastNotifier(delivery), [Next]_vars
    PROVE  LastNotifier(delivery')
<1>1. CASE Skus = {}
  <2>1. Event = {}
    BY <1>1 DEF Event, OrderLine
  <2> QED  BY <2>1, StepGood DEF IInv, DeliveryOK, LastNotifier
<1>2. CASE Skus # {}
  <2>0. PICK sku : sku \in Skus
    BY <1>2
  <2>1. CASE (\E command \in Command : Request(command)) \/ FinishRequest
    BY <2>0, <2>1, BoundaryBalance
  <2>2. CASE BusHandlesCommand
    BY <2>2, BusEmptiesCommands DEF LastNotifier
  <2>3. CASE BusTakesEvent
    BY <2>0, <2>3, TakeBalance
  <2>4. CASE AddAllocationToReadModel \/ RemoveAllocationFromReadModel
    BY <2>0, <2>4, ReadModelBalance
  <2>5. CASE SendOutOfStockNotification
    BY <2>0, <2>5, SendBalance
  <2>6. CASE Reallocate
    BY <2>0, <2>6, ReallocateBalance
  <2>7. CASE UNCHANGED vars
    BY <2>7, StutterBalance
  <2> QED
    BY <2>1, <2>2, <2>3, <2>4, <2>5, <2>6, <2>7, RequestsAreCommands
       DEF Next, BusStep
<1> QED  BY <1>1, <1>2

NotSpareInv == LastNotifier(delivery) /\ NoSpareNotification

\* At first nothing is refused, notified or on its way.
LEMMA NotSpareInit ==
    ASSUME Init
    PROVE  NotSpareInv
<1>1. LastNotifier(delivery)
  BY DEF Init, LastNotifier
<1>2. ASSUME NEW sku \in Skus PROVE refused[sku] >= emails[sku] + Pending(sku)
  <2>1. /\ uow.newMessages \in Seq(Event) /\ Len(uow.newMessages) = 0
        /\ queue \in Seq(Event) /\ queue = <<>>
    BY EmptySeq DEF Init, NewUnitOfWork
  <2>2. DeliveryOK(delivery) /\ PassedOn(delivery, sku) = 0
    BY DEF Init, DeliveryOK, PassedOn
  <2>3. Refusals(queue, sku) = 0
    BY <2>1, RefusalsOfOne
  <2>4. Pending(sku) = 0
    BY <2>1, <2>2, <2>3, PendingOfQueue, PendingNow
  <2> QED  BY <2>4 DEF Init
<1> QED  BY <1>1, <1>2 DEF NotSpareInv, NoSpareNotification

\* No step notifies, or puts on the way, what was not refused.
LEMMA NotSpareStep ==
    ASSUME AtMostOneNotifier, IInv, NotSpareInv, [Next]_vars
    PROVE  NotSpareInv'
<1>1. LastNotifier(delivery)
  BY DEF NotSpareInv
<1>2. \A sku \in Skus : /\ refused[sku] >= emails[sku] + Pending(sku)
                        /\ refused[sku] \in Nat /\ emails[sku] \in Nat
  BY DEF NotSpareInv, NoSpareNotification, IInv, HistoryOK
<1>0. LastNotifier(delivery')
  BY <1>1, NotifierStaysLast
<1> SUFFICES ASSUME NEW sku \in Skus
             PROVE  refused'[sku] >= emails'[sku] + Pending(sku)'
  BY <1>0 DEF NotSpareInv, NoSpareNotification
<1>3. CASE (\/ \E command \in Commands : Request(command)
            \/ \E dto \in Dtos : \E command \in MakeCommand(dto) : Request(command))
           \/ FinishRequest
  <2>1. /\ Pending(sku)' = 0 /\ Pending(sku) \in Nat
        /\ refused' = refused /\ emails' = emails
    BY <1>3, RequestsAreCommands, BoundaryBalance
  <2> QED  BY <1>2, <2>1
<1>4. CASE BusHandlesCommand
  <2>1. /\ Pending(sku) = 0 /\ emails' = emails
        /\ \/ refused' = refused /\ Pending(sku)' = 0
           \/ refused'[sku] = refused[sku] + Pending(sku)'
    BY <1>4, CommandBalance
  <2>4. Pending(sku)' \in Nat
    <3>1. IInv'
      BY StepGood
    <3>2. /\ uow'.newMessages \in Seq(Event) /\ queue' \in Seq(Event)
          /\ DeliveryOK(delivery')
      BY <1>4, <3>1, BusEmptiesCommands DEF IInv, GoodUnit
    <3>3. /\ PendingIn(uow'.newMessages, queue', delivery', sku)
                = Refusals(uow'.newMessages, sku) + Refusals(queue', sku)
                     + PassedOn(delivery', sku)
          /\ Refusals(uow'.newMessages, sku) \in Nat
          /\ Refusals(queue', sku) \in Nat /\ PassedOn(delivery', sku) \in Nat
      BY <3>2, PendingOfEvents
    <3> QED  BY <3>3, PendingNow
  <2> QED  BY <1>2, <2>1, <2>4
<1>5. CASE BusTakesEvent
  <2>1. /\ Pending(sku)' = Pending(sku)
                              - (IF Head(queue) = OutOfStock(sku) THEN 1 ELSE 0)
                              + PassedOn(delivery', sku)
        /\ Pending(sku) \in Nat
        /\ PassedOn(delivery', sku) = 1 => Head(queue) = OutOfStock(sku)
        /\ PassedOn(delivery', sku) \in {0, 1}
    BY <1>5, TakeBalance
  <2>2. refused' = refused /\ emails' = emails
    BY <1>5 DEF BusTakesEvent
  <2> QED  BY <1>2, <2>1, <2>2
<1>6. CASE AddAllocationToReadModel \/ RemoveAllocationFromReadModel
  BY <1>1, <1>2, <1>6, ReadModelBalance
<1>7. CASE SendOutOfStockNotification
  <2>1. /\ emails'[sku] + Pending(sku)' = emails[sku] + Pending(sku)
        /\ refused' = refused
    BY <1>1, <1>7, SendBalance
  <2> QED  BY <1>2, <2>1
<1>8. CASE Reallocate
  <2>1. /\ refused'[sku] - Pending(sku)' = refused[sku] - Pending(sku)
        /\ refused'[sku] \in Nat /\ Pending(sku) \in Nat /\ Pending(sku)' \in Nat
        /\ emails' = emails
    BY <1>1, <1>8, ReallocateBalance
  <2> QED  BY <1>2, <2>1
<1>9. CASE UNCHANGED vars
  BY <1>1, <1>2, <1>9, StutterBalance
<1> QED
  BY <1>3, <1>4, <1>5, <1>6, <1>7, <1>8, <1>9 DEF Next, BusStep

(***************************************************************************)
(* While the bus has no second subscriber for OutOfStock, no refusal is    *)
(* notified twice, whichever commits fail: an event that a failed commit   *)
(* left in the unit of work, and a later subscriber passed on, is passed   *)
(* on once.                                                                *)
(***************************************************************************)
THEOREM NoRefusalNotifiedTwice ==
    ASSUME AtMostOneNotifier
    PROVE  Spec => []NoSpareNotification
<1>1. Init => IInv /\ NotSpareInv
  BY InitGood, NotSpareInit
<1>2. IInv /\ NotSpareInv /\ [Next]_vars => IInv' /\ NotSpareInv'
  BY StepGood, NotSpareStep
<1>3. NotSpareInv => NoSpareNotification
  BY DEF NotSpareInv
<1> QED  BY <1>1, <1>2, <1>3, PTL DEF Spec

-----------------------------------------------------------------------------
(***************************************************************************)
(* While every commit succeeds, the unit of work is new again after each   *)
(* handler, so nothing is left in it when the request ends.                *)
(***************************************************************************)
CommitsSucceed == Failures \cap {"commit", "begin"} = {}

\* A commit returns; what it wrote is what its unit of work had collected.
LEMMA CommitReturns ==
    ASSUME CommitsSucceed, NEW s, NEW w, GoodUnit(w), w.broken = FALSE,
           NEW r \in Commit(s, w)
    PROVE  \E u \in Collected(w) :
              /\ r = Returned(Written(s, u), [u EXCEPT !.seen = <<>>])
              /\ u.broken = FALSE
<1>1. PICK u \in Collected(w) :
         r = Returned(Written(s, u), [u EXCEPT !.seen = <<>>])
  BY DEF Commit, CommitsSucceed
<1>2. PICK places \in EventOrders(w) :
         u = [w EXCEPT
                !.newMessages = @ \o EventsAt(w, places),
                !.seen = [sku \in DOMAIN @ |-> [@[sku] EXCEPT !.messages = <<>>]]]
  BY DEF Collected
<1>3. u.broken = w.broken
  BY <1>2 DEF GoodUnit
<1> QED  BY <1>1, <1>3

\* Once its messages are moved out, such a unit of work is a new one.
LEMMA NewAfterCommit ==
    ASSUME CommitsSucceed, NEW s, NEW w, GoodUnit(w), w.broken = FALSE,
           NEW r \in Commit(s, w)
    PROVE  r.threw = FALSE /\ WithoutMessages(r.uow) = NewUnitOfWork
<1>1. PICK u \in Collected(w) :
         /\ r = Returned(Written(s, u), [u EXCEPT !.seen = <<>>])
         /\ u.broken = FALSE
  BY CommitReturns
<1>2. u = [seen |-> u.seen, newMessages |-> u.newMessages, broken |-> u.broken]
  BY CollectedGood DEF GoodUnit
<1> DEFINE x == [u EXCEPT !.seen = <<>>]
<1>3. x = [seen |-> <<>>, newMessages |-> u.newMessages, broken |-> u.broken]
  BY <1>2
<1>4. r = Returned(Written(s, u), x)
  BY <1>1
<1> HIDE DEF x
<1>5. r.uow = x /\ r.threw = FALSE
  BY <1>4, ResultFields
<1>6. WithoutMessages(x)
         = [seen |-> <<>>, newMessages |-> <<>>, broken |-> u.broken]
  BY <1>3 DEF WithoutMessages
<1> QED  BY <1>1, <1>5, <1>6, Zenon DEF NewUnitOfWork

\* A new unit of work has seen nothing and can commit.
LEMMA NewUnitFields ==
    /\ NewUnitOfWork.broken = FALSE
    /\ NewUnitOfWork.seen = <<>>
    /\ WithoutMessages(NewUnitOfWork) = NewUnitOfWork
<1>1. \A b : LET w == [seen |-> <<>>, newMessages |-> <<>>, broken |-> b]
             IN  WithoutMessages(w) = w
  BY DEF WithoutMessages
<1>2. WithoutMessages(NewUnitOfWork) = NewUnitOfWork
  BY <1>1, Zenon DEF NewUnitOfWork
<1>3. NewUnitOfWork.broken = FALSE /\ NewUnitOfWork.seen = <<>>
  BY DEF NewUnitOfWork
<1> QED  BY <1>2, <1>3

\* Seeing a product does not finish the transaction.
LEMMA SeeingBroken ==
    ASSUME NEW w, GoodUnit(w), NEW sku, NEW p
    PROVE  Seeing(w, sku, p).broken = w.broken
BY DEF Seeing, GoodUnit

\* Reallocate, or the command Allocate, with a new unit of work.
LEMMA AllocateOfNewUnit ==
    ASSUME CommitsSucceed, NEW s, GoodStore(s), NEW line \in OrderLine,
           NEW r \in HandleAllocate(s, NewUnitOfWork, line)
    PROVE  \/ r = Threw(s, NewUnitOfWork) /\ line.sku \notin DOMAIN s
           \/ /\ line.sku \in DOMAIN s
              /\ \E q \in AfterAllocate(s[line.sku], line) :
                    /\ Good(line.sku, q)
                    /\ GoodUnit(Seeing(NewUnitOfWork, line.sku, q))
                    /\ Seeing(NewUnitOfWork, line.sku, q).broken = FALSE
                    /\ r \in Commit(s, Seeing(NewUnitOfWork, line.sku, q))
<1> DEFINE w == NewUnitOfWork
<1>1. GoodUnit(w) /\ DOMAIN w.seen = {} /\ w.broken = FALSE
  BY NewUnitOfWorkGood, NewUnitFields, EmptyMap
<1> HIDE DEF w
<1>2. Known(s, w, line.sku) <=> line.sku \in DOMAIN s
  BY <1>1 DEF Known
<1>3. CASE line.sku \notin DOMAIN s
  BY <1>2, <1>3 DEF HandleAllocate, w
<1>4. CASE line.sku \in DOMAIN s
  <2>1. line.sku \in Skus /\ Good(line.sku, s[line.sku])
    BY <1>4 DEF GoodStore, GoodProducts
  <2>2. DOMAIN s[line.sku].batches # {}
    BY <2>1 DEF Good
  <2>3. Get(s, w, line.sku) = s[line.sku]
    BY <1>1 DEF Get
  <2>4. PICK q \in AfterAllocate(s[line.sku], line) :
           r \in Commit(s, Seeing(w, line.sku, q))
    BY <1>1, <1>2, <1>4, <2>2, <2>3 DEF HandleAllocate, w
  <2>5. Good(line.sku, q)
    BY <2>1, MethodsGood
  <2>6. GoodUnit(Seeing(w, line.sku, q)) /\ Seeing(w, line.sku, q).broken = FALSE
    BY <1>1, <2>1, <2>5, SeeingGood, SeeingBroken
  <2> QED  BY <1>4, <2>4, <2>5, <2>6 DEF w
<1> QED  BY <1>3, <1>4

(***************************************************************************)
(* What a command makes of the product of one SKU, and the commit that     *)
(* writes it.                                                              *)
(***************************************************************************)
Stored(s, sku) == IF sku \in DOMAIN s THEN s[sku] ELSE NewProduct

Turns(s, command, sku, q) ==
    \/ /\ command.type = "CreateBatch"
       /\ sku = command.batch.sku
       /\ Admissible(Stored(s, sku).batches, sku, command.batch)
       /\ q = WithBatch(Stored(s, sku), command.batch)
    \/ /\ command.type = "Allocate"
       /\ sku = command.line.sku
       /\ sku \in DOMAIN s
       /\ q \in AfterAllocate(s[sku], command.line)
    \/ /\ command.type = "ChangeBatchQuantity"
       /\ sku \in DOMAIN s
       /\ command.ref \in DOMAIN s[sku].batches
       /\ q \in AfterChange(s[sku], command.ref, command.qty)

CommitsProduct(s, sku, q, r) ==
    /\ sku \in Skus
    /\ Good(sku, q)
    /\ GoodUnit(Seeing(NewUnitOfWork, sku, q))
    /\ Seeing(NewUnitOfWork, sku, q).broken = FALSE
    /\ r \in Commit(s, Seeing(NewUnitOfWork, sku, q))

\* A good product, seen by a new unit of work that commits.
LEMMA ProductCommitted ==
    ASSUME NEW sku \in Skus, NEW q, Good(sku, q), NEW s,
           NEW r \in Commit(s, Seeing(NewUnitOfWork, sku, q))
    PROVE  CommitsProduct(s, sku, q, r)
BY NewUnitOfWorkGood, NewUnitFields, SeeingGood, SeeingBroken
   DEF CommitsProduct

\* CreateBatch throws and leaves the store alone, or commits its product.
LEMMA CreateBatchOutcome ==
    ASSUME NEW s, GoodStore(s), NEW command \in Command,
           command.type = "CreateBatch",
           NEW r \in HandleCreateBatch(s, NewUnitOfWork, command.batch)
    PROVE  \/ r.threw = TRUE /\ r.store = s
           \/ \E sku, q : /\ Turns(s, command, sku, q)
                          /\ CommitsProduct(s, sku, q, r)
<1> DEFINE w == NewUnitOfWork
           b == command.batch
           sku == b.sku
           p == IF Known(s, w, sku) THEN Get(s, w, sku) ELSE NewProduct
<1>1. b \in BatchType /\ b.allocations = {} /\ b.purchased <= IntMax
  BY DEF Command
<1>2. DOMAIN w.seen = {}
  BY NewUnitFields, EmptyMap
<1>3. p = Stored(s, sku)
  BY <1>2 DEF Known, Get, Stored
<1>4. sku \in Skus
  BY <1>1 DEF BatchType
<1>5. Sound(sku, Stored(s, sku))
  BY NewProductSound DEF Stored, GoodStore, GoodProducts, Good
<1>6. CASE Admissible(p.batches, sku, b)
  <2>1. r \in Commit(s, Seeing(w, sku, WithBatch(p, b)))
    BY <1>6 DEF HandleCreateBatch
  <2> DEFINE q == WithBatch(Stored(s, sku), b)
  <2>2. r \in Commit(s, Seeing(w, sku, q))
    BY <1>3, <2>1
  <2>3. Good(sku, q)
    BY <1>1, <1>5, WithBatchSound DEF Good
  <2>4. Turns(s, command, sku, q)
    BY <1>3, <1>6 DEF Turns
  <2> HIDE DEF q, sku
  <2>5. CommitsProduct(s, sku, q, r)
    BY <1>4, <2>2, <2>3, ProductCommitted
  <2> QED  BY <2>4, <2>5
<1>7. CASE ~Admissible(p.batches, sku, b)
  <2>1. r = Threw(s, Seeing(w, sku, p))
    BY <1>7 DEF HandleCreateBatch
  <2> QED  BY <2>1, ResultFields
<1> QED  BY <1>6, <1>7

\* So does Allocate.
LEMMA AllocateOutcome ==
    ASSUME NEW s, GoodStore(s), NEW command \in Command,
           command.type = "Allocate", CommitsSucceed,
           NEW r \in HandleAllocate(s, NewUnitOfWork, command.line)
    PROVE  \/ r.threw = TRUE /\ r.store = s
           \/ \E sku, q : /\ Turns(s, command, sku, q)
                          /\ CommitsProduct(s, sku, q, r)
<1>1. command.line \in OrderLine /\ command.line.sku \in Skus
  BY DEF Command, OrderLine
<1>2. CASE r = Threw(s, NewUnitOfWork)
  BY <1>2, ResultFields
<1>3. CASE command.line.sku \in DOMAIN s
  <2>1. CASE \E q \in AfterAllocate(s[command.line.sku], command.line) :
                /\ Good(command.line.sku, q)
                /\ r \in Commit(s, Seeing(NewUnitOfWork, command.line.sku, q))
    <3>1. PICK q \in AfterAllocate(s[command.line.sku], command.line) :
             /\ Good(command.line.sku, q)
             /\ r \in Commit(s, Seeing(NewUnitOfWork, command.line.sku, q))
      BY <2>1
    <3>2. CommitsProduct(s, command.line.sku, q, r)
      BY <1>1, <3>1, ProductCommitted
    <3>3. Turns(s, command, command.line.sku, q)
      BY <1>3, <3>1 DEF Turns
    <3> QED  BY <3>2, <3>3
  <2> QED  BY <1>1, <1>2, <1>3, <2>1, AllocateOfNewUnit
<1> QED  BY <1>1, <1>2, <1>3, AllocateOfNewUnit

\* So does ChangeBatchQuantity.
LEMMA ChangeOutcome ==
    ASSUME NEW s, GoodStore(s), NEW command \in Command,
           command.type = "ChangeBatchQuantity",
           NEW r \in HandleChangeBatchQuantity(s, NewUnitOfWork,
                                               command.ref, command.qty)
    PROVE  \/ r.threw = TRUE /\ r.store = s
           \/ \E sku, q : /\ Turns(s, command, sku, q)
                          /\ CommitsProduct(s, sku, q, r)
<1> DEFINE w == NewUnitOfWork
           ref == command.ref
           qty == command.qty
<1>1. DOMAIN w.seen = {}
  BY NewUnitFields, EmptyMap
<1>2. ByBatchRef(s, w, ref) = Owners(s, ref)
  BY <1>1 DEF ByBatchRef, Owners
<1>3. qty \in 0 .. IntMax
  BY DEF Command
<1>4. CASE Owners(s, ref) = {}
  <2>1. r = Threw(s, w)
    BY <1>2, <1>4 DEF HandleChangeBatchQuantity
  <2> QED  BY <2>1, ResultFields
<1>5. CASE Owners(s, ref) # {}
  <2>1. PICK sku \in Owners(s, ref) :
           \E q \in AfterChange(Get(s, w, sku), ref, qty) :
              r \in Commit(s, Seeing(w, sku, q))
    BY <1>2, <1>5 DEF HandleChangeBatchQuantity
  <2>2. Get(s, w, sku) = s[sku]
    BY <1>1 DEF Get
  <2>3. PICK q \in AfterChange(s[sku], ref, qty) :
           r \in Commit(s, Seeing(w, sku, q))
    BY <2>1, <2>2
  <2>4. /\ sku \in Skus /\ Good(sku, s[sku]) /\ sku \in DOMAIN s
        /\ ref \in DOMAIN s[sku].batches
    BY DEF Owners, GoodStore, GoodProducts
  <2>5. Good(sku, q)
    BY <1>3, <2>4, MethodsGood
  <2>6. CommitsProduct(s, sku, q, r)
    BY <2>3, <2>4, <2>5, ProductCommitted
  <2>7. Turns(s, command, sku, q)
    BY <2>3, <2>4 DEF Turns
  <2> QED  BY <2>6, <2>7
<1> QED  BY <1>4, <1>5

\* Whatever handler the bus has for a command, or none: it throws and leaves
\* the store alone, or it commits one product.
LEMMA CalledOutcome ==
    ASSUME CommitsSucceed, GoodStore(store), uow = NewUnitOfWork,
           NEW command \in Command, NEW r \in Called(command)
    PROVE  \/ r.threw = TRUE /\ r.store = store
           \/ \E sku, q : /\ Turns(store, command, sku, q)
                          /\ CommitsProduct(store, sku, q, r)
<1>1. CASE command.type \notin DOMAIN Bus.commands
  <2>1. r = Threw(store, uow)
    BY <1>1 DEF Called
  <2> QED  BY <2>1, ResultFields
<1>2. CASE command.type \in DOMAIN Bus.commands
  <2> DEFINE handler == Bus.commands[command.type]
  <2>1. handler \in CommandHandlerFor(command.type)
    BY <1>2, ServiceAssumption
  <2>2. r \in HandleCommand(store, NewUnitOfWork, handler, command)
    BY <1>2 DEF Called
  <2> HIDE DEF handler
  <2>3. CASE command.type = "CreateBatch"
    <3>1. handler = "AddBatch"
      BY <2>1, <2>3 DEF CommandHandlerFor
    <3>2. r \in HandleCreateBatch(store, NewUnitOfWork, command.batch)
      BY <2>2, <3>1 DEF HandleCommand
    <3> QED  BY <2>3, <3>2, CreateBatchOutcome
  <2>4. CASE command.type = "Allocate"
    <3>1. handler = "Allocate"
      BY <2>1, <2>4 DEF CommandHandlerFor
    <3>2. r \in HandleAllocate(store, NewUnitOfWork, command.line)
      BY <2>2, <3>1 DEF HandleCommand
    <3> QED  BY <2>4, <3>2, AllocateOutcome
  <2>5. CASE command.type = "ChangeBatchQuantity"
    <3>1. handler = "ChangeBatchQuantity"
      BY <2>1, <2>5 DEF CommandHandlerFor
    <3>2. r \in HandleChangeBatchQuantity(store, NewUnitOfWork, command.ref,
                                          command.qty)
      BY <2>2, <3>1 DEF HandleCommand
    <3> QED  BY <2>5, <3>2, ChangeOutcome
  <2> QED  BY <2>3, <2>4, <2>5 DEF Command
<1> QED  BY <1>1, <1>2

\* While commits succeed, every step leaves a new unit of work behind.
LEMMA UnitStaysNew ==
    ASSUME CommitsSucceed, IInv, uow = NewUnitOfWork, [Next]_vars
    PROVE  uow' = NewUnitOfWork
<1>1. CASE \E command \in Command : Request(command)
  BY <1>1 DEF Request
<1>2. CASE BusHandlesCommand
  <2>1. PICK command \in Command : queue = <<command>>
    <3>1. queue \notin Seq(Event)
      BY <1>2, EventIsNoCommand, HeadTailProperties DEF BusHandlesCommand
    <3> QED  BY <3>1 DEF IInv, QueueOK
  <2>2. Head(queue) = command
    BY <2>1
  <2>3. PICK r \in Called(command) :
           IF r.threw THEN uow' = NewUnitOfWork
                      ELSE uow' = WithoutMessages(r.uow)
    BY <1>2, <2>2 DEF BusHandlesCommand
  <2>4. CASE r.threw = TRUE
    BY <2>3, <2>4
  <2>5. CASE \E sku, q : CommitsProduct(store, sku, q, r)
    <3>1. r.threw = FALSE /\ WithoutMessages(r.uow) = NewUnitOfWork
      BY <2>5, NewAfterCommit DEF CommitsProduct
    <3> QED  BY <2>3, <3>1
  <2> QED  BY <2>4, <2>5, CalledOutcome DEF IInv
<1>3. CASE BusTakesEvent
  BY <1>3 DEF BusTakesEvent
<1>4. CASE Returns(uow) \/ Throws(uow)
  BY <1>4, NewUnitFields DEF Returns, Throws
<1>5. CASE Reallocate
  <2>1. /\ delivery.event \in Event
        /\ "Reallocate" \in EventHandlerFor(delivery.event.type)
    BY <1>5, HeadTailProperties DEF IInv, DeliveryOK, Reallocate, Due
  <2>2. delivery.event.line \in OrderLine
    BY <2>1 DEF Event, EventHandlerFor
  <2>3. PICK r \in HandleAllocate(store, NewUnitOfWork, delivery.event.line) :
           IF r.threw THEN Throws(r.uow) ELSE Returns(r.uow)
    BY <1>5 DEF Reallocate
  <2>4. CASE r = Threw(store, NewUnitOfWork)
    BY <2>3, <2>4, ResultFields DEF Throws
  <2>5. CASE \E w : GoodUnit(w) /\ w.broken = FALSE /\ r \in Commit(store, w)
    <3>1. r.threw = FALSE /\ WithoutMessages(r.uow) = NewUnitOfWork
      BY <2>5, NewAfterCommit
    <3> QED  BY <2>3, <3>1 DEF Returns
  <2> QED  BY <2>2, <2>4, <2>5, AllocateOfNewUnit DEF IInv
<1>6. CASE FinishRequest
  BY <1>6 DEF FinishRequest
<1>7. CASE UNCHANGED vars
  BY <1>7 DEF vars
<1> QED
  BY <1>1, <1>2, <1>3, <1>4, <1>5, <1>6, <1>7, RequestsAreCommands
     DEF Next, BusStep, AddAllocationToReadModel,
         RemoveAllocationFromReadModel, SendOutOfStockNotification

-----------------------------------------------------------------------------
(***************************************************************************)
(* Every refusal is notified once.                                         *)
(***************************************************************************)
OnceInv ==
    /\ LastNotifier(delivery)
    /\ uow = NewUnitOfWork
    /\ RefusalsNotifiedOnce

\* At first nothing is refused, and the unit of work is new.
LEMMA OnceInit ==
    ASSUME Init
    PROVE  OnceInv
<1>1. LastNotifier(delivery) /\ uow = NewUnitOfWork
  BY DEF Init, LastNotifier
<1>2. ASSUME NEW sku \in Skus PROVE refused[sku] = emails[sku] + Pending(sku)
  <2>1. /\ uow.newMessages \in Seq(Event) /\ Len(uow.newMessages) = 0
        /\ queue \in Seq(Event) /\ queue = <<>>
    BY EmptySeq DEF Init, NewUnitOfWork
  <2>2. DeliveryOK(delivery) /\ PassedOn(delivery, sku) = 0
    BY DEF Init, DeliveryOK, PassedOn
  <2>3. Refusals(queue, sku) = 0
    BY <2>1, RefusalsOfOne
  <2>4. Pending(sku) = 0
    BY <2>1, <2>2, <2>3, PendingOfQueue, PendingNow
  <2> QED  BY <2>4 DEF Init
<1> QED  BY <1>1, <1>2 DEF OnceInv, RefusalsNotifiedOnce

\* Every step keeps the balance of refusals, notifications and what is between.
LEMMA OnceStep ==
    ASSUME OneNotifier, CommitsSucceed, IInv, OnceInv, [Next]_vars
    PROVE  OnceInv'
<1>1. LastNotifier(delivery) /\ uow = NewUnitOfWork
  BY DEF OnceInv
<1>2. \A sku \in Skus : /\ refused[sku] = emails[sku] + Pending(sku)
                        /\ refused[sku] \in Nat /\ emails[sku] \in Nat
  BY DEF OnceInv, RefusalsNotifiedOnce, IInv, HistoryOK
<1>3. uow' = NewUnitOfWork
  BY <1>1, UnitStaysNew
<1>4. LastNotifier(delivery')
  <2>1. AtMostOneNotifier
    <3>1. 1 <= 1
      OBVIOUS
    <3> QED  BY <3>1, Zenon DEF AtMostOneNotifier, OneNotifier
  <2> QED  BY <1>1, <2>1, NotifierStaysLast
<1> SUFFICES ASSUME NEW sku \in Skus
             PROVE  refused'[sku] = emails'[sku] + Pending(sku)'
  BY <1>3, <1>4 DEF OnceInv, RefusalsNotifiedOnce
<1>5. CASE (\/ \E command \in Commands : Request(command)
            \/ \E dto \in Dtos : \E command \in MakeCommand(dto) : Request(command))
           \/ FinishRequest
  <2>1. /\ Pending(sku)' = 0 /\ Pending(sku) = 0
        /\ refused' = refused /\ emails' = emails
    BY <1>1, <1>5, RequestsAreCommands, BoundaryBalance
  <2> QED  BY <1>2, <2>1
<1>6. CASE BusHandlesCommand
  <2>1. /\ Pending(sku) = 0 /\ emails' = emails
        /\ \/ refused' = refused /\ Pending(sku)' = 0
           \/ refused'[sku] = refused[sku] + Pending(sku)'
    BY <1>6, CommandBalance
  <2> QED  BY <1>2, <2>1
<1>7. CASE BusTakesEvent
  <2>1. /\ Pending(sku)' = Pending(sku)
                              - (IF Head(queue) = OutOfStock(sku) THEN 1 ELSE 0)
                              + PassedOn(delivery', sku)
        /\ Pending(sku) \in Nat
        /\ PassedOn(delivery', sku) = 1 <=> Head(queue) = OutOfStock(sku)
        /\ PassedOn(delivery', sku) \in {0, 1}
    BY <1>7, TakeBalance
  <2>2. refused' = refused /\ emails' = emails
    BY <1>7 DEF BusTakesEvent
  <2> QED  BY <1>2, <2>1, <2>2
<1>8. CASE AddAllocationToReadModel \/ RemoveAllocationFromReadModel
  BY <1>2, <1>8, ReadModelBalance
<1>9. CASE SendOutOfStockNotification
  <2>1. /\ emails'[sku] + Pending(sku)' = emails[sku] + Pending(sku)
        /\ refused' = refused
    BY <1>1, <1>9, SendBalance
  <2> QED  BY <1>2, <2>1
<1>10. CASE Reallocate
  <2>1. /\ refused'[sku] - Pending(sku)' = refused[sku] - Pending(sku)
        /\ refused'[sku] \in Nat /\ Pending(sku) \in Nat /\ Pending(sku)' \in Nat
        /\ emails' = emails
    BY <1>10, ReallocateBalance
  <2> QED  BY <1>2, <2>1
<1>11. CASE UNCHANGED vars
  BY <1>2, <1>11, StutterBalance
<1> QED
  BY <1>5, <1>6, <1>7, <1>8, <1>9, <1>10, <1>11 DEF Next, BusStep

(***************************************************************************)
(* While OutOfStock has its one subscriber and commits succeed, every      *)
(* refusal, by a command or far down a chain of reallocations, is notified *)
(* exactly once: what was refused is what was notified and what is on its  *)
(* way.  A failing read model does not change that.                        *)
(***************************************************************************)
THEOREM EveryRefusalNotifiedOnce ==
    ASSUME OneNotifier, CommitsSucceed
    PROVE  Spec => []RefusalsNotifiedOnce
<1>1. Init => IInv /\ OnceInv
  BY InitGood, OnceInit
<1>2. IInv /\ OnceInv /\ [Next]_vars => IInv' /\ OnceInv'
  BY StepGood, OnceStep
<1>3. OnceInv => RefusalsNotifiedOnce
  BY DEF OnceInv
<1> QED  BY <1>1, <1>2, <1>3, PTL DEF Spec
=============================================================================
