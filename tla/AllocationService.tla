-------------------------- MODULE AllocationService --------------------------
(***************************************************************************)
(* Requests going through the message bus: a command, the events it        *)
(* raises, their subscribers, and what these leave behind in the store,    *)
(* in the read model and in the mailbox.  One request at a time; each has  *)
(* its own unit of work, as in the REST handlers, and the bus takes one    *)
(* step per handler it calls: src/src/ServiceLayer/MessageBus.             *)
(***************************************************************************)
EXTENDS Handlers, MessageBus

CONSTANTS
    Commands,       \* the commands given to the bus as they are (the tests)
    Dtos,           \* the commands of REST clients, before MakeCommand
    UnsetEtas,      \* the dates a year_month_day that was never set may be
    Bus,            \* the handlers of the message bus
    MaxRequests     \* bound: requests served

Command ==
    [type : {"CreateBatch"}, batch : {b \in BatchType : /\ b.allocations = {}
                                                       /\ b.purchased <= IntMax}]
      \cup [type : {"Allocate"}, line : OrderLine]
      \cup [type : {"ChangeBatchQuantity"}, ref : Refs, qty : 0 .. IntMax]

(***************************************************************************)
(* Quantities fit an int32_t, the domain of the operator Releases.         *)
(***************************************************************************)
ASSUME ServiceAssumption ==
    /\ Commands \cup Dtos \subseteq Command
    /\ UnsetEtas \subseteq Nat
    /\ DOMAIN Bus.events \subseteq EventType
    /\ \A type \in DOMAIN Bus.events :
          Bus.events[type] \in Seq(EventHandlerFor(type))
    /\ DOMAIN Bus.commands \subseteq CommandType
    /\ \A type \in DOMAIN Bus.commands :
          Bus.commands[type] \in CommandHandlerFor(type)
    /\ MaxRequests \in Nat

VARIABLES
    store,          \* the committed products, by SKU
    view,           \* allocations_view: how often it has each row
    emails,         \* notifications sent, by SKU
    uow,            \* the unit of work of the request
    queue,          \* the messages the bus has still to handle
    delivery,       \* the event being handled and its remaining subscribers
    serving,        \* a request is being served
    reply,          \* the answer to the last request
    served,         \* requests taken so far
    refused,        \* history: how often a line of each SKU was refused
    accepted        \* history: the lines clients were told are allocated

vars == <<store, view, emails, uow, queue, delivery, serving, reply, served,
          refused, accepted>>

Row(orderid, sku, ref) == [orderid |-> orderid, sku |-> sku, batchref |-> ref]

NoDelivery == [event |-> <<>>, left |-> <<>>]

Delivering(event, left) ==
    IF left = <<>> THEN NoDelivery ELSE [event |-> event, left |-> left]

IsEvent(message) == message.type \in EventType

Refusals(messages, sku) ==
    Cardinality({i \in DOMAIN messages :
                    messages[i].type = "OutOfStock" /\ messages[i].sku = sku})

\* The lines these messages report as allocated.
Placed(messages) ==
    {message.line : message \in {m \in ToSet(messages) : m.type = "Allocated"}}

\* The events a handler's unit of work gained.
Raised(before, after) ==
    SubSeq(after.newMessages, Len(before.newMessages) + 1,
           Len(after.newMessages))

Init ==
    /\ store = <<>>
    /\ view = EmptyBag
    /\ emails = [sku \in Skus |-> 0]
    /\ uow = NewUnitOfWork
    /\ queue = <<>>
    /\ delivery = NoDelivery
    /\ serving = FALSE
    /\ reply = "none"
    /\ served = 0
    /\ refused = [sku \in Skus |-> 0]
    /\ accepted = {}

-----------------------------------------------------------------------------
(***************************************************************************)
(* The command factory: the eta of a CreateBatch is a year_month_day that  *)
(* is only set when the request has one, and is handed on in any case.     *)
(***************************************************************************)
MakeCommand(dto) ==
    IF dto.type = "CreateBatch" /\ dto.batch.eta = NoEta
    THEN {CreateBatch([dto.batch EXCEPT !.eta = eta]) : eta \in UnsetEtas}
    ELSE {dto}

(***************************************************************************)
(* An entry point makes a unit of work and gives the bus its command.  The *)
(* REST handlers do so for CreateBatch and Allocate; ChangeBatchQuantity   *)
(* has no entry point yet and comes from the tests.                        *)
(***************************************************************************)
Request(command) ==
    /\ ~serving
    /\ served < MaxRequests
    /\ serving' = TRUE
    /\ reply' = "none"
    /\ served' = served + 1
    /\ uow' = NewUnitOfWork
    /\ queue' = <<command>>
    /\ UNCHANGED <<store, view, emails, delivery, refused, accepted>>

\* What the handlers of this step decided, for the properties.
Record(before, after) ==
    refused' = [sku \in Skus |->
                  refused[sku] + Refusals(Raised(before, after), sku)]

\* Handle looks for the handler of the command, and throws without one.
Called(command) ==
    IF command.type \in DOMAIN Bus.commands
    THEN HandleCommand(store, uow, Bus.commands[command.type], command)
    ELSE {Threw(store, uow)}

(***************************************************************************)
(* A command handler returns: what it raised joins the queue.  Or it       *)
(* throws: the exception leaves Handle, and the queue goes with it.        *)
(***************************************************************************)
BusHandlesCommand ==
    /\ queue # <<>>
    /\ ~IsEvent(Head(queue))
    /\ \E result \in Called(Head(queue)) :
         /\ store' = result.store
         /\ IF result.threw
            THEN /\ queue' = <<>>
                 /\ uow' = NewUnitOfWork
                 /\ serving' = FALSE
                 /\ reply' = "error"
                 /\ UNCHANGED <<refused, accepted>>
            ELSE /\ queue' = Tail(queue) \o result.uow.newMessages
                 /\ uow' = WithoutMessages(result.uow)
                 /\ Record(uow, result.uow)
                 /\ accepted' = accepted \cup Placed(result.uow.newMessages)
                 /\ UNCHANGED <<serving, reply>>
    /\ UNCHANGED <<view, emails, delivery, served>>

BusTakesEvent ==
    /\ queue # <<>>
    /\ delivery = NoDelivery
    /\ IsEvent(Head(queue))
    /\ queue' = Tail(queue)
    /\ delivery' = Delivering(Head(queue), SubscribersOf(Bus, Head(queue).type))
    /\ UNCHANGED <<store, view, emails, uow, serving, reply, served, refused,
                   accepted>>

\* The next subscriber of the event being handled is s.
Due(s) == delivery # NoDelivery /\ Head(delivery.left) = s

\* The subscriber has returned: what the unit of work raised joins the queue.
Returns(after) ==
    /\ queue' = queue \o after.newMessages
    /\ uow' = WithoutMessages(after)
    /\ delivery' = Delivering(delivery.event, Tail(delivery.left))

\* Faulty variant: the event goes back to the queue to be tried again.
Throws_Retries(after) ==
    /\ uow' = after
    /\ delivery' = NoDelivery
    /\ queue' = Append(queue, delivery.event)

\* The subscriber has thrown: the bus logs it and calls the next one.
Throws(after) ==
    /\ uow' = after
    /\ delivery' = Delivering(delivery.event, Tail(delivery.left))
    /\ UNCHANGED queue

-----------------------------------------------------------------------------
\* The subscribers.

AddAllocationToReadModel ==
    LET event == delivery.event
        row   == Row(event.line.reference, event.line.sku, event.batchref)
    IN  /\ Due("AddAllocationToReadModel")
        /\ \/ /\ view' = view (+) SetToBag({row})
              /\ Returns(uow)
           \/ /\ "view" \in Failures
              /\ Throws(uow)
              /\ UNCHANGED view
        /\ UNCHANGED <<store, emails, serving, reply, served, refused, accepted>>

\* Faulty variant: the two arguments of the statement are swapped.
RowsWithout_SwappedArguments(line) ==
    {row \in DOMAIN view :
        ~(row.orderid = line.sku /\ row.sku = line.reference)}

\* DELETE ... WHERE orderid = $1 AND sku = $2
RowsWithout(line) ==
    {row \in DOMAIN view :
        ~(row.orderid = line.reference /\ row.sku = line.sku)}

RemoveAllocationFromReadModel ==
    /\ Due("RemoveAllocationFromReadModel")
    /\ \/ /\ view' = [row \in RowsWithout(delivery.event.line) |-> view[row]]
          /\ Returns(uow)
       \/ /\ "view" \in Failures
          /\ Throws(uow)
          /\ UNCHANGED view
    /\ UNCHANGED <<store, emails, serving, reply, served, refused, accepted>>

SendOutOfStockNotification ==
    /\ Due("SendOutOfStockNotification")
    /\ emails' = [emails EXCEPT ![delivery.event.sku] = @ + 1]
    /\ Returns(uow)
    /\ UNCHANGED <<store, view, serving, reply, served, refused, accepted>>

Reallocate ==
    /\ Due("Reallocate")
    /\ \E result \in HandleAllocate(store, uow, delivery.event.line) :
         /\ store' = result.store
         /\ IF result.threw THEN Throws(result.uow) ELSE Returns(result.uow)
         /\ Record(uow, result.uow)
    /\ UNCHANGED <<view, emails, serving, reply, served, accepted>>

\* The queue is empty: Handle returns and the handler answers.
FinishRequest ==
    /\ serving
    /\ queue = <<>>
    /\ delivery = NoDelivery
    /\ serving' = FALSE
    /\ reply' = "ok"
    /\ uow' = NewUnitOfWork
    /\ UNCHANGED <<store, view, emails, queue, delivery, served, refused,
                   accepted>>

BusStep ==
    \/ BusHandlesCommand
    \/ BusTakesEvent
    \/ AddAllocationToReadModel
    \/ RemoveAllocationFromReadModel
    \/ SendOutOfStockNotification
    \/ Reallocate
    \/ FinishRequest

Next ==
    \/ \E command \in Commands : Request(command)
    \/ \E dto \in Dtos : \E command \in MakeCommand(dto) : Request(command)
    \/ BusStep

\* Handle is synchronous code: a request that was taken is worked on.
Spec == Init /\ [][Next]_vars /\ WF_vars(BusStep)

-----------------------------------------------------------------------------
ProductsOK(products) ==
    /\ products = [sku \in DOMAIN products |-> products[sku]]
    /\ DOMAIN products \subseteq Skus
    /\ \A sku \in DOMAIN products : ProductOK(sku, products[sku])

UnitOfWorkOK(w) ==
    /\ w = [seen |-> w.seen, newMessages |-> w.newMessages, broken |-> w.broken]
    /\ ProductsOK(w.seen)
    /\ w.newMessages \in Seq(Event)
    /\ w.broken \in BOOLEAN

(***************************************************************************)
(* The type invariant.  It includes what the port of the store and the unit *)
(* of work are for: no event stays behind in a stored product              *)
(* (AbstractUnitOfWork.cpp:10-15), and every batch and line is under its   *)
(* own SKU.                                                                *)
(***************************************************************************)
TypeOK ==
    /\ ProductsOK(store)
    /\ \A sku \in DOMAIN store : /\ store[sku].messages = <<>>
                                 /\ DOMAIN store[sku].batches # {}
    /\ UnitOfWorkOK(uow)
    /\ queue \in Seq(Event \cup Command)
    /\ \/ delivery = NoDelivery
       \/ /\ delivery = [event |-> delivery.event, left |-> delivery.left]
          /\ delivery.event \in Event
          /\ delivery.left \in Seq(EventHandlerFor(delivery.event.type)) \ {<<>>}
    /\ emails \in [Skus -> Nat]
    /\ refused \in [Skus -> Nat]
    /\ accepted \subseteq OrderLine
    /\ serving \in BOOLEAN
    /\ reply \in {"none", "ok", "error"}
    /\ served \in 0 .. MaxRequests

\* A line is held by the given batch of the store, or by some batch of it.
Holds(line, ref) ==
    /\ line.sku \in DOMAIN store
    /\ ref \in DOMAIN store[line.sku].batches
    /\ line \in store[line.sku].batches[ref].allocations

Held(line) == \E ref \in Refs : Holds(line, ref)

HeldRows ==
    UNION {UNION {{Row(line.reference, sku, ref) :
                      line \in store[sku].batches[ref].allocations} :
                  ref \in DOMAIN store[sku].batches} :
           sku \in DOMAIN store}

(***************************************************************************)
(* No stored batch holds more than was purchased, whatever chain of        *)
(* commands, reductions and reallocations led to it, and whichever of      *)
(* their commits failed: a reduction and the reallocations it causes are   *)
(* commits of their own (Handlers.cpp:37-51).                              *)
(***************************************************************************)
StoreSound ==
    \A sku \in DOMAIN store : \A r \in DOMAIN store[sku].batches :
        Total(store[sku].batches[r].allocations)
          <= store[sku].batches[r].purchased

Pending(sku) ==
    Refusals(uow.newMessages \o queue, sku)
      + Cardinality({e \in {delivery.event} :
                       e # <<>> /\ e = OutOfStock(sku)})

(***************************************************************************)
(* Every refusal, by a command or far down a chain of reallocations, is    *)
(* notified exactly once: its event goes from the aggregate through the    *)
(* unit of work and the queue to the mailbox and is neither lost nor       *)
(* repeated (AbstractUnitOfWork.cpp:10-16, MessageBus.cpp:53-57).          *)
(***************************************************************************)
RefusalsNotifiedOnce ==
    \A sku \in Skus : refused[sku] = emails[sku] + Pending(sku)

(***************************************************************************)
(* The same while commits may fail: a refusal may then go unnotified, but  *)
(* an event left behind by a failed commit and passed on by a later        *)
(* subscriber is still not passed on twice.                                *)
(***************************************************************************)
NoSpareNotification ==
    \A sku \in Skus : refused[sku] >= emails[sku] + Pending(sku)

(***************************************************************************)
(* A line a client was told is allocated is never lost without a word:     *)
(* between requests it is held by a batch, or a notification that its SKU  *)
(* is out of stock was sent for it (Handlers.cpp:37-51: the reduction      *)
(* throws lines out, Reallocate places or refuses each of them).           *)
(***************************************************************************)
AcceptedLinesAccounted ==
    ~serving =>
        \A sku \in Skus :
            Cardinality({l \in accepted : l.sku = sku /\ ~Held(l)})
              <= emails[sku]

(***************************************************************************)
(* Between requests the read model shows nothing that is not so: each of   *)
(* its rows is the allocation of a line of that order to that batch.  The  *)
(* rows are written one event at a time after the commits they report, and *)
(* one reduction may throw out lines, and place lines, of one order        *)
(* (Handlers.cpp:53-65).  It needs storage that does not fail.  One test   *)
(* expects the row of a line that was moved to remain                      *)
(* (Views_test.cpp:50-64): see RowsOfMovedLinesStay.                       *)
(***************************************************************************)
RowsAreHeld == ~serving => DOMAIN view \subseteq HeldRows

(***************************************************************************)
(* Every request is answered: the events a command raises raise finitely   *)
(* many others, and no failure of a subscriber stops the bus               *)
(* (MessageBus.cpp:19-37).                                                 *)
(***************************************************************************)
HandleEnds == serving ~> ~serving /\ reply # "none"

-----------------------------------------------------------------------------
(***************************************************************************)
(* Statements of the repository that the code does not keep.               *)
(***************************************************************************)

(***************************************************************************)
(* The handler of Deallocated removes the deallocated line from the read   *)
(* model (Handlers.hpp:58) and the handler of Allocated adds every         *)
(* allocated one, so a line that is held has its row.  The row is deleted  *)
(* by order and SKU: those of another line of that order and SKU go too.   *)
(***************************************************************************)
HeldLinesAreInView == ~serving => HeldRows \subseteq DOMAIN view

(***************************************************************************)
(* The test of the views expects, after a reduction has moved a line to    *)
(* another batch, a row for each of the two batches                        *)
(* (Views_test.cpp:50-64): a row does not go while another batch has room  *)
(* for its line.  The handler of Deallocated deletes it (Handlers.cpp:64). *)
(***************************************************************************)
RowsOfMovedLinesStay ==
    [][\A row \in DOMAIN view \ DOMAIN view' :
         LET line == delivery.event.line
         IN  \A ref \in DOMAIN store[line.sku].batches :
                ~CanAllocate(store[line.sku].batches[ref], line)]_vars

\* Every request for this batch asks for goods that are in stock.
AskedAsStock(sku, ref) ==
    \A c \in Commands \cup Dtos :
        c.type = "CreateBatch" /\ c.batch.sku = sku /\ c.batch.reference = ref
            => c.batch.eta = NoEta

(***************************************************************************)
(* Goods in stock are used before deliveries, as the test                  *)
(* test_prefers_warehouse_batches_to_shipments says: a line is not placed  *)
(* in a delivery while a batch that was added without an eta has room.     *)
(***************************************************************************)
PrefersWarehouseBatches ==
    [][\A sku \in DOMAIN store : \A r \in DOMAIN store[sku].batches :
        \A line \in store'[sku].batches[r].allocations
                       \ store[sku].batches[r].allocations :
         \A s \in DOMAIN store[sku].batches :
            AskedAsStock(sku, s) /\ CanAllocate(store[sku].batches[s], line)
                => AskedAsStock(sku, r)]_vars
=============================================================================
