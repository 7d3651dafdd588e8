------------------------------ MODULE MessageBus ------------------------------
(***************************************************************************)
(* The handlers registered with the message bus, as a value: for each type *)
(* of event its subscribers in order, for each type of command its handler *)
(* (src/src/ServiceLayer/MessageBus/MessageBus.hpp and MessageBus.cpp).    *)
(***************************************************************************)
EXTENDS Sequences

EventType == {"Allocated", "Deallocated", "OutOfStock"}

CommandType == {"CreateBatch", "Allocate", "ChangeBatchQuantity"}

\* The handlers that take an event of this type.
EventHandlerFor(type) ==
    CASE type = "Allocated"   -> {"AddAllocationToReadModel"}
      [] type = "Deallocated" -> {"RemoveAllocationFromReadModel", "Reallocate"}
      [] type = "OutOfStock"  -> {"SendOutOfStockNotification"}

\* The handlers that take a command of this type.
CommandHandlerFor(type) ==
    CASE type = "CreateBatch"         -> {"AddBatch"}
      [] type = "Allocate"            -> {"Allocate"}
      [] type = "ChangeBatchQuantity" -> {"ChangeBatchQuantity"}

ClearHandlers == [events |-> <<>>, commands |-> <<>>]

\* The handlers that an event of this type is passed to, none by default.
SubscribersOf(bus, type) ==
    IF type \in DOMAIN bus.events THEN bus.events[type] ELSE <<>>

SubscribeToEvent(bus, type, subscriber) ==
    [bus EXCEPT !.events =
        [t \in DOMAIN @ \cup {type} |->
            IF t = type THEN Append(SubscribersOf(bus, type), subscriber)
                        ELSE @[t]]]

\* A command has one handler: the one set last.
SetCommandHandler(bus, type, handler) ==
    [bus EXCEPT !.commands =
        [t \in DOMAIN @ \cup {type} |-> IF t = type THEN handler ELSE @[t]]]
=============================================================================
