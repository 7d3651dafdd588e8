# Formal models of the allocation service

TLA+ models, model-checking configurations and TLAPS proofs for the service in
`src/`: a C++ service on userver that allocates order lines to batches of goods.
The models are written from the code in `src/src/`; each definition's source
lines are in `PROJECT.json` under `map`.

## The system

| Part | State | Operations | Talks to |
|---|---|---|---|
| Order line, batch (`Domain/Product/Batch.cpp`, `OrderLine.hpp`) | purchased quantity, optional ETA, a hash set of lines | `CanAllocate`, `Allocate`, `DeallocateOne`, `SetPurchasedQuantity`, `operator<` | owned by a product |
| Product aggregate (`Domain/Product/Product.cpp`) | hash map reference → batch, version, collected events | constructor, `AddBatch`, `AddBatches`, `Allocate`, `ChangeBatchQuantity`, `ClearMessages` | raises `Allocated`, `Deallocated`, `OutOfStock` |
| Command and event handlers (`ServiceLayer/MessageBus/Handlers`) | none | `AddBatch`, `Allocate`, `ChangeBatchQuantity`; `Reallocate`, two handlers of the read model, the notification | repository and unit of work; read model; mail |
| Message bus (`ServiceLayer/MessageBus/MessageBus.cpp`) | wiring of handlers; per call a queue | `Handle`, `handleCommand`, `handleEvent` | calls handlers, takes the events the unit of work gained |
| Unit of work (`ServiceLayer/UoW`) | transaction, events not yet taken, committed flag | `Commit`, `RollBack`, `GetNewMessages` | takes the events out of the seen products, then commits |
| Tracking repository (`Adapters/Repository/TrackingRepository.cpp`) | products seen in this unit of work | `Add`, `Get`, `GetByBatchRef`, `GetSeen`, `Clear` | answers from what it has seen, else from the repository |
| SQL repository (`Adapters/Repository/SqlRepository.cpp`, `queries/`, `db-1.sql`) | versions remembered as loaded; the tables | `Get`, `GetByBatchRef`, `Flush` | PostgreSQL |
| Read model (`Views.cpp`, `allocations_view`) | rows (order, SKU, batch) | insert, delete by order and SKU, select by order | written by handlers with statements of their own, outside the transaction |
| REST handlers (`Entrypoints/REST`), command factory | none | one unit of work and one `Handle` per request | the bus |
| Email stub, Redis publisher, bus component, registry, `main.cpp` | none | log; commented out; skeletons | |

A request becomes a command. Its handler loads a product through the unit of
work, calls one of its methods and commits; `Commit` first moves the product's
events into the unit of work. The bus takes them from there into its queue and
calls the subscribers of each, in order; a subscriber (`Reallocate`) may load,
change and commit again, and so raise further events. An exception of a command
handler ends the request; one of a subscriber is logged and swallowed.

What is hard in this code:

- a reduction is a loop over an unordered set that may throw half way, on
  quantities cast from `size_t` to `int32_t` (`Product.cpp:75-83`);
- the choice of a batch goes through a `std::set` whose order is not a strict
  order for two batches in stock and makes two batches of one day one element
  (`Product.cpp:50-65`, `Batch.cpp:69-76`);
- one request is a chain of separate commits, of which a later one may fail
  while the earlier ones stay (`Handlers.cpp:37-51`, `MessageBus.cpp:46-64`);
- events leave the products before the commit that makes them true
  (`AbstractUnitOfWork.cpp:10-16`);
- the read model is written one event at a time, later, outside the transaction,
  by a key that several lines share (`Handlers.cpp:53-65`);
- the version is the dirty flag of a product, and not every change moves it
  (`SqlRepository.cpp:21`, `Product.cpp:24`);
- the repository remembers a version as stored before the commit that stores it,
  writes to tables others write to, and has statements the server refuses in the
  middle of a transaction (`SqlRepository.cpp:25-44`).

What makes each part correct: a *batch* never holds more than was purchased; a
*product* releases only what does not fit, prefers stock and early deliveries,
and refuses a line only when nothing has room; the *bus* answers every request
and loses or repeats no event; *unit of work and store* keep the stored
products sound whatever fails; the *read model* shows what is allocated and
only that; the *SQL repository* remembers as stored only what is, keeps what
a commit confirmed, and whatever it is refused leaves no trace in the tables.

## Modules

| Module | What it is |
|---|---|
| `Batch` | lines and batches as values, integer widths, `operator<` |
| `Aggregate` | what the methods of the product compute, as operators on its map of batches |
| `Product` | one product as a state machine: one action per method, one per turn of the loop of `ChangeBatchQuantity`; its properties |
| `Stock` | the abstract specification `Product` implements: deliveries with a capacity that lines are placed in and released from |
| `UnitOfWork` | unit of work, tracking repository and store as values; what a commit may come to |
| `Handlers` | the handlers as results on store and unit of work |
| `MessageBus` | the handlers registered with the bus, as a value: subscribers of each event in order, one handler per command |
| `AllocationService` | composes the above: requests through the message bus, one action per handler call; command factory, read model and mailbox; its properties |
| `SqlRepository` | the tables, the statements that are reached, and `Flush` as operators on them |
| `SqlUnitOfWork` | several units of work over the SQL repository: add, load, change, commit and roll back as actions that interleave; its properties |
| `MCProduct`, `MCAllocationService`, `MCSqlUnitOfWork` | instances for TLC |
| `BatchProofs`, `HandlersProofs` | lemmas on the operators of `Batch` and `Aggregate`, and of `Handlers` |
| `ProductProofs`, `StockProofs` | theorems about `Product`, and that it implements `Stock` |
| `ServiceProofs`, `NotificationProofs`, `LineProofs` | theorems about `AllocationService`: products and store; refusals and notifications; order lines and the read model |
| `SqlProofs` | theorems about `SqlUnitOfWork` |

Correspondence, where it is not one to one:

- *Quantities.* The quantity in a set of lines is the cardinality of its set of
  units (`Units`, `Total`), which equals the sum of `GetAllocatedQuantity` and
  needs no recursion. `ToSize` and `ToInt32` are the conversions of the code;
  where a signed sum overflows, which is undefined, `Int32Results` allows the
  wrapped and the unwrapped result.
- *Hash order.* Every iteration of an unordered container is a choice: the line
  `DeallocateOne` takes, the batches that end up in the set of `Allocate`
  (`Shortlists`), the order of seen products at a commit (`Collected`,
  `Orderings`), the product that answers for a batch reference (`ByBatchRef`), the
  batch that `insertBatches` takes first.
- *The loop.* In `Product` the locals of `ChangeBatchQuantity` are the variable
  `loop`, and the exception that leaves the loop is `NothingToDeallocate`. No
  other call starts while it runs: an aggregate has one caller at a time. In
  `Handlers` the whole call is one step, `Releases` giving the sequences the
  loop may release, with exact sums. That the sums are exact and the loop does
  not run out of lines is what `LoopTracksShortfall` and `ReductionFindsALine`
  say, proved for quantities that fit an `int32_t`; `ServiceAssumption` and
  `SqlAssumption` ask for these.
- *Handlers* run from lookup to commit in one step of `AllocationService`. With
  one request at a time nothing can come between. `SqlUnitOfWork` takes the
  add, the changes and the commit apart, for callers at the same time.
- *The store* of `UnitOfWork` is what the port `IRepository` promises and the
  fakes of the unit tests implement. A product in a unit of work is a copy until
  it commits. The SQL repository does not keep that promise at this commit; what it
  does is the subject of `SqlRepository`.
- *Failures.* `commit`: the transaction is not committed, and since
  `SqlUnitOfWork::commit` never gets to open another, no later commit of this
  unit of work succeeds. `begin`: it is committed and the next cannot be opened;
  the caller sees the same exception. `view`: a statement on the read model
  fails.
- *Requests.* The REST handlers send `CreateBatch` and `Allocate`.
  `ChangeBatchQuantity` has a handler on the bus and no entry point; the model
  sends it as the tests do. `Commands` are given to `Handle` as they are;
  `Dtos` go through `MakeCommand` first, where an eta that is absent becomes a
  date that was never set, any of `UnsetEtas`.
- *Wiring.* `Bus` is a constant, made by the operators of `MessageBus`. The
  instance takes the wiring of the fixture of the view tests
  (`PgFixture.hpp:107-123`) and adds the notification as the handler tests do;
  `main.cpp` wires nothing yet.
- *Statements.* A statement of `SqlRepository` does what its text makes of the
  values the code binds to it:

  | Statement | Bound to it | What comes of it |
  |---|---|---|
  | `SelectProductBySku`, `SelectProductByBatchRef` (`:51`, `:66`) | SKU, reference | the row is not read by row: the load throws, stored or not |
  | `InsertBatch` (`:101`) | reference, SKU, `int32_t`, eta | inserts, unless the reference is used, the product is missing or the quantity is not positive |
  | `InsertOrderLines` (`:110`) | batch id, SKU, quantities | refused: `order_lines` has no column `sku` |
  | `InsertProduct` (`:42`) | SKU, version | inserts, unless the SKU is there |
  | `DeleteBatches` (`:28`) | the SKU, for a reference | deletes the batch that is called like the SKU, if there is one and it has no allocations |
  | `DeleteOrderLines` (`:30`) | an array, for a number | refused |

  So every load throws, every update throws, and so does the insert of a product
  with a batch; a product without batches can be added. What stands behind a
  statement that is refused is not reached and not modelled: the rest of `update`
  and of the loop of `insertBatches`, `getBatchesAndOrderLines` (which reads rows
  without a row tag as well) and `makeProduct`. The handlers of the bus begin
  with a load, so over this repository none of them gets any further; the
  callers of `SqlUnitOfWork` are those of the interfaces `IUnitOfWork` and
  `IRepository`, which may add a product without loading one.
- *The tables* may hold anything that keeps to the schema before a caller commits
  (`Databases`): a database outlives the service, and nothing in it says that this
  repository alone writes to it.
- *Transactions.* One commit of `SqlUnitOfWork` is one step. A transaction is
  `open`, `aborted` by a statement the server refused, or `finished` by a commit
  after which none was opened. A transaction that waits for, or is refused
  because of, the rows of another is a commit or a flush that throws. Of the
  driver, which is not in `src/`, it is assumed that it neither commits nor rolls
  back a finished transaction but throws, and that to commit an aborted one throws
  and finishes it. Events are left out there, and so is everything the bus does.
- *One product at a time.* Each handler loads one product and commits, and a
  commit clears what was seen, so `ProductsAtOnce` is 1 in the run and in the
  theorems.
- *History.* `refused` and `accepted` record what handlers decided. They are
  read by properties only.

Definitions called `X_Something` next to a definition `X` are faulty variants
of it. Nothing uses them; each stands for a bug that one of the properties is
there to find.

## Runs

| Run | Configuration | Shows |
|---|---|---|
| `product_calls` | `MCProduct.cfg` | all call sequences on one product keep the quantities sound, count reductions right, release only what must go, keep the order of batches and implement `Stock` |
| `product_wide` | `MCProductWide.cfg` | with quantities beyond `int32_t` and lines of quantity zero a change of quantity still ends |
| `service` | `MCService.cfg` | with a storage that does not fail no refusal goes unnotified or is notified twice, no accepted line is lost, and the read model shows nothing that is not so |
| `service_failing` | `MCServiceFailing.cfg` | with failing commits and statements the store stays sound, nothing is notified twice, and every request is answered |
| `sql` | `MCSql.cfg` | with two units of work interleaving, statements refused half way and commits failing before and after they are done, a product whose commit returned is in the tables and stays, a version remembered as stored is stored, nothing that is stored is changed or lost, and the tables keep to the schema |
| `same_day` | `MCProductSameDay.cfg` | **violated**: out of stock is reported for a line that fits the second batch of one day |
| `add_batch_modified` | `MCProductModified.cfg` | **violated**: adding a batch does not mark the product modified |
| `wide_change` | `MCProductWideChange.cfg` | **violated**: a change to a quantity beyond `int32_t` throws half way |
| `view_missing_row` | `MCServiceMissingRow.cfg` | **violated**: a line still held loses its row when another line of its order and SKU is released |
| `view_phantom_row` | `MCServicePhantomRow.cfg` | **violated**: an allocation that was never committed gets a row |
| `unset_eta` | `MCServiceUnsetEta.cfg` | **violated**: goods in stock that a client adds without an eta come after a delivery |
| `view_moved_row` | `MCServiceMovedRow.cfg` | **violated**: the row of a line that is moved to another batch goes, where the test of the views expects a row for each batch |

The last seven check what documentation or a test of the repository says; the
findings in `PROJECT.json` quote it. `RowsAreHeld`, which `service` checks, and
`Views_test.cpp:50-64` disagree: the test expects the row of the batch a line has
left to remain, the property that it is gone. The property follows the
documentation of the handler that deletes it (`Handlers.hpp:58`), and
`view_moved_row` checks what the test says with the requests of the test.

### Bounds

- `MCProduct`: `int32_t` is -8..7 and `size_t` 0..63, so that both edges are a
  few units away and casts of both kinds happen. Three references, in-stock and
  dated batches, two of one date, one of a foreign SKU, a vector that repeats a
  reference and one that mixes SKUs; three lines of the SKU, two of which do not fit
  together everywhere, and a foreign one. `MaxVersion` (3 or 4) stops calls after
  that many allocations and changes, `MaxMessages` (1 or 2) makes the caller
  fetch events; neither stops a loop. Calls that change no version are unbounded.
- `MCAllocationService`: nine commands: two batches of one SKU and one of another
  under the same reference, two lines of one order for one SKU, a second
  order, a second SKU, and two reductions. `MaxRequests` is 7, which is two
  deliveries, three lines, a reduction, and one request more; 5 with failures, where the
  shortest way to each kind of failure is four requests. Within a request nothing is bounded.
- `MCSqlUnitOfWork`: two callers, which is what it takes for one to commit
  between another's add and its commit. The tables start empty, or hold a product
  with a batch that is called like the other SKU, with and without allocations.
  Callers add a SKU at version 0 or 1, so that what is remembered and what is
  added may differ either way, with and without a batch, and another SKU that
  others may have stored; one batch, one line and one reduction change what was
  added, up to `MaxVersion` 2. The number of adds, commits and rollbacks is not
  bounded. About 112,000 distinct states.
- Deadlock is not checked in `MCProduct` and `MCAllocationService`: when the bound
  on calls or requests is reached the instance stops, and nothing else may stop
  it (`ChangeEnds`, `HandleEnds`). It is checked in `MCSqlUnitOfWork`.
- Symmetry is used for the callers of `MCSqlUnitOfWork` only: lines, batches and
  commands differ in quantity and date.

### Fairness

`Product`: weak fairness of `LoopStep`; the loop is synchronous code without a
suspension point. `AllocationService`: weak fairness of `BusStep`; `Handle` is
one call that goes on until its queue is empty, and each handler returns or
throws. Nothing is assumed of callers, nor that failures stop. `SqlUnitOfWork`
states no fairness: whether and when a caller commits is its own affair, and
all its properties are about what has happened.

## Proofs

`TypeCorrect` holds for all constants that satisfy `BatchAssumption` and
`ProductAssumption`: any sets of lines, batches and quantities, any widths.
The results about quantities assume `QuantitiesFit` as well (no quantity of a
batch or of a change exceeds `IntMax`), which the run `wide_change` shows to be
needed. Quantities of *lines* are not restricted: a line that is held fits its
batch, so the cast of its quantity in the loop is exact (`HeldLineFits`).

The invariant `NoOverAllocation` is not inductive: it says nothing of a
reduction under way, after which the purchased quantity is lowered. `IInv` in
`ProductProofs` adds to it the types, that what was purchased fits an
`int32_t`, and that between the turns of a loop `difference` is the new quantity
less what is held; then a finished loop means that what is held fits the new
quantity. From `IInv`:

| Theorem | Property |
|---|---|
| `TypeCorrect` | `TypeOK` (needs no condition) |
| `CapacityRespected` | `NoOverAllocation` |
| `ShortfallTracked` | `LoopTracksShortfall` |
| `ReductionNeverStuck` | `ReductionFindsALine` |
| `OnlyExcessReleased` | `ReleasesOnlyExcess` |
| `RefusedOnlyBehindTwin` | `OutOfStockOnlyBehindTwin` (from the types alone) |
| `EarliestFirst` | `PassedOverOnlyBehindTwin` (from the types alone) |
| `ProductImplementsStock` (`StockProofs`) | `ImplementsStock`: initial states map to initial states, every step to a step of `Stock` or a stutter |

`BatchProofs` holds the facts about quantities they rest on: what adding or
removing a line does to `Total`, when the conversions are exact, that two
equivalent batches are due on one day, and which batch of a vector stays under a
reference. `HandlersProofs` says of the methods of the aggregate, as the handlers
call them, that they keep a product `Sound` (in type, within what was purchased,
and with a purchased quantity that fits an `int32_t`): `WithBatchSound`,
`AfterAllocateSound`, `AfterChangeSound`. The service and the SQL unit of work
call the same methods, and both proofs cite these lemmas.

### The service

The theorems about `AllocationService` hold for any commands whose quantities
fit an `int32_t`, any wiring of the bus in which a handler takes the messages it
is registered for, and any number of requests (`BatchAssumption`,
`FailuresAssumption`, `ServiceAssumption`). Some need more of the wiring or of
the storage; `MCService` satisfies all of these conditions and `MCServiceFailing`
that of `NoRefusalNotifiedTwice`.

| Theorem | Property | Condition |
|---|---|---|
| `ServiceTypeCorrect` (`ServiceProofs`) | `TypeOK` | none |
| `StoreStaysSound` | `StoreSound` | none |
| `NoRefusalNotifiedTwice` (`NotificationProofs`) | `NoSpareNotification` | `OutOfStock` has at most one subscriber |
| `EveryRefusalNotifiedOnce` | `RefusalsNotifiedOnce` | `OutOfStock` has one subscriber; commits succeed |
| `LinesAreAccountedFor` (`LineProofs`) | `AcceptedLinesAccounted` | the same, and `Deallocated` reaches `Reallocate` |
| `ReadModelIsTrue` | `RowsAreHeld` | nothing fails; `Deallocated` reaches the subscriber that removes rows |

The conditions are what the properties are about: with two subscribers of
`OutOfStock` a refusal is notified twice; a commit that fails takes the event of
a refusal, or the line to reallocate, with it (`service_failing` checks only
what remains true); and `view_phantom_row` shows the row of an allocation that
was never committed. That statements on the read model may fail makes no
difference to the first five.

*Products and store.* What a commit stores is the product a unit of work has
changed, so the bound on quantities has to hold there as well, also while the
transaction has failed and the product is still seen; the difference in
`ChangeBatchQuantity` is exact only while what was purchased fits an `int32_t`;
and a sum of quantities is a number only for finitely many lines. `GoodStore`
and `GoodUnit` say so for the store and for the unit of work. A reduction takes
its product from the store because a command is alone in the queue and finds a
new unit of work (`QueueOK`). Each method of the aggregate keeps a product good
(`MethodsGood`), a commit that returns or throws keeps store and unit of work
good (`CommitGood`), so do the handlers, and then every step. This invariant
(`IInv` in `ServiceProofs`) is the ground for the four theorems below it.

*Notifications.* A refusal is an event, and an event is in a product, in the
unit of work, in the queue or with the subscriber whose turn it is. The lemmas
ending in `Balance` say, handler by handler, how many refusals each step adds to
these places and how many it sends off. The properties are not inductive: an
event that the notification has sent is still being delivered to the subscribers
after it, and would be counted again. `LastNotifier` says that the subscribers
still to be called include the notification only if this event was not sent yet,
which is where one subscriber is needed. While commits fail the balance is an
inequality (`NotSpareInv`), since an event may stay behind in a unit of work that
is thrown away; while they succeed the unit of work is new between any two steps
(`OnceInv`), no event is anywhere but in the queue or being delivered, and the
balance is an equation. Chains of reallocations need no induction: each link is
a step that keeps the equation.

*Lines.* A line that left its batch is not lost while its `Deallocated` event
still awaits `Reallocate`. `AccountInv` counts, for each SKU, the accepted lines
that are neither held nor awaited (`Lost`): they are never more than the
refusals so far. A reduction moves lines from held to awaited (`Reported`: a
method raises an event for every line that leaves or joins a batch), `Reallocate`
holds the line again or refuses it and adds one to both sides. Between requests
nothing awaits, and with `OnceInv` the refusals are the notifications sent.

*Rows.* `RowsInv` says that a row is that of a held line or one that an event on
its way will delete, and that an `Allocated` event still to be shown tells of a
line that is held. The second part is why the queue matters: lines leave a batch
only by a reduction, a reduction is a command, and a command is taken when no
event is left, so that no row is added for a line that is gone.

### The SQL unit of work

`SqlProofs` proves every property of the run `sql` from `SqlAssumption` and
`OneAtATime`: units of work have one product at a time. Callers, products,
batches, lines, failures of commits and what is stored before are any.

| Theorem | Property |
|---|---|
| `TablesTypeCorrect` | `TypeOK` |
| `AcceptedProductsStay` | `AcceptedIsStored` |
| `MemoryIsTrue` | `RememberedIsStored` |
| `NothingStoredIsLost` | `StoredStays` |

`AcceptedIsStored` alone is not inductive: a commit returns without writing
anything for a product at the version remembered, so what is remembered must be
stored. `RememberedIsStored` is not inductive either: an aborted transaction is
rolled back and the unit of work goes on with what it remembers, so `Remembered`
has to hold of aborted transactions too (`UnitGood`); of finished ones it need
not, and after a commit that failed it does not. It is true of an aborted one
because with one product at a time the flush that throws is the first and has
remembered nothing (`FlushThrowsForgets`), and it survives the commits of others
because these keep what is stored (`Keeps`, the two-state part of the proof, which
is `StoredStays`). That a flush keeps what is stored is `FlushEffect`: by the
cases of `Flush`, of which only the insert of a product without batches comes to
anything. With one product a commit is one `Flush` (`FlushNone`, `FlushOne`), and
no induction over the order of products is needed. Products are `Sound`, and not
only in type, since a reduction is exact only for those that are
(`HandlersProofs`).

### Only model-checked

The invariants and action properties of the passing runs are all theorems under
the conditions above. Liveness (`ChangeEnds`, `HandleEnds`) is beyond the prover.
The runs that end in a violation show single executions. That `Releases` of
`Handlers` are the runs of the loop in `Product` is by reading, and by the lemmas
on both that they end with the same sums.

## Not modelled

- The read of the view from a replica: it changes nothing, and how far the
  replica lags is up to the server.
- What stands behind a statement that is always refused, see *Statements*: the
  version check of `UpdateProductVersion`, the version remembered by `update`,
  and the products `makeProduct` would make of rows. What these would do if the
  statements before them were repaired depends on the repair.
- The statements of one commit as steps of their own, and waiting for locks: the
  isolation level is the server's default, and an overlap shows as a failed
  commit.
- Units of work with several products seen at once over the SQL repository: no
  handler makes one. `ProductsAtOnce` = 2 breaks `RememberedIsStored` and
  `AcceptedIsStored`, because the version remembered for the first product
  survives a rollback. `RollBack` is part of `IUnitOfWork`; nothing in `src/` calls
  it yet.
- That a product added again at its old version is passed over with whatever
  batches it has: no property says that batches are stored.
- The mark `IsCommitted` answers: only tests read it.
- Equality of products and batches: no caller that changes state. `DeleteProduct.sql`
  is never executed.
- JSON, HTTP statuses, logging, the text of the notification.
- The Redis publisher (commented out), the bus component and the handler
  registry (skeletons), process start (framework components only).

## Plan

Done: `Batch`, `Aggregate`, `Product`, `Stock` and their proofs; `UnitOfWork`,
`Handlers`, `MessageBus`, `AllocationService`, their runs, `HandlersProofs`,
`ServiceProofs`, `NotificationProofs` and `LineProofs`; `SqlRepository`,
`SqlUnitOfWork`, their runs and `SqlProofs`.

Left: the theorems on notifications for a bus with several subscribers of
`OutOfStock`, each of which notifies; `update` and `makeProduct`, once the
statements before them are ones the server takes.
