-------------------------------- MODULE Batch --------------------------------
(***************************************************************************)
(* A delivery batch and the order lines placed in it, as values:           *)
(* src/src/Domain/Product/Batch.cpp and OrderLine.hpp.  There is no state  *)
(* here; the modules that hold batches (Product, AllocationService) use    *)
(* these operators.  Strings are opaque, a date is a natural number, and   *)
(* the fixed-width integers of the code keep their width: IntMax stands    *)
(* for the largest int32_t and SizeMax for the largest size_t.             *)
(***************************************************************************)
EXTENDS Integers, FiniteSets

CONSTANTS
    Orders,     \* client order references
    Skus,       \* stock keeping units
    Refs,       \* batch references
    NoEta,      \* an empty std::optional<year_month_day>: already in stock
    IntMax,     \* largest int32_t
    SizeMax     \* largest size_t

ASSUME BatchAssumption ==
    /\ NoEta \notin Nat
    /\ IntMax \in Nat
    /\ SizeMax \in Nat
    /\ IntMax < SizeMax

Size == 0 .. SizeMax

OrderLine == [reference : Orders, sku : Skus, quantity : Size]

(***************************************************************************)
(* _purchasedQuantity is an int64_t that is set from a size_t and only     *)
(* ever read back as one, so it is kept as the size_t it converts to.      *)
(***************************************************************************)
BatchType == [reference   : Refs,
              sku         : Skus,
              purchased   : Size,
              eta         : Nat \cup {NoEta},
              allocations : SUBSET OrderLine]

-----------------------------------------------------------------------------
\* Conversions.

ToSize(n) == n % (SizeMax + 1)

ToInt32(n) == ((n + IntMax + 1) % (2 * IntMax + 2)) - (IntMax + 1)

(***************************************************************************)
(* What a signed 32-bit sum n may come out as.  Overflow is undefined: the *)
(* build may wrap, or act as if the sum had been formed in a wider         *)
(* register.  Without overflow the two agree.                              *)
(***************************************************************************)
Int32Results(n) == {n, ToInt32(n)}

-----------------------------------------------------------------------------
(***************************************************************************)
(* The quantity in a set of lines, as the number of single units they ask  *)
(* for: no recursion, so that the provers can reason about it.             *)
(***************************************************************************)
Units(lines) == UNION {{l} \X (1 .. l.quantity) : l \in lines}

Total(lines) == Cardinality(Units(lines))

AllocatedQuantity(b) == ToSize(Total(b.allocations))

AvailableQuantity(b) == ToSize(b.purchased - AllocatedQuantity(b))

\* Faulty variant: the room left is not looked at.
CanAllocate_NoRoomCheck(b, line) == line.sku = b.sku

CanAllocate(b, line) ==
    /\ line.sku = b.sku
    /\ AvailableQuantity(b) >= line.quantity

\* Batch::Allocate: silently refuses what does not fit; a repeat is a no-op.
Holding(b, line) ==
    IF CanAllocate(b, line)
    THEN [b EXCEPT !.allocations = @ \cup {line}]
    ELSE b

\* Batch::DeallocateOne takes begin() of an unordered_set: any line of it.
Without(b, line) == [b EXCEPT !.allocations = @ \ {line}]

Resized(b, qty) == [b EXCEPT !.purchased = qty]

-----------------------------------------------------------------------------
\* Faulty variant: two batches in stock are equivalent, like two of one date.
Less_StockIsOneDate(a, b) ==
    /\ b.eta # NoEta
    /\ \/ a.eta = NoEta
       \/ a.eta < b.eta

\* operator< of two batches: stock on hand before any delivery date.
Less(a, b) ==
    \/ a.eta = NoEta
    \/ /\ b.eta # NoEta
       /\ a.eta < b.eta

\* What a std::set ordered by Less takes for duplicates of one element.
Equivalent(a, b) == ~Less(a, b) /\ ~Less(b, a)

Earlier(a, b) == Less(a, b) /\ ~Less(b, a)
=============================================================================
