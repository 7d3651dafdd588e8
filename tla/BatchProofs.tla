----------------------------- MODULE BatchProofs -----------------------------
(***************************************************************************)
(* Facts about the operators of Batch and Aggregate: what adding or        *)
(* removing a line does to the quantity a set of lines stands for, when    *)
(* the conversions between integer widths are exact, and which batch a     *)
(* vector leaves under a reference.                                        *)
(***************************************************************************)
EXTENDS Aggregate, FiniteSetTheorems, SequenceTheorems, TLAPS

(***************************************************************************)
(* The units of one line are as many as its quantity.                      *)
(***************************************************************************)
LEMMA UnitsOfOneLine ==
    ASSUME NEW line, line.quantity \in Nat
    PROVE  /\ IsFiniteSet({line} \X (1 .. line.quantity))
           /\ Cardinality({line} \X (1 .. line.quantity)) = line.quantity
<1> DEFINE q == line.quantity
<1>1. IsFiniteSet({line}) /\ Cardinality({line}) = 1
  BY FS_Singleton
<1>2. IsFiniteSet(1 .. q) /\ Cardinality(1 .. q) = q
  <2>1. /\ IsFiniteSet(1 .. q)
        /\ Cardinality(1 .. q) = IF 1 > q THEN 0 ELSE q - 1 + 1
    BY FS_Interval
  <2> QED  BY <2>1
<1>3. /\ IsFiniteSet({line} \X (1 .. q))
      /\ Cardinality({line} \X (1 .. q)) = Cardinality({line}) * Cardinality(1 .. q)
  BY <1>1, <1>2, FS_Product
<1> QED  BY <1>1, <1>2, <1>3

(***************************************************************************)
(* No line at all asks for nothing (a batch fresh from its constructor).   *)
(***************************************************************************)
LEMMA NoLinesNoUnits == IsFiniteSet(Units({})) /\ Total({}) = 0
<1>1. Units({}) = {}
  BY DEF Units
<1> QED  BY <1>1, FS_EmptySet DEF Total

(***************************************************************************)
(* Batch::Allocate of a line that is not held yet adds its quantity; of a  *)
(* line that is held it changes nothing.                                   *)
(***************************************************************************)
LEMMA TotalWithLine ==
    ASSUME NEW lines, NEW line, line.quantity \in Nat,
           IsFiniteSet(Units(lines))
    PROVE  /\ IsFiniteSet(Units(lines \cup {line}))
           /\ line \notin lines =>
                Total(lines \cup {line}) = Total(lines) + line.quantity
           /\ line \in lines => Total(lines \cup {line}) = Total(lines)
<1> DEFINE own == {line} \X (1 .. line.quantity)
<1>1. Units(lines \cup {line}) = Units(lines) \cup own
  BY DEF Units
<1>2. IsFiniteSet(own) /\ Cardinality(own) = line.quantity
  BY UnitsOfOneLine
<1>3. /\ IsFiniteSet(Units(lines) \cup own)
      /\ Cardinality(Units(lines) \cup own) =
            Cardinality(Units(lines)) + Cardinality(own)
                - Cardinality(Units(lines) \cap own)
  BY <1>2, FS_Union
<1>4. ASSUME line \notin lines
      PROVE  Total(lines \cup {line}) = Total(lines) + line.quantity
  <2>1. Units(lines) \cap own = {}
    BY <1>4 DEF Units
  <2>2. Cardinality(Units(lines) \cap own) = 0
    BY <2>1, FS_EmptySet
  <2>3. Cardinality(Units(lines)) \in Nat
    BY FS_CardinalityType
  <2>4. Total(lines \cup {line}) = Cardinality(Units(lines) \cup own)
    BY <1>1 DEF Total
  <2>5. Total(lines) = Cardinality(Units(lines))
    BY DEF Total
  <2> HIDE DEF own
  <2> QED  BY <1>2, <1>3, <2>2, <2>3, <2>4, <2>5
<1>5. ASSUME line \in lines
      PROVE  Total(lines \cup {line}) = Total(lines)
  <2>1. lines \cup {line} = lines
    BY <1>5
  <2> QED  BY <2>1
<1> QED  BY <1>1, <1>3, <1>4, <1>5

(***************************************************************************)
(* Batch::DeallocateOne takes away the quantity of the line it returns.    *)
(***************************************************************************)
LEMMA TotalWithoutLine ==
    ASSUME NEW lines, NEW line \in lines, line.quantity \in Nat,
           IsFiniteSet(Units(lines))
    PROVE  /\ IsFiniteSet(Units(lines \ {line}))
           /\ Total(lines \ {line}) = Total(lines) - line.quantity
<1> DEFINE rest == lines \ {line}
<1>1. Units(rest) \in SUBSET Units(lines)
  BY DEF Units
<1>2. IsFiniteSet(Units(rest))
  BY <1>1, FS_Subset
<1>3. Total(rest \cup {line}) = Total(rest) + line.quantity
  BY <1>2, TotalWithLine
<1>4. rest \cup {line} = lines
  OBVIOUS
<1>5. Total(rest) \in Nat
  BY <1>2, FS_CardinalityType DEF Total
<1>6. Total(lines) = Total(rest) + line.quantity
  BY <1>3, <1>4
<1> HIDE DEF rest
<1>7. Total(rest) = Total(lines) - line.quantity
  BY <1>5, <1>6
<1> QED  BY <1>2, <1>7 DEF rest

(***************************************************************************)
(* A finite set of lines asks for finitely many units.                     *)
(***************************************************************************)
LEMMA UnitsFinite ==
    ASSUME NEW lines, IsFiniteSet(lines), \A l \in lines : l.quantity \in Nat
    PROVE  IsFiniteSet(Units(lines))
<1> DEFINE parts == {{l} \X (1 .. l.quantity) : l \in lines}
           f == [l \in lines |-> {l} \X (1 .. l.quantity)]
<1>1. f \in Surjection(lines, parts)
  BY DEF Surjection
<1>2. IsFiniteSet(parts)
  <2> HIDE DEF f, parts
  <2> QED  BY <1>1, FS_Surjection
<1>3. \A part \in parts : IsFiniteSet(part)
  BY UnitsOfOneLine
<1>4. IsFiniteSet(UNION parts)
  <2> HIDE DEF parts
  <2> QED  BY <1>2, <1>3, FS_UNION
<1> QED  BY <1>4 DEF Units

(***************************************************************************)
(* The quantity in a finite set of lines is a natural number, and lines    *)
(* that ask for something are not nothing.                                 *)
(***************************************************************************)
LEMMA TotalType ==
    ASSUME NEW lines, IsFiniteSet(Units(lines))
    PROVE  /\ Total(lines) \in Nat
           /\ Total(lines) > 0 => lines # {}
<1>1. Total(lines) \in Nat
  BY FS_CardinalityType DEF Total
<1>2. Total({}) = 0
  BY NoLinesNoUnits
<1> QED  BY <1>1, <1>2

-----------------------------------------------------------------------------
(***************************************************************************)
(* A number that a size_t can hold is converted to itself.                 *)
(***************************************************************************)
LEMMA ToSizeExact ==
    ASSUME NEW n \in Size
    PROVE  ToSize(n) = n
BY BatchAssumption DEF ToSize, Size

(***************************************************************************)
(* The conversion to size_t always yields one.                             *)
(***************************************************************************)
LEMMA ToSizeType ==
    ASSUME NEW n \in Int
    PROVE  ToSize(n) \in Size
BY BatchAssumption DEF ToSize, Size

(***************************************************************************)
(* The cast to int32_t is exact between its two limits.                    *)
(***************************************************************************)
LEMMA ToInt32Exact ==
    ASSUME NEW n \in Int, -(IntMax + 1) <= n, n <= IntMax
    PROVE  ToInt32(n) = n
<1> DEFINE m == n + IntMax + 1
<1>1. m \in Nat /\ m < 2 * IntMax + 2
  BY BatchAssumption
<1>2. 2 * IntMax + 2 \in Nat /\ 2 * IntMax + 2 > 0
  BY BatchAssumption
<1>3. m % (2 * IntMax + 2) = m
  BY <1>1, <1>2
<1> QED  BY <1>3, BatchAssumption DEF ToInt32

(***************************************************************************)
(* The cast to int32_t yields an integer for every operand.                *)
(***************************************************************************)
LEMMA ToInt32Type ==
    ASSUME NEW n \in Int
    PROVE  ToInt32(n) \in Int
<1>1. 2 * IntMax + 2 \in Int /\ 2 * IntMax + 2 > 0
  BY BatchAssumption
<1>2. (n + IntMax + 1) % (2 * IntMax + 2) \in Int
  BY <1>1, BatchAssumption
<1> QED  BY <1>2, BatchAssumption DEF ToInt32

(***************************************************************************)
(* A signed sum is an integer, whether it wraps or not.                    *)
(***************************************************************************)
LEMMA Int32ResultsType ==
    ASSUME NEW n \in Int
    PROVE  Int32Results(n) \subseteq Int
BY ToInt32Type DEF Int32Results

(***************************************************************************)
(* What a batch holds is finitely many units.                              *)
(***************************************************************************)
LEMMA HeldUnitsFinite ==
    ASSUME NEW b \in BatchType, IsFiniteSet(b.allocations)
    PROVE  IsFiniteSet(Units(b.allocations))
<1>1. \A l \in b.allocations : l.quantity \in Nat
  BY BatchAssumption DEF BatchType, OrderLine, Size
<1> QED  BY <1>1, UnitsFinite

(***************************************************************************)
(* The available quantity is a size_t, wrapped or not.                     *)
(***************************************************************************)
LEMMA AvailableType ==
    ASSUME NEW b \in BatchType, IsFiniteSet(b.allocations)
    PROVE  AvailableQuantity(b) \in Size
<1>1. Total(b.allocations) \in Int
  BY HeldUnitsFinite, TotalType
<1>2. AllocatedQuantity(b) \in Int
  BY <1>1, ToSizeType DEF AllocatedQuantity, Size
<1>3. b.purchased - AllocatedQuantity(b) \in Int
  BY <1>2 DEF BatchType, Size
<1> QED  BY <1>3, ToSizeType DEF AvailableQuantity

(***************************************************************************)
(* In a batch that holds no more than was purchased, the available         *)
(* quantity is the plain difference: the unsigned subtraction of           *)
(* Batch.cpp:48 does not wrap.                                             *)
(***************************************************************************)
LEMMA AvailableExact ==
    ASSUME NEW b \in BatchType,
           IsFiniteSet(b.allocations),
           Total(b.allocations) <= b.purchased
    PROVE  /\ AllocatedQuantity(b) = Total(b.allocations)
           /\ AvailableQuantity(b) = b.purchased - Total(b.allocations)
           /\ AvailableQuantity(b) \in Size
<1>1. Total(b.allocations) \in Nat
  BY HeldUnitsFinite, TotalType
<1>2. b.purchased \in Size
  BY DEF BatchType
<1>3. Total(b.allocations) \in Size
  BY <1>1, <1>2, BatchAssumption DEF Size
<1>4. b.purchased - Total(b.allocations) \in Size
  BY <1>1, <1>2, BatchAssumption DEF Size
<1>5. AllocatedQuantity(b) = Total(b.allocations)
  BY <1>3, ToSizeExact DEF AllocatedQuantity
<1> QED  BY <1>4, <1>5, ToSizeExact DEF AvailableQuantity

(***************************************************************************)
(* A line that CanAllocate admits fits beside what the batch holds, so     *)
(* Batch::Allocate keeps the batch within what was purchased.              *)
(***************************************************************************)
LEMMA HoldingKeepsWithinPurchased ==
    ASSUME NEW b \in BatchType, NEW line \in OrderLine,
           IsFiniteSet(b.allocations),
           Total(b.allocations) <= b.purchased
    PROVE  /\ Total(Holding(b, line).allocations) <= Holding(b, line).purchased
<1>0. IsFiniteSet(Units(b.allocations))
  BY HeldUnitsFinite
<1>1. CASE ~CanAllocate(b, line)
  BY <1>1 DEF Holding
<1>2. CASE CanAllocate(b, line)
  <2> DEFINE more == b.allocations \cup {line}
  <2>1. Holding(b, line) = [b EXCEPT !.allocations = more]
    BY <1>2 DEF Holding
  <2>2. /\ Holding(b, line).allocations = more
        /\ Holding(b, line).purchased = b.purchased
    BY <2>1 DEF BatchType
  <2>3. line.quantity \in Nat /\ b.purchased \in Nat
    BY BatchAssumption DEF OrderLine, BatchType, Size
  <2>4. b.purchased - Total(b.allocations) >= line.quantity
    BY <1>2, AvailableExact DEF CanAllocate
  <2>5. Total(b.allocations) \in Nat
    BY <1>0, TotalType
  <2>6. /\ IsFiniteSet(Units(more))
        /\ line \notin b.allocations =>
             Total(more) = Total(b.allocations) + line.quantity
        /\ line \in b.allocations => Total(more) = Total(b.allocations)
    BY <1>0, <2>3, TotalWithLine
  <2>7. Total(more) <= b.purchased
    BY <2>3, <2>4, <2>5, <2>6
  <2> QED  BY <2>2, <2>6, <2>7
<1> QED  BY <1>1, <1>2

(***************************************************************************)
(* A line that is held asks for no more than the batch holds.              *)
(***************************************************************************)
LEMMA HeldLineFits ==
    ASSUME NEW b \in BatchType, IsFiniteSet(b.allocations),
           NEW line \in b.allocations
    PROVE  /\ line.quantity \in Nat
           /\ Total(b.allocations) \in Nat
           /\ Total(b.allocations \ {line}) = Total(b.allocations) - line.quantity
           /\ line.quantity <= Total(b.allocations)
<1> DEFINE held == b.allocations
<1>1. line.quantity \in Nat
  BY BatchAssumption DEF BatchType, OrderLine, Size
<1>2. IsFiniteSet(Units(held))
  BY HeldUnitsFinite
<1>3. /\ IsFiniteSet(Units(held \ {line}))
      /\ Total(held \ {line}) = Total(held) - line.quantity
  BY <1>1, <1>2, TotalWithoutLine
<1>4. Total(held) \in Nat /\ Total(held \ {line}) \in Nat
  BY <1>2, <1>3, TotalType
<1> QED  BY <1>1, <1>3, <1>4

(***************************************************************************)
(* Two different dates compare, so batches that are equivalent to the      *)
(* ordering are due on the same day: stock on hand is equivalent to        *)
(* nothing, not even to itself (Batch.cpp:69-76).                          *)
(***************************************************************************)
LEMMA EquivalentAreSameDay ==
    ASSUME NEW a \in BatchType, NEW b \in BatchType, Equivalent(a, b)
    PROVE  a.eta # NoEta /\ b.eta # NoEta /\ a.eta = b.eta
<1>1. a.eta # NoEta /\ b.eta # NoEta
  BY DEF Equivalent, Less
<1>2. a.eta \in Nat /\ b.eta \in Nat
  BY <1>1 DEF BatchType
<1> QED  BY <1>1, <1>2 DEF Equivalent, Less

-----------------------------------------------------------------------------
(***************************************************************************)
(* Emplacing a vector finds, for each reference that occurs in it, a first *)
(* occurrence; what is kept under a reference is a batch of the vector     *)
(* with that reference (Product.cpp:12-13 and 29-38).                      *)
(***************************************************************************)
LEMMA EmplacedFirst ==
    ASSUME NEW S, NEW vector \in Seq(S),
           NEW r \in DOMAIN Emplaced(vector)
    PROVE  /\ Emplaced(vector)[r] \in S
           /\ Emplaced(vector)[r].reference = r
<1> DEFINE At == {i \in DOMAIN vector : vector[i].reference = r}
<1>1. DOMAIN vector = 1 .. Len(vector) /\ Len(vector) \in Nat
  BY LenProperties
<1>2. r \in {vector[i].reference : i \in DOMAIN vector}
  BY DEF Emplaced
<1>3. At # {} /\ At \subseteq Nat
  BY <1>1, <1>2
<1>4. PICK i \in At : \A j \in At : ~(<<j, i>> \in OpToRel(<, Nat))
  <2> HIDE DEF At
  <2> QED  BY <1>3, NatLessThanWellFounded, WFMin
<1>5. i \in Nat /\ i \in DOMAIN vector /\ vector[i].reference = r
  BY <1>3, <1>4
<1>6. IsFirst(vector, i)
  <2> SUFFICES ASSUME NEW j \in 1 .. (i - 1), vector[j].reference = r
               PROVE  FALSE
    BY <1>5 DEF IsFirst
  <2>1. j \in Nat /\ j < i /\ j \in DOMAIN vector
    BY <1>1, <1>5
  <2>2. j \in At
    BY <2>1
  <2>3. <<j, i>> \in OpToRel(<, Nat)
    BY <1>5, <2>1 DEF OpToRel
  <2> QED  BY <1>4, <2>2, <2>3
<1> DEFINE k == CHOOSE n \in DOMAIN vector :
                   vector[n].reference = r /\ IsFirst(vector, n)
<1>7. k \in DOMAIN vector /\ vector[k].reference = r
  BY <1>5, <1>6
<1>8. Emplaced(vector)[r] = vector[k]
  BY <1>2 DEF Emplaced
<1>9. vector[k] \in S
  BY <1>1, <1>7, ElementOfSeq
<1> QED  BY <1>7, <1>8, <1>9
=============================================================================
