-------------------------------- MODULE Stock --------------------------------
(***************************************************************************)
(* What the allocation of order lines to deliveries promises, without      *)
(* saying how a delivery is chosen, which events tell of it or in which    *)
(* steps a delivery is cut: a delivery has a capacity, holds order lines,  *)
(* and never holds more than its capacity.  Product implements it.         *)
(***************************************************************************)
EXTENDS Integers

CONSTANTS
    Deliveries,     \* the names of deliveries
    Demands,        \* the order lines
    Capacities,     \* the capacities a delivery may have
    Load(_)         \* the quantity in a set of order lines

VARIABLES
    capacity,       \* delivery -> capacity, for the deliveries announced
    held            \* delivery -> the order lines it holds

stockVars == <<capacity, held>>

Init ==
    /\ \E D \in SUBSET Deliveries :
          /\ capacity \in [D -> Capacities]
          /\ held = [d \in D |-> {}]

\* Deliveries are announced, empty, beside those there are.
Receive ==
    /\ \E D \in SUBSET Deliveries :
          /\ DOMAIN capacity \subseteq D
          /\ capacity' \in [D -> Capacities]
          /\ \A d \in DOMAIN capacity : capacity'[d] = capacity[d]
          /\ held' = [d \in D |-> IF d \in DOMAIN capacity THEN held[d] ELSE {}]

Place(line, d) ==
    /\ d \in DOMAIN capacity
    /\ Load(held[d] \cup {line}) <= capacity[d]
    /\ held' = [held EXCEPT ![d] = @ \cup {line}]
    /\ UNCHANGED capacity

Release(line, d) ==
    /\ d \in DOMAIN capacity
    /\ held' = [held EXCEPT ![d] = @ \ {line}]
    /\ UNCHANGED capacity

Resize(d, c) ==
    /\ d \in DOMAIN capacity
    /\ Load(held[d]) <= c
    /\ capacity' = [capacity EXCEPT ![d] = c]
    /\ UNCHANGED held

Next ==
    \/ Receive
    \/ \E line \in Demands, d \in Deliveries : Place(line, d)
    \/ \E line \in Demands, d \in Deliveries : Release(line, d)
    \/ \E d \in Deliveries, c \in Capacities : Resize(d, c)

Spec == Init /\ [][Next]_stockVars
=============================================================================
