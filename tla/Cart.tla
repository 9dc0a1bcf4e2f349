-------------------------------- MODULE Cart --------------------------------
(***************************************************************************)
(* The Cart aggregate of one user.  Callers name a line by its own id or   *)
(* by its product; ids are given once and may be used long after the line  *)
(* is gone.                                                                *)
(***************************************************************************)
EXTENDS Integers, FiniteSets

CONSTANTS
    ProductId,
    LineId,       \* bound: a cart makes no more lines than there are ids
    LineAmount,   \* the quantities callers pass, sensible or not
    MaxQuantity   \* 9999 in the code

ASSUME CartAssumption == LineAmount \subseteq Int /\ MaxQuantity \in Nat \ {0}

VARIABLES lines, usedIds

cartVars == <<lines, usedIds>>

Quantity == 1 .. MaxQuantity

Line == [id : LineId, product : ProductId, quantity : Quantity]

CartTypeOK == lines \subseteq Line /\ usedIds \subseteq LineId

CartInit == lines = {} /\ usedIds = {}

(* Quantity.create throws before the line is changed *)
SetQuantity(line, quantity) ==
    /\ quantity \in Quantity
    /\ lines' = (lines \ {line}) \cup {[line EXCEPT !.quantity = quantity]}
    /\ UNCHANGED usedIds

NewLine(product, quantity) ==
    /\ quantity \in Quantity
    /\ \E id \in LineId \ usedIds :
         /\ lines' = lines \cup {[id |-> id, product |-> product, quantity |-> quantity]}
         /\ usedIds' = usedIds \cup {id}

(* Mutant of AddItem: a full line overflows into a second one *)
AddItemAnyway(product, quantity) ==
    \/ \E line \in lines :
         line.product = product /\ SetQuantity(line, line.quantity + quantity)
    \/ NewLine(product, quantity)

AddItem(product, quantity) ==
    IF \E line \in lines : line.product = product
    THEN \E line \in lines :
           line.product = product /\ SetQuantity(line, line.quantity + quantity)
    ELSE NewLine(product, quantity)

(* removeItem, and removeItemByProductId through it *)
RemoveItem(line) ==
    /\ line \in lines
    /\ lines' = lines \ {line}
    /\ UNCHANGED usedIds

UpdateItemQuantity(id, quantity) ==
    \E line \in lines : line.id = id /\ SetQuantity(line, quantity)

ClearCart ==
    /\ lines # {}
    /\ lines' = {}
    /\ UNCHANGED usedIds

CartNext ==
    \/ \E product \in ProductId, quantity \in LineAmount : AddItem(product, quantity)
    \/ \E line \in lines : RemoveItem(line)
    \/ \E id \in LineId, quantity \in LineAmount : UpdateItemQuantity(id, quantity)
    \/ ClearCart

CartSpec == CartInit /\ [][CartNext]_cartVars

-----------------------------------------------------------------------------
(* However lines are added, changed and removed, a product has one line and an
   id names one line, so findItemByProductId and findItemById find the only
   candidate. *)
OneLinePerProduct ==
    \A l, m \in lines : l.product = m.product \/ l.id = m.id => l = m
=============================================================================
