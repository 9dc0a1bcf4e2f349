------------------------------ MODULE Inventory ------------------------------
(***************************************************************************)
(* The Inventory aggregate: the stock of one product and how much of it is *)
(* reserved by checkouts.  ledger is what a subscriber of the aggregate's  *)
(* events knows by adding them up, without ever reading the aggregate.     *)
(***************************************************************************)
EXTENDS Integers

CONSTANTS
    Amount,      \* the quantities callers pass, sensible or not
    StockLimit   \* bound: addStock and setStock go no higher

ASSUME InventoryAssumption == Amount \subseteq Int /\ StockLimit \in Nat

VARIABLES stock, reserved, ledger

inventoryVars == <<stock, reserved, ledger>>

(* ledger.stock: the adjustments added up; ledger.chained: every event's
   previousStock was the newStock of the one before; ledger.depleted: the last
   event told of an empty shelf, StockDepleted after a decrease or
   InventoryCreated with nothing in stock. *)
InventoryTypeOK ==
    /\ stock \in Nat
    /\ reserved \in Nat
    /\ ledger \in [stock : Int, chained : BOOLEAN, depleted : BOOLEAN]

GetAvailableStock == stock - reserved

HasAvailableStock(quantity) == GetAvailableStock >= quantity

(* InventoryCreated carries the initial stock, and is all that tells of one that
   is empty: create raises no StockDepleted. *)
InventoryInit ==
    /\ \E initial \in Amount :
         /\ initial >= 0
         /\ stock = initial
         /\ ledger = [stock |-> initial, chained |-> TRUE, depleted |-> initial = 0]
    /\ reserved = 0

(* StockAdjusted(previous, adjustment), and StockDepleted after it when the
   new available stock is none *)
Announce(previous, adjustment, depleted) ==
    ledger' = [stock |-> ledger.stock + adjustment,
               chained |-> ledger.chained /\ previous = ledger.stock,
               depleted |-> depleted]

AddStock(quantity) ==
    /\ quantity > 0
    /\ stock + quantity <= StockLimit
    /\ stock' = stock + quantity
    /\ Announce(stock, quantity, FALSE)
    /\ UNCHANGED reserved

RemoveStock(quantity) ==
    /\ quantity > 0
    /\ HasAvailableStock(quantity)
    /\ stock' = stock - quantity
    /\ Announce(stock, -quantity, stock' - reserved <= 0)
    /\ UNCHANGED reserved

(* Mutant of SetStock: only the sign of the new stock is tested *)
SetAnyStock(quantity) ==
    /\ quantity \in 0 .. StockLimit
    /\ stock' = quantity
    /\ Announce(stock, quantity - stock, stock' - reserved <= 0)
    /\ UNCHANGED reserved

SetStock(quantity) ==
    /\ quantity \in 0 .. StockLimit
    /\ quantity >= reserved
    /\ stock' = quantity
    /\ Announce(stock, quantity - stock, stock' - reserved <= 0)
    /\ UNCHANGED reserved

(* StockReserved and StockReleased carry no adjustment, and a reservation of
   the last available piece is not announced as a depletion. *)
Reserve(quantity) ==
    /\ quantity > 0
    /\ HasAvailableStock(quantity)
    /\ reserved' = reserved + quantity
    /\ UNCHANGED <<stock, ledger>>

(* Mutant of Release: more may be released than is reserved *)
ReleaseMore(quantity) ==
    /\ quantity > 0
    /\ reserved' = reserved - quantity
    /\ UNCHANGED <<stock, ledger>>

Release(quantity) ==
    /\ quantity > 0
    /\ quantity <= reserved
    /\ reserved' = reserved - quantity
    /\ UNCHANGED <<stock, ledger>>

(* Mutants of ConfirmReservation: previousStock is read after the stock was
   reduced; the depletion is tested before the reservation is taken off *)
ConfirmThenRead(quantity) ==
    /\ quantity > 0
    /\ quantity <= reserved
    /\ stock' = stock - quantity
    /\ reserved' = reserved - quantity
    /\ Announce(stock', -quantity, stock' - reserved' <= 0)

ConfirmQuietly(quantity) ==
    /\ quantity > 0
    /\ quantity <= reserved
    /\ stock' = stock - quantity
    /\ reserved' = reserved - quantity
    /\ Announce(stock, -quantity, FALSE)

ConfirmReservation(quantity) ==
    /\ quantity > 0
    /\ quantity <= reserved
    /\ stock' = stock - quantity
    /\ reserved' = reserved - quantity
    /\ Announce(stock, -quantity, stock' - reserved' <= 0)

InventoryNext ==
    \E quantity \in Amount :
        \/ AddStock(quantity)
        \/ RemoveStock(quantity)
        \/ SetStock(quantity)
        \/ Reserve(quantity)
        \/ Release(quantity)
        \/ ConfirmReservation(quantity)

InventorySpec == InventoryInit /\ [][InventoryNext]_inventoryVars

-----------------------------------------------------------------------------
(* No sequence of calls sells what is not there: what checkouts have reserved
   is in stock, so every reservation can still be confirmed. *)
NoOverselling == reserved <= stock

(* The events tell the whole story: whoever adds up the adjustments of
   StockAdjusted has the stock, and no event contradicts the one before. *)
LedgerAgrees == ledger.stock = stock /\ ledger.chained

(* A subscriber has been told of an empty shelf: by StockDepleted, whichever call
   emptied it, or by InventoryCreated when it was empty from the start. *)
EmptyShelfAnnounced == stock = 0 => ledger.depleted
=============================================================================
