-------------------------------- MODULE Order --------------------------------
(***************************************************************************)
(* The Order aggregate after checkout: its status, its money and what its  *)
(* events have said.  Subtotal, tax and shipping never change once the     *)
(* order exists, so they are one amount, gross, in minor units.  The notes *)
(* and the discount's id are left out.                                     *)
(***************************************************************************)
EXTENDS Integers

CONSTANTS
    Gross,     \* what orders may come to before the discount
    Discounts  \* discount amounts callers pass

ASSUME OrderAssumption == Gross \subseteq Nat /\ Discounts \subseteq Int

VARIABLES order, announced

orderVars == <<order, announced>>

OrderStatus == {"PENDING_PAYMENT", "PAID", "FULFILLMENT", "COMPLETED", "CANCELLED"}

(* announced: how often OrderPaid and OrderCompleted were raised, and the
   previousStatus of each OrderCancelled *)
OrderTypeOK ==
    /\ order \in [status : OrderStatus, gross : Nat, discount : Nat, total : Nat]
    /\ announced \in [paid : Nat, completed : Nat, cancelledFrom : SUBSET OrderStatus]

(* OrderStatus.VALID_TRANSITIONS; DRAFT is an order that no factory makes *)
OrderTransitions ==
    [s \in OrderStatus |->
        CASE s = "PENDING_PAYMENT" -> {"PAID", "CANCELLED"}
          [] s = "PAID" -> {"FULFILLMENT", "CANCELLED"}
          [] s = "FULFILLMENT" -> {"COMPLETED"}
          [] OTHER -> {}]

IsTerminalOrder(o) == o.status \in {"COMPLETED", "CANCELLED"}

(* create throws when the discount is more than the rest *)
OrderInit ==
    /\ \E g \in Gross, d \in Discounts :
         /\ d \in 0 .. g
         /\ order = [status |-> "PENDING_PAYMENT", gross |-> g, discount |-> d,
                     total |-> g - d]
    /\ announced = [paid |-> 0, completed |-> 0, cancelledFrom |-> {}]

ChangeStatus(status) ==
    /\ status \in OrderTransitions[order.status]
    /\ order' = [order EXCEPT !.status = status]

(* Mutant of MarkAsPaid: the idempotent return comes after the event *)
MarkAsPaidAgain ==
    /\ \/ ChangeStatus("PAID")
       \/ order.status = "PAID" /\ UNCHANGED order
    /\ announced' = [announced EXCEPT !.paid = @ + 1]

(* Called for a paid order it returns at once, as do the two after it *)
MarkAsPaid ==
    /\ ChangeStatus("PAID")
    /\ announced' = [announced EXCEPT !.paid = @ + 1]

StartFulfillment ==
    /\ ChangeStatus("FULFILLMENT")
    /\ UNCHANGED announced

Complete ==
    /\ ChangeStatus("COMPLETED")
    /\ announced' = [announced EXCEPT !.completed = @ + 1]

(* Mutant of Cancel: only the terminal statuses are refused *)
CancelAnytime ==
    /\ ~ IsTerminalOrder(order)
    /\ order' = [order EXCEPT !.status = "CANCELLED"]
    /\ announced' = [announced EXCEPT !.cancelledFrom = @ \cup {order.status}]

Cancel ==
    /\ order.status \in {"PENDING_PAYMENT", "PAID"}
    /\ order' = [order EXCEPT !.status = "CANCELLED"]
    /\ announced' = [announced EXCEPT !.cancelledFrom = @ \cup {order.status}]

(* Mutant of ApplyDiscount: the status is not looked at *)
ApplyDiscountAnytime(d) ==
    /\ d >= 0
    /\ order' = [order EXCEPT !.discount = d,
                              !.total = IF d <= order.gross THEN order.gross - d ELSE @]
    /\ UNCHANGED announced

(* A negative amount is thrown for before discountAmount is assigned, a
   negative total after it. *)
ApplyDiscount(d) ==
    /\ ~ IsTerminalOrder(order)
    /\ d >= 0
    /\ order' = [order EXCEPT !.discount = d,
                              !.total = IF d <= order.gross THEN order.gross - d ELSE @]
    /\ UNCHANGED announced

(* Mutant of RemoveDiscount: the total is not computed again *)
ForgetDiscount ==
    /\ ~ IsTerminalOrder(order)
    /\ order' = [order EXCEPT !.discount = 0]
    /\ UNCHANGED announced

RemoveDiscount ==
    /\ ~ IsTerminalOrder(order)
    /\ order' = [order EXCEPT !.discount = 0, !.total = order.gross]
    /\ UNCHANGED announced

OrderNext ==
    \/ MarkAsPaid
    \/ StartFulfillment
    \/ Complete
    \/ Cancel
    \/ \E d \in Discounts : ApplyDiscount(d)
    \/ RemoveDiscount

OrderSpec == OrderInit /\ [][OrderNext]_orderVars

-----------------------------------------------------------------------------
(* What the events say fits the status, however often the idempotent commands
   are called: payment is announced once for every order that was ever paid
   and for no other, completion once, and an order that reached fulfillment
   is never announced as cancelled. *)
AnnouncedOnce ==
    /\ announced.paid =
         IF \/ order.status \in {"PAID", "FULFILLMENT", "COMPLETED"}
            \/ "PAID" \in announced.cancelledFrom
         THEN 1 ELSE 0
    /\ announced.completed = IF order.status = "COMPLETED" THEN 1 ELSE 0
    /\ announced.cancelledFrom \subseteq {"PENDING_PAYMENT", "PAID"}
    /\ announced.cancelledFrom # {} <=> order.status = "CANCELLED"

(* "Completed/Cancelled orders are immutable": no command changes anything of
   such an order, its money included. *)
TerminalOrderFrozen == [][~ IsTerminalOrder(order)]_order

(* "Total = subtotal + tax + shippingCost - discountAmount", an invariant of
   the class's own comment, for every discount that fits.  One that does not
   is assigned before the negative total is thrown for, and stays beside the
   old total until another is applied; never is more asked than before it. *)
TotalFits ==
    /\ order.total <= order.gross
    /\ order.discount <= order.gross => order.total = order.gross - order.discount
=============================================================================
