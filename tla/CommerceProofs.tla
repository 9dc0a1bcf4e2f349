--------------------------- MODULE CommerceProofs ---------------------------
(***************************************************************************)
(* The aggregates of Commerce and its mail queue, each for all amounts,    *)
(* limits, products, addresses and mails and for all sequences of calls;   *)
(* then all of them together.                                              *)
(***************************************************************************)
EXTENDS Commerce, FiniteSetTheorems, TLAPS

(* Inventory.  A reservation never exceeds the stock, so whoever empties the
   shelf leaves nothing reserved and announces it. *)
InventoryInv ==
    /\ InventoryTypeOK
    /\ NoOverselling
    /\ LedgerAgrees
    /\ EmptyShelfAnnounced

LEMMA InventoryInductive ==
    /\ InventoryInit => InventoryInv
    /\ InventoryInv /\ [InventoryNext]_inventoryVars => InventoryInv'
<1>. USE InventoryAssumption
<1>. USE DEF InventoryInv, InventoryTypeOK, NoOverselling, LedgerAgrees, EmptyShelfAnnounced
<1>1. ASSUME InventoryInit
      PROVE  InventoryInv
  <2>1. PICK initial \in Amount :
          /\ initial >= 0
          /\ stock = initial
          /\ ledger = [stock |-> initial, chained |-> TRUE, depleted |-> initial = 0]
    BY <1>1 DEF InventoryInit
  <2>2. stock \in Nat /\ reserved = 0 /\ reserved <= stock
    BY <1>1, <2>1 DEF InventoryInit
  <2>3. (initial = 0) \in BOOLEAN
    OBVIOUS
  <2>4. /\ ledger \in [stock : Int, chained : BOOLEAN, depleted : BOOLEAN]
        /\ ledger.stock = stock /\ ledger.chained = TRUE
    BY <2>1, <2>3
  <2>5. stock = 0 => ledger.depleted = TRUE
    BY <2>1
  <2>. QED  BY <2>2, <2>4, <2>5
<1>2. ASSUME InventoryInv, NEW quantity \in Amount,
             AddStock(quantity) \/ RemoveStock(quantity) \/ SetStock(quantity)
      PROVE  InventoryInv'
  <2>1. CASE AddStock(quantity)
    BY <1>2, <2>1 DEF AddStock, Announce
  <2>2. CASE RemoveStock(quantity)
    BY <1>2, <2>2 DEF RemoveStock, HasAvailableStock, GetAvailableStock, Announce
  <2>3. CASE SetStock(quantity)
    BY <1>2, <2>3 DEF SetStock, Announce
  <2>. QED  BY <1>2, <2>1, <2>2, <2>3
<1>3. ASSUME InventoryInv, NEW quantity \in Amount,
             Reserve(quantity) \/ Release(quantity) \/ ConfirmReservation(quantity)
      PROVE  InventoryInv'
  <2>1. CASE Reserve(quantity)
    BY <1>3, <2>1 DEF Reserve, HasAvailableStock, GetAvailableStock
  <2>2. CASE Release(quantity)
    BY <1>3, <2>2 DEF Release
  <2>3. CASE ConfirmReservation(quantity)
    BY <1>3, <2>3 DEF ConfirmReservation, Announce
  <2>. QED  BY <1>3, <2>1, <2>2, <2>3
<1>4. ASSUME InventoryInv, UNCHANGED inventoryVars
      PROVE  InventoryInv'
  BY <1>4 DEF inventoryVars
<1>. QED  BY <1>1, <1>2, <1>3, <1>4 DEF InventoryNext

(* Checkouts never reserve more than there is, for any stock and any order of
   reservations, releases, confirmations and adjustments. *)
THEOREM NeverOversold == InventorySpec => []NoOverselling
<1>1. InventoryInv => NoOverselling
  BY DEF InventoryInv
<1>. QED  BY <1>1, InventoryInductive, PTL DEF InventorySpec

(* The adjustments of the events add up to the stock, without a gap. *)
THEOREM EventsAddUp == InventorySpec => []LedgerAgrees
<1>1. InventoryInv => LedgerAgrees
  BY DEF InventoryInv
<1>. QED  BY <1>1, InventoryInductive, PTL DEF InventorySpec

(* Whichever call takes the last piece announces the empty shelf; of one that is
   empty from the start InventoryCreated tells. *)
THEOREM DepletionAnnounced == InventorySpec => []EmptyShelfAnnounced
<1>1. InventoryInv => EmptyShelfAnnounced
  BY DEF InventoryInv
<1>. QED  BY <1>1, InventoryInductive, PTL DEF InventorySpec

-----------------------------------------------------------------------------
(* Order *)

OrderInv == OrderTypeOK /\ AnnouncedOnce /\ TotalFits

LEMMA OrderInductive ==
    /\ OrderInit => OrderInv
    /\ OrderInv /\ [OrderNext]_orderVars => OrderInv'
<1>. USE OrderAssumption
<1>. USE DEF OrderInv, OrderTypeOK, OrderStatus, AnnouncedOnce, TotalFits
<1>1. OrderInit => OrderInv
  BY DEF OrderInit
<1>2. ASSUME OrderInv, MarkAsPaid \/ StartFulfillment \/ Complete
      PROVE  OrderInv'
  <2>1. CASE MarkAsPaid
    BY <1>2, <2>1 DEF MarkAsPaid, ChangeStatus, OrderTransitions
  <2>2. CASE StartFulfillment
    BY <1>2, <2>2 DEF StartFulfillment, ChangeStatus, OrderTransitions
  <2>3. CASE Complete
    BY <1>2, <2>3 DEF Complete, ChangeStatus, OrderTransitions
  <2>. QED  BY <1>2, <2>1, <2>2, <2>3
<1>3. ASSUME OrderInv, Cancel
      PROVE  OrderInv'
  BY <1>3 DEF Cancel
<1>4. ASSUME OrderInv, RemoveDiscount \/ \E d \in Discounts : ApplyDiscount(d)
      PROVE  OrderInv'
  <2>1. order.gross \in Nat /\ order.total \in Nat /\ order.total <= order.gross
    BY <1>4
  <2>2. ASSUME NEW d \in Nat, NEW t \in Nat, UNCHANGED announced,
               t <= order.gross, d <= order.gross => t = order.gross - d,
               order' = [order EXCEPT !.discount = d, !.total = t]
        PROVE  OrderInv'
    <3>1. order' \in [status : OrderStatus, gross : Nat, discount : Nat, total : Nat]
      BY <1>4, <2>2
    <3>2. /\ order'.status = order.status /\ order'.gross = order.gross
          /\ order'.discount = d /\ order'.total = t
      BY <1>4, <2>2
    <3>. QED  BY <1>4, <2>2, <3>1, <3>2
  <2>3. CASE RemoveDiscount
    <3>1. order.gross - 0 = order.gross /\ order.gross <= order.gross
      BY <2>1
    <3>2. order' = [order EXCEPT !.discount = 0, !.total = order.gross] /\ UNCHANGED announced
      BY <2>3 DEF RemoveDiscount
    <3>. HIDE DEF OrderInv
    <3>. QED  BY <2>1, <2>2, <3>1, <3>2
  <2>4. ASSUME NEW d \in Discounts, ApplyDiscount(d)
        PROVE  OrderInv'
    <3>. DEFINE t == IF d <= order.gross THEN order.gross - d ELSE order.total
    <3>1. d \in Nat
      BY <2>4 DEF ApplyDiscount
    <3>2. t \in Nat /\ t <= order.gross /\ (d <= order.gross => t = order.gross - d)
      BY <2>1, <3>1
    <3>3. order' = [order EXCEPT !.discount = d, !.total = t] /\ UNCHANGED announced
      BY <2>4 DEF ApplyDiscount
    <3>. HIDE DEF OrderInv, t
    <3>. QED  BY <2>2, <3>1, <3>2, <3>3
  <2>. QED  BY <1>4, <2>3, <2>4
<1>5. ASSUME OrderInv, UNCHANGED orderVars
      PROVE  OrderInv'
  BY <1>5 DEF orderVars
<1>. QED  BY <1>1, <1>2, <1>3, <1>4, <1>5 DEF OrderNext

(* OrderPaid, OrderCompleted and OrderCancelled tell the truth, once. *)
THEOREM OrderEventsOnce == OrderSpec => []AnnouncedOnce
<1>1. OrderInv => AnnouncedOnce
  BY DEF OrderInv
<1>. QED  BY <1>1, OrderInductive, PTL DEF OrderSpec

(* The customer pays what the parts of the order add up to, for every
   discount that fits, and never more than without one. *)
THEOREM OrderTotalsFit == OrderSpec => []TotalFits
<1>1. OrderInv => TotalFits
  BY DEF OrderInv
<1>. QED  BY <1>1, OrderInductive, PTL DEF OrderSpec

LEMMA TerminalOrderStep ==
    ASSUME OrderInv, [OrderNext]_orderVars, IsTerminalOrder(order)
    PROVE  order' = order
<1>1. order.status \in OrderStatus /\ OrderTransitions[order.status] = {}
  BY DEF OrderInv, OrderTypeOK, OrderStatus, OrderTransitions, IsTerminalOrder
<1>2. \A status : ~ ChangeStatus(status)
  BY <1>1 DEF ChangeStatus
<1>3. ~ OrderNext
  BY <1>2 DEF OrderNext, MarkAsPaid, StartFulfillment, Complete, Cancel, ApplyDiscount,
     RemoveDiscount, IsTerminalOrder
<1>. QED  BY <1>3 DEF orderVars

(* A completed or cancelled order never changes again, its money included. *)
THEOREM TerminalOrdersFrozen == OrderSpec => TerminalOrderFrozen
<1>1. OrderInv /\ [OrderNext]_orderVars => [~ IsTerminalOrder(order)]_order
  BY TerminalOrderStep
<1>. QED  BY <1>1, OrderInductive, PTL DEF OrderSpec, TerminalOrderFrozen

-----------------------------------------------------------------------------
(* Payment.  Which events a payment in each status may have raised, and what
   the provider must have said before. *)
Path ==
    [s \in PaymentStatus |->
        CASE s = "INITIATED" -> {}
          [] s = "PENDING" -> {"PENDING"}
          [] s = "REFUND" -> {"PENDING", "SETTLEMENT", "REFUND"}
          [] OTHER -> {"PENDING", s}]

PaymentInv ==
    /\ payment.status \in PaymentStatus
    /\ payment = [status |-> payment.status, payload |-> payment.payload]
    /\ raised \in [PaymentStatus -> 0 .. 1]
    /\ \A s \in PaymentStatus : raised[s] = 1 => s \in Path[payment.status]
    /\ payment.status \in {"SETTLEMENT", "REFUND"} => raised["SETTLEMENT"] = 1

HeardInv ==
    /\ sent \subseteq Notification
    /\ \A n \in sent : MapProviderStatus(n) = "SETTLEMENT" =>
         provider \in {"capture", "settlement", "refund", "partial_refund", "chargeback"}
    /\ \A n \in sent : MapProviderStatus(n) = "REFUND" =>
         provider \in {"refund", "partial_refund"}
    /\ NeverAhead

LEMMA MarkInductive ==
    ASSUME PaymentInv, NEW status \in PaymentStatus, NEW payload,
           Accepts(status), Mark(status, payload)
    PROVE  /\ PaymentInv'
           /\ \A s \in PaymentStatus : raised'[s] # raised[s] => s = status
<1>1. payment'.status = status
  BY DEF Mark
<1>2. payment' = [status |-> payment'.status, payload |-> payment'.payload]
  BY DEF Mark
<1>3. CASE payment.status = status
  BY <1>1, <1>2, <1>3 DEF Mark, PaymentInv
<1>4. CASE payment.status # status
  <2>1. status \in PaymentTransitions[payment.status]
    BY <1>4 DEF Accepts
  <2>2. /\ Path[payment.status] \cup {status} \subseteq Path[status]
        /\ status \notin Path[payment.status]
        /\ status = "REFUND" => payment.status = "SETTLEMENT"
    BY <2>1 DEF PaymentTransitions, Path, PaymentStatus, PaymentInv
  <2>3. raised[status] = 0
    BY <2>2 DEF PaymentInv
  <2>4. raised' = [raised EXCEPT ![status] = 1]
    BY <1>4, <2>3 DEF Mark
  <2>. QED  BY <1>1, <1>2, <2>2, <2>4 DEF PaymentInv
<1>. QED  BY <1>3, <1>4

(* A word the code cannot map is never accepted. *)
LEMMA AcceptedIsMapped ==
    ASSUME payment.status \in PaymentStatus, NEW n \in Notification,
           Accepts(MapProviderStatus(n))
    PROVE  MapProviderStatus(n) \in PaymentStatus
<1>1. /\ PaymentTransitions[payment.status] \subseteq PaymentStatus
      /\ "unmapped" \notin PaymentStatus
  BY DEF PaymentTransitions, PaymentStatus
<1>2. "unmapped" # payment.status /\ "unmapped" \notin PaymentTransitions[payment.status]
  BY <1>1
<1>3. MapProviderStatus(n) # "unmapped"
  BY <1>2 DEF Accepts
<1>. QED  BY <1>3 DEF MapProviderStatus, Notification, PaymentStatus

LEMMA PaymentInductive ==
    /\ PaymentInit => PaymentInv /\ HeardInv
    /\ PaymentInv /\ HeardInv /\ [PaymentNext]_paymentVars => PaymentInv' /\ HeardInv'
<1>1. PaymentInit => PaymentInv /\ HeardInv
  BY DEF PaymentInit, PaymentInv, HeardInv, NeverAhead, PaymentStatus
<1>2. ASSUME PaymentInv, HeardInv, NEW status \in PaymentStatus, MarkByShop(status)
      PROVE  PaymentInv' /\ HeardInv'
  <2>1. /\ Accepts(status) /\ Mark(status, payment.payload)
        /\ UNCHANGED <<provider, sent>>
        /\ byShop' = byShop \cup {status}
    BY <1>2 DEF MarkByShop, Accepts
  <2>2. PaymentInv' /\ \A s \in PaymentStatus : raised'[s] # raised[s] => s = status
    BY <1>2, <2>1, MarkInductive
  <2>3. \A s \in PaymentStatus : s \notin byShop' => s \notin byShop /\ raised'[s] = raised[s]
    BY <2>1, <2>2
  <2>. QED  BY <1>2, <2>1, <2>2, <2>3 DEF HeardInv, NeverAhead, PaymentStatus
<1>3. ASSUME PaymentInv, HeardInv, NEW n \in Notification, ProcessWebhook(n)
      PROVE  PaymentInv' /\ HeardInv'
  <2>. DEFINE status == MapProviderStatus(n)
  <2>1. /\ n \in sent
        /\ sent' \subseteq sent
        /\ UNCHANGED <<provider, byShop>>
    BY <1>3 DEF ProcessWebhook
  <2>2. CASE Accepts(status)
    <3>1. Mark(status, n) /\ status \in PaymentStatus
      BY <1>3, <2>2, AcceptedIsMapped DEF ProcessWebhook, PaymentInv
    <3>2. PaymentInv' /\ \A s \in PaymentStatus : raised'[s] # raised[s] => s = status
      BY <1>3, <2>1, <2>2, <3>1, MarkInductive
    <3>. HIDE DEF status
    <3>3. /\ raised'["SETTLEMENT"] # raised["SETTLEMENT"] => status = "SETTLEMENT"
          /\ raised'["REFUND"] # raised["REFUND"] => status = "REFUND"
      BY <3>2 DEF PaymentStatus
    <3>. QED  BY <1>3, <2>1, <3>2, <3>3 DEF HeardInv, NeverAhead, status
  <2>3. CASE ~ Accepts(status)
    <3>1. payment' = [payment EXCEPT !.payload = n] /\ UNCHANGED raised
      BY <1>3, <2>3 DEF ProcessWebhook
    <3>2. PaymentInv'
      BY <1>3, <3>1 DEF PaymentInv
    <3>. QED  BY <1>3, <2>1, <3>1, <3>2 DEF HeardInv, NeverAhead
  <2>. QED  BY <2>2, <2>3
<1>4. ASSUME PaymentInv, HeardInv, ProviderMoves
      PROVE  PaymentInv' /\ HeardInv'
  <2>1. UNCHANGED <<payment, raised>>
    BY <1>4 DEF ProviderMoves
  <2>2. HeardInv'
    BY <1>4 DEF ProviderMoves, HeardInv, NeverAhead, Notification, MapProviderStatus
  <2>. QED  BY <1>4, <2>1, <2>2 DEF PaymentInv
<1>5. ASSUME PaymentInv, HeardInv, UNCHANGED paymentVars
      PROVE  PaymentInv' /\ HeardInv'
  BY <1>5 DEF paymentVars, PaymentInv, HeardInv, NeverAhead
<1>. QED  BY <1>1, <1>2, <1>3, <1>4, <1>5 DEF PaymentNext

LEMMA PaymentTells == PaymentInv => RaisedOnce /\ OneEnding
<1>1. PaymentInv => RaisedOnce
  BY DEF PaymentInv, RaisedOnce
<1>2. PaymentInv => OneEnding
  BY DEF PaymentInv, OneEnding, Path, PaymentStatus
<1>. QED  BY <1>1, <1>2

(* No duplicate or late notification raises an event a second time. *)
THEOREM PaymentEventsOnce == PaymentSpec => []RaisedOnce
BY PaymentTells, PaymentInductive, PTL DEF PaymentSpec

(* A payment ends in one way, and only a settled one is refunded. *)
THEOREM PaymentEndsOnce == PaymentSpec => []OneEnding
BY PaymentTells, PaymentInductive, PTL DEF PaymentSpec

(* The notifications never make the shop believe in money the provider has not
   reported: a settlement or a refund the shop did not ask for itself follows the
   provider's own, however often and in whatever order the words arrive. *)
THEOREM PaymentNeverAhead == PaymentSpec => []NeverAhead
<1>1. HeardInv => NeverAhead
  BY DEF HeardInv
<1>. QED  BY <1>1, PaymentInductive, PTL DEF PaymentSpec

-----------------------------------------------------------------------------
(* Discount.  The usage is counted by applyToOrder and reverseUsage only. *)
DiscountInv ==
    /\ discount.used \in Nat
    /\ discount.limit \in Limit \cup {Unlimited}
    /\ discount.period \in Period
    /\ discount = [status |-> discount.status, period |-> discount.period,
                   limit |-> discount.limit, used |-> discount.used]
    /\ today \in 0 .. LastDay

LEMMA DiscountInductive ==
    /\ DiscountInit => DiscountInv
    /\ DiscountInv /\ [DiscountNext]_discountVars => DiscountInv'
<1>. USE DiscountAssumption DEF DiscountInv
<1>1. DiscountInit => DiscountInv
  BY DEF DiscountInit
<1>2. ASSUME DiscountInv, DiscountNext
      PROVE  DiscountInv'
  <2>1. CASE Activate \/ Deactivate \/ MarkAsExpired
    BY <1>2, <2>1 DEF Activate, Deactivate, MarkAsExpired, ChangeDiscountStatus
  <2>2. CASE ApplyToOrder
    BY <1>2, <2>2 DEF ApplyToOrder
  <2>3. CASE ReverseUsage
    BY <1>2, <2>3 DEF ReverseUsage
  <2>4. ASSUME NEW p \in Period, NEW n \in Limit \cup {Unlimited}, UpdateInfo(p, n)
        PROVE  DiscountInv'
    BY <1>2, <2>4 DEF UpdateInfo
  <2>5. CASE Tick
    BY <1>2, <2>5 DEF Tick
  <2>. QED  BY <1>2, <2>1, <2>2, <2>3, <2>4, <2>5 DEF DiscountNext
<1>3. ASSUME DiscountInv, UNCHANGED discountVars
      PROVE  DiscountInv'
  BY <1>3 DEF discountVars
<1>. QED  BY <1>1, <1>2, <1>3

LEMMA UsedGrows ==
    ASSUME DiscountInv, [DiscountNext]_discountVars, discount'.used > discount.used
    PROVE  ApplyToOrder
<1>1. ASSUME Activate \/ Deactivate \/ MarkAsExpired
      PROVE  discount'.used = discount.used
  BY <1>1 DEF DiscountInv, Activate, Deactivate, MarkAsExpired, ChangeDiscountStatus
<1>2. ASSUME ReverseUsage
      PROVE  ~ (discount'.used > discount.used)
  BY <1>2 DEF DiscountInv, ReverseUsage
<1>3. ASSUME NEW p, NEW n, UpdateInfo(p, n)
      PROVE  discount'.used = discount.used
  BY <1>3 DEF DiscountInv, UpdateInfo
<1>4. ASSUME Tick \/ UNCHANGED discountVars
      PROVE  discount'.used = discount.used
  BY <1>4 DEF Tick, discountVars
<1>5. discount'.used # discount.used
  BY DEF DiscountInv
<1>. QED  BY <1>1, <1>2, <1>3, <1>4, <1>5 DEF DiscountNext

OnTerms ==
    /\ discount'.used > discount.used
       => /\ today >= discount.period[1] /\ today <= discount.period[2]
          /\ discount.limit # Unlimited => discount'.used <= discount.limit
    /\ discount.status = "EXPIRED"
       => /\ discount'.used <= discount.used
          /\ discount' = [discount EXCEPT !.used = discount'.used]

LEMMA OnTermsStep ==
    ASSUME DiscountInv, [DiscountNext]_discountVars
    PROVE  OnTerms
<1>1. ASSUME DiscountInv, [DiscountNext]_discountVars,
             discount'.used > discount.used
      PROVE  /\ today >= discount.period[1] /\ today <= discount.period[2]
             /\ discount.limit # Unlimited => discount'.used <= discount.limit
  <2>1. ApplyToOrder
    BY <1>1, UsedGrows
  <2>2. discount'.used = discount.used + 1
    BY <1>1, <2>1 DEF ApplyToOrder, DiscountInv
  <2>3. ASSUME discount.limit # Unlimited
        PROVE  discount'.used <= discount.limit
    <3>1. discount.limit \in Nat /\ discount.used \in Nat
      BY <1>1, <2>3, DiscountAssumption DEF DiscountInv
    <3>2. discount.used < discount.limit
      BY <2>1, <2>3, <3>1 DEF ApplyToOrder, IsUsageLimitReached
    <3>. QED  BY <2>2, <3>1, <3>2
  <2>4. today >= discount.period[1] /\ today <= discount.period[2]
    BY <1>1, <2>1, DiscountAssumption
       DEF ApplyToOrder, IsCurrentlyValid, DiscountInv, Period
  <2>. QED  BY <2>3, <2>4
<1>2. ASSUME DiscountInv, [DiscountNext]_discountVars, discount.status = "EXPIRED"
      PROVE  /\ discount'.used <= discount.used
             /\ discount' = [discount EXCEPT !.used = discount'.used]
  <2>1. CASE ReverseUsage
    BY <1>2, <2>1 DEF ReverseUsage, DiscountInv
  <2>2. CASE Tick \/ UNCHANGED discountVars
    BY <1>2, <2>2 DEF Tick, discountVars, DiscountInv
  <2>3. ~ (Activate \/ Deactivate \/ MarkAsExpired)
    BY <1>2 DEF Activate, Deactivate, MarkAsExpired, ChangeDiscountStatus,
                DiscountTransitions, DiscountStatus
  <2>4. ~ ApplyToOrder /\ \A p, n : ~ UpdateInfo(p, n)
    BY <1>2 DEF ApplyToOrder, UpdateInfo
  <2>. QED  BY <1>2, <2>1, <2>2, <2>3, <2>4 DEF DiscountNext
<1>. QED  BY <1>1, <1>2 DEF OnTerms

(* For any limits and periods and any changes of them, no use goes beyond the
   limit or falls outside the period, and an expired voucher keeps its terms. *)
THEOREM VoucherUsedOnItsTerms == DiscountSpec => UsedOnItsTerms
<1>1. DiscountInv /\ [DiscountNext]_discountVars => [OnTerms]_discountVars
  BY OnTermsStep
<1>. QED  BY <1>1, DiscountInductive, PTL DEF DiscountSpec, UsedOnItsTerms, OnTerms

(* What a voucher takes off a positive amount is never negative and never more
   than the amount, whatever percentage, value or cap it was created with. *)
THEOREM VoucherWithinAmount ==
    ASSUME NEW amount \in Nat,
           NEW worth \in [type : {"PERCENTAGE", "FIXED_AMOUNT"}, value : Nat, cap : Nat]
    PROVE  CalculateDiscount(worth, amount) \in 0 .. amount
<1>1. PercentOf(amount, worth.value) \in Nat
  <2>1. amount * worth.value \in Nat
    OBVIOUS
  <2>2. \A x \in Nat : (2 * x + 10000) \div 20000 \in Nat
    OBVIOUS
  <2>3. 2 * amount * worth.value = 2 * (amount * worth.value)
    OBVIOUS
  <2>. QED  BY <2>1, <2>2, <2>3 DEF PercentOf
<1>2. \A a, b \in Nat : Least(a, b) \in Nat /\ Least(a, b) <= b
  BY DEF Least
<1>. DEFINE share == IF worth.type = "FIXED_AMOUNT" THEN worth.value
                     ELSE IF worth.cap = 0 THEN PercentOf(amount, worth.value)
                     ELSE Least(PercentOf(amount, worth.value), worth.cap)
<1>3. worth.value \in Nat /\ worth.cap \in Nat
  OBVIOUS
<1>4. share \in Nat
  BY <1>1, <1>2, <1>3
<1>5. CalculateDiscount(worth, amount) = Least(share, amount)
  BY DEF CalculateDiscount
<1>. HIDE DEF share
<1>. QED  BY <1>2, <1>4, <1>5

(* Whole parts of 20000 do not shrink, and gain no more than is put in *)
LEMMA RoundingMonotone ==
    ASSUME NEW x \in Nat, NEW y \in Nat, x <= y
    PROVE  (2 * x + 10000) \div 20000 <= (2 * y + 10000) \div 20000
OBVIOUS

LEMMA RoundingContracts ==
    ASSUME NEW x \in Nat, NEW n \in Nat
    PROVE  (2 * (x + 10000 * n) + 10000) \div 20000 = (2 * x + 10000) \div 20000 + n
OBVIOUS

(* Products of two numbers are left whole; the provers know sums *)
LEMMA PercentGrows ==
    ASSUME NEW a \in Nat, NEW b \in Nat, a <= b, NEW v \in Nat, v <= 10000
    PROVE  /\ PercentOf(a, v) \in Nat /\ PercentOf(b, v) \in Nat
           /\ PercentOf(a, v) <= PercentOf(b, v)
           /\ PercentOf(b, v) <= PercentOf(a, v) + (b - a)
<1>. DEFINE x == a * v
            y == b * v
            k == b - a
<1>1. x \in Nat /\ y \in Nat /\ k \in Nat
  OBVIOUS
<1>2. x <= y /\ y <= x + 10000 * k
  <2>1. y = x + k * v
    OBVIOUS
  <2>. DEFINE w == 10000 - v
  <2>2. w \in Nat /\ v + w = 10000
    OBVIOUS
  <2>. HIDE DEF k, w
  <2>3. k * v \in Nat /\ k * w \in Nat
    BY <1>1, <2>2
  <2>4. k * (v + w) = k * v + k * w
    BY <1>1, <2>2
  <2>5. 10000 * k = k * v + k * w
    BY <1>1, <2>2, <2>4
  <2>. HIDE DEF x, y
  <2>. QED  BY <1>1, <2>1, <2>3, <2>5
<1>3. PercentOf(a, v) = (2 * x + 10000) \div 20000 /\ PercentOf(b, v) = (2 * y + 10000) \div 20000
  <2>1. 2 * a * v = 2 * x /\ 2 * b * v = 2 * y
    OBVIOUS
  <2>. QED  BY <2>1 DEF PercentOf
<1>. HIDE DEF x, y, k
<1>4. (2 * x + 10000) \div 20000 \in Nat /\ (2 * y + 10000) \div 20000 \in Nat
  BY <1>1
<1>5. (2 * x + 10000) \div 20000 <= (2 * y + 10000) \div 20000
  BY <1>1, <1>2, RoundingMonotone
<1>6. (2 * y + 10000) \div 20000 <= (2 * (x + 10000 * k) + 10000) \div 20000
  <2>1. x + 10000 * k \in Nat
    BY <1>1
  <2>. QED  BY <1>1, <1>2, <2>1, RoundingMonotone
<1>7. (2 * (x + 10000 * k) + 10000) \div 20000 = (2 * x + 10000) \div 20000 + k
  BY <1>1, RoundingContracts
<1>. QED  BY <1>1, <1>3, <1>4, <1>5, <1>6, <1>7 DEF k

(* An order that is worth more is granted no less, and never costs less than
   one that is worth less: nobody saves by putting more into the cart, and
   nobody by leaving something out. *)
THEOREM VoucherMonotone ==
    ASSUME NEW a \in Nat, NEW b \in Nat, a <= b,
           NEW worth \in [type : {"PERCENTAGE", "FIXED_AMOUNT"}, value : Nat, cap : Nat],
           worth.type = "PERCENTAGE" => worth.value <= 10000
    PROVE  /\ CalculateDiscount(worth, a) <= CalculateDiscount(worth, b)
           /\ a - CalculateDiscount(worth, a) <= b - CalculateDiscount(worth, b)
<1>1. worth.value \in Nat /\ worth.cap \in Nat
  OBVIOUS
<1>2. ASSUME NEW s \in Nat, NEW t \in Nat, s <= t, t <= s + (b - a)
      PROVE  /\ Least(s, a) <= Least(t, b)
             /\ a - Least(s, a) <= b - Least(t, b)
  BY <1>2 DEF Least
<1>3. CASE worth.type = "FIXED_AMOUNT"
  BY <1>1, <1>2, <1>3 DEF CalculateDiscount
<1>4. CASE worth.type = "PERCENTAGE"
  <2>. DEFINE v == worth.value
              s == PercentOf(a, v)
              t == PercentOf(b, v)
  <2>0. v \in Nat /\ v <= 10000
    BY <1>1, <1>4
  <2>1. s \in Nat /\ t \in Nat /\ s <= t /\ t <= s + (b - a)
    <3>. HIDE DEF v
    <3>. QED  BY <2>0, PercentGrows
  <2>2. CalculateDiscount(worth, a) =
          Least(IF worth.cap = 0 THEN s ELSE Least(s, worth.cap), a)
    BY <1>4 DEF CalculateDiscount
  <2>3. CalculateDiscount(worth, b) =
          Least(IF worth.cap = 0 THEN t ELSE Least(t, worth.cap), b)
    BY <1>4 DEF CalculateDiscount
  <2>. HIDE DEF s, t
  <2>4. CASE worth.cap = 0
    BY <1>2, <2>1, <2>2, <2>3, <2>4
  <2>5. CASE worth.cap # 0
    <3>1. /\ Least(s, worth.cap) \in Nat /\ Least(t, worth.cap) \in Nat
          /\ Least(s, worth.cap) <= Least(t, worth.cap)
          /\ Least(t, worth.cap) <= Least(s, worth.cap) + (b - a)
      BY <1>1, <2>1 DEF Least
    <3>. QED  BY <1>2, <2>2, <2>3, <2>5, <3>1
  <2>. QED  BY <2>4, <2>5
<1>. QED  BY <1>3, <1>4

-----------------------------------------------------------------------------
(* Cart *)
CartInv ==
    /\ CartTypeOK
    /\ \A line \in lines : line.id \in usedIds
    /\ OneLinePerProduct

LEMMA SetQuantityInductive ==
    ASSUME CartInv, NEW line \in lines, NEW quantity, SetQuantity(line, quantity)
    PROVE  CartInv'
<1>. DEFINE changed == [line EXCEPT !.quantity = quantity]
<1>1. /\ changed \in Line
      /\ changed.id = line.id
      /\ changed.product = line.product
  BY DEF SetQuantity, CartInv, CartTypeOK, Line
<1>2. lines' = (lines \ {line}) \cup {changed} /\ usedIds' = usedIds
  BY DEF SetQuantity
<1>. HIDE DEF changed
<1>. QED  BY <1>1, <1>2 DEF CartInv, CartTypeOK, OneLinePerProduct

LEMMA CartInductive ==
    /\ CartInit => CartInv
    /\ CartInv /\ [CartNext]_cartVars => CartInv'
<1>1. CartInit => CartInv
  BY DEF CartInit, CartInv, CartTypeOK, OneLinePerProduct
<1>2. ASSUME CartInv, NEW product \in ProductId, NEW quantity \in LineAmount,
             AddItem(product, quantity)
      PROVE  CartInv'
  <2>1. CASE \E line \in lines : line.product = product
    BY <1>2, <2>1, SetQuantityInductive DEF AddItem
  <2>2. CASE ~ \E line \in lines : line.product = product
    <3>1. PICK id \in LineId \ usedIds :
            /\ quantity \in Quantity
            /\ lines' = lines \cup {[id |-> id, product |-> product, quantity |-> quantity]}
            /\ usedIds' = usedIds \cup {id}
      BY <1>2, <2>2 DEF AddItem, NewLine
    <3>. DEFINE new == [id |-> id, product |-> product, quantity |-> quantity]
    <3>2. new \in Line /\ new.id = id /\ new.product = product
      BY <3>1 DEF Line
    <3>3. lines' = lines \cup {new}
      BY <3>1
    <3>4. \A line \in lines : line.product # product /\ line.id # id
      BY <1>2, <2>2, <3>1 DEF CartInv
    <3>. HIDE DEF new
    <3>. QED
      BY <1>2, <3>1, <3>2, <3>3, <3>4 DEF CartInv, CartTypeOK, OneLinePerProduct
  <2>. QED  BY <2>1, <2>2
<1>3. ASSUME CartInv, NEW line \in lines, RemoveItem(line)
      PROVE  CartInv'
  BY <1>3 DEF RemoveItem, CartInv, CartTypeOK, OneLinePerProduct
<1>4. ASSUME CartInv, NEW id \in LineId, NEW quantity \in LineAmount,
             UpdateItemQuantity(id, quantity)
      PROVE  CartInv'
  BY <1>4, SetQuantityInductive DEF UpdateItemQuantity
<1>5. ASSUME CartInv, ClearCart \/ UNCHANGED cartVars
      PROVE  CartInv'
  BY <1>5 DEF ClearCart, cartVars, CartInv, CartTypeOK, OneLinePerProduct
<1>. QED  BY <1>1, <1>2, <1>3, <1>4, <1>5 DEF CartNext

(* However a cart is used, what findItemByProductId and findItemById find is
   the only line it could be. *)
THEOREM CartLinesUnique == CartSpec => []OneLinePerProduct
<1>1. CartInv => OneLinePerProduct
  BY DEF CartInv
<1>. QED  BY <1>1, CartInductive, PTL DEF CartSpec

-----------------------------------------------------------------------------
(* Product.  deletedAt goes with the status. *)
ProductInv ==
    /\ ProductLifecycleTypeOK
    /\ EventsTellStatus
    /\ article.deletedAt <=> article.status = "DELETED"

LEMMA ProductInductive ==
    /\ ProductInit => ProductInv
    /\ ProductInv /\ [ProductNext]_articleVars => ProductInv'
<1>. USE DEF ProductInv, ProductLifecycleTypeOK, EventsTellStatus, ProductRecord, ProductStatus
<1>1. ProductInit => ProductInv
  BY DEF ProductInit, CreateProduct
<1>2. ASSUME ProductInv, NEW new \in {"ACTIVE", "INACTIVE", "OUT_OF_STOCK", "DISCONTINUED"},
             MoveTo(new), Tell(article.status, new)
      PROVE  ProductInv'
  <2>1. new \in Transitions(article.status) /\ article.status # new
    BY <1>2 DEF MoveTo, CanChangeStatus
  <2>2. article' = [article EXCEPT !.status = new]
    BY <1>2 DEF MoveTo, SetStatus
  <2>3. article.status \in {"ACTIVE", "INACTIVE", "OUT_OF_STOCK"}
    BY <1>2, <2>1 DEF Transitions
  <2>. QED  BY <1>2, <2>1, <2>2, <2>3 DEF Tell, Transitions
<1>3. ASSUME ProductInv, Withdraw
      PROVE  ProductInv'
  <2>1. article.status = "ACTIVE"
    BY <1>3 DEF Withdraw, CanDelete, CanChangeStatus, Transitions
  <2>. QED  BY <1>3, <2>1 DEF Withdraw, DeleteProduct
<1>4. ASSUME ProductInv, Describe
      PROVE  ProductInv'
  BY <1>4 DEF Describe, SetInfo
<1>5. ASSUME ProductInv, UNCHANGED articleVars
      PROVE  ProductInv'
  BY <1>5 DEF articleVars
<1>6. ASSUME ProductInv, ProductNext
      PROVE  ProductInv'
  <2>1. CASE ActivateProduct
    BY <1>2, <1>6, <2>1 DEF ActivateProduct
  <2>2. CASE DeactivateProduct
    BY <1>2, <1>6, <2>2 DEF DeactivateProduct
  <2>3. CASE MarkAsOutOfStock
    BY <1>2, <1>6, <2>3 DEF MarkAsOutOfStock
  <2>4. CASE DiscontinueProduct
    BY <1>2, <1>6, <2>4 DEF DiscontinueProduct
  <2>. QED  BY <1>3, <1>4, <1>6, <2>1, <2>2, <2>3, <2>4 DEF ProductNext
<1>. QED  BY <1>1, <1>5, <1>6

(* Who adds up the events of a product knows its status. *)
THEOREM ProductEventsTellStatus == ProductSpec => []EventsTellStatus
<1>1. ProductInv => EventsTellStatus
  BY DEF ProductInv
<1>. QED  BY <1>1, ProductInductive, PTL DEF ProductSpec

FrozenProduct ==
    /\ article.status \in {"DISCONTINUED", "DELETED"} => article' = article
    /\ article'.deletedAt <=> article'.status = "DELETED"

LEMMA FrozenProductStep ==
    ASSUME ProductInv, ProductInv', [ProductNext]_articleVars
    PROVE  FrozenProduct
<1>1. ASSUME ProductInv, [ProductNext]_articleVars,
             article.status \in {"DISCONTINUED", "DELETED"}
      PROVE  article' = article
  <2>1. \A new : ~ MoveTo(new)
    BY <1>1 DEF MoveTo, CanChangeStatus, Transitions
  <2>2. ~ Withdraw /\ ~ Describe
    BY <1>1 DEF Withdraw, CanDelete, CanChangeStatus, Transitions, Describe, CanModify
  <2>. QED
    BY <1>1, <2>1, <2>2 DEF ProductNext, ActivateProduct, DeactivateProduct,
       MarkAsOutOfStock, DiscontinueProduct, articleVars
<1>. QED  BY <1>1 DEF FrozenProduct, ProductInv

(* Nothing changes a discontinued or deleted product, its description and
   price included. *)
THEOREM TerminalProductsFrozen == ProductSpec => TerminalProductFrozen
<1>1. ProductInv /\ ProductInv' /\ [ProductNext]_articleVars => [FrozenProduct]_articleVars
  BY FrozenProductStep
<1>. QED
  BY <1>1, ProductInductive, PTL DEF ProductSpec, TerminalProductFrozen, FrozenProduct

-----------------------------------------------------------------------------
(* User *)
UserInv ==
    /\ UserTypeOK
    /\ member.phoneVerified => member.phoneNumber # NoPhone
    /\ member.deletedAt <=> member.status = "deleted"

LEMMA UserInductive ==
    /\ UserInit => UserInv
    /\ UserInv /\ [UserNext]_member => UserInv'
<1>. USE UserAssumption DEF UserInv, UserTypeOK, UserStatus
<1>1. UserInit => UserInv
  BY DEF UserInit
<1>2. ASSUME UserInv, NEW phone \in PhoneNumber \cup {NoPhone}, UpdatePhoneNumber(phone)
      PROVE  UserInv'
  <2>. DEFINE verified == member.phoneVerified /\ phone # NoPhone
  <2>1. verified \in BOOLEAN /\ (verified => phone # NoPhone)
    BY <1>2
  <2>2. member' = [member EXCEPT !.phoneNumber = phone, !.phoneVerified = verified]
    BY <1>2 DEF UpdatePhoneNumber
  <2>. HIDE DEF verified
  <2>. QED  BY <1>2, <2>1, <2>2
<1>3. ASSUME UserInv, VerifyPhone \/ UnverifyPhone
      PROVE  UserInv'
  BY <1>3 DEF VerifyPhone, UnverifyPhone
<1>4. ASSUME UserInv, NEW addresses \in [AddressKind -> 0 .. MaxAddresses],
             member' = [member EXCEPT !.addresses = addresses]
      PROVE  UserInv'
  BY <1>4
<1>5. ASSUME UserInv,
             \/ \E kind \in AddressKind : AddAddress(kind) \/ RemoveAddress(kind)
             \/ \E from, to \in AddressKind : UpdateAddress(from, to)
      PROVE  UserInv'
  <2>. DEFINE old == member.addresses
  <2>1. old \in [AddressKind -> 0 .. MaxAddresses]
    BY <1>5
  <2>2. ASSUME NEW kind \in AddressKind, AddAddress(kind)
        PROVE  UserInv'
    <3>1. old[kind] + 1 \in 0 .. MaxAddresses
      BY <2>1, <2>2 DEF AddAddress
    <3>2. member' = [member EXCEPT !.addresses = [old EXCEPT ![kind] = old[kind] + 1]]
      BY <2>2 DEF AddAddress
    <3>3. [old EXCEPT ![kind] = old[kind] + 1] \in [AddressKind -> 0 .. MaxAddresses]
      BY <2>1, <3>1
    <3>. HIDE DEF UserInv, UserTypeOK, old
    <3>. QED  BY <1>4, <1>5, <3>2, <3>3
  <2>3. ASSUME NEW kind \in AddressKind, RemoveAddress(kind)
        PROVE  UserInv'
    <3>1. old[kind] - 1 \in 0 .. MaxAddresses
      BY <2>1, <2>3 DEF RemoveAddress
    <3>2. member' = [member EXCEPT !.addresses = [old EXCEPT ![kind] = old[kind] - 1]]
      BY <2>3 DEF RemoveAddress
    <3>3. [old EXCEPT ![kind] = old[kind] - 1] \in [AddressKind -> 0 .. MaxAddresses]
      BY <2>1, <3>1
    <3>. HIDE DEF UserInv, UserTypeOK, old
    <3>. QED  BY <1>4, <1>5, <3>2, <3>3
  <2>4. ASSUME NEW from \in AddressKind, NEW to \in AddressKind, UpdateAddress(from, to)
        PROVE  UserInv'
    <3>. DEFINE less == [old EXCEPT ![from] = old[from] - 1]
                new  == [less EXCEPT ![to] = less[to] + 1]
    <3>1. old[from] - 1 \in 0 .. MaxAddresses /\ old[to] + 1 \in 0 .. MaxAddresses
      BY <2>1, <2>4 DEF UpdateAddress
    <3>2. less \in [AddressKind -> 0 .. MaxAddresses] /\ less[to] = old[to]
      BY <2>1, <2>4, <3>1 DEF UpdateAddress
    <3>3. new \in [AddressKind -> 0 .. MaxAddresses]
      BY <3>1, <3>2
    <3>4. member' = [member EXCEPT !.addresses = new]
      BY <2>1, <2>4 DEF UpdateAddress
    <3>. HIDE DEF UserInv, UserTypeOK, old, new
    <3>. QED  BY <1>4, <1>5, <3>3, <3>4
  <2>. QED  BY <1>5, <2>2, <2>3, <2>4
<1>6. ASSUME UserInv, \/ ActivateUser \/ DeactivateUser \/ SuspendUser
                      \/ UnsuspendUser \/ DeleteUser \/ RestoreUser
      PROVE  UserInv'
  <2>1. CASE ActivateUser
    BY <1>6, <2>1 DEF ActivateUser
  <2>2. CASE DeactivateUser
    BY <1>6, <2>2 DEF DeactivateUser
  <2>3. CASE SuspendUser
    BY <1>6, <2>3 DEF SuspendUser
  <2>4. CASE UnsuspendUser
    BY <1>6, <2>4 DEF UnsuspendUser
  <2>5. CASE DeleteUser
    BY <1>6, <2>5 DEF DeleteUser
  <2>6. CASE RestoreUser
    BY <1>6, <2>6 DEF RestoreUser
  <2>. QED  BY <1>6, <2>1, <2>2, <2>3, <2>4, <2>5, <2>6
<1>7. ASSUME UserInv, UNCHANGED member
      PROVE  UserInv'
  BY <1>7
<1>. HIDE DEF UserInv
<1>. QED  BY <1>1, <1>2, <1>3, <1>5, <1>6, <1>7 DEF UserNext

LEMMA UserLoads == UserInv => OnlyDefaultsLockOut
<1>. SUFFICES ASSUME UserInv PROVE OnlyDefaultsLockOut
  OBVIOUS
<1>1. member.addresses["default"] \in Nat
  BY UserAssumption DEF UserInv, UserTypeOK, AddressKind
<1>2. member.addresses["default"] <= 1 \/ member.addresses["default"] > 1
  BY <1>1
<1>. QED  BY <1>2 DEF UserInv, OnlyDefaultsLockOut, Valid

(* No sequence of commands saves a user that cannot be loaded for any other
   reason than its default addresses. *)
THEOREM UsersLoad == UserSpec => []OnlyDefaultsLockOut
BY UserLoads, UserInductive, PTL DEF UserSpec

FrozenUser ==
    /\ member.status \in {"suspended", "deleted"} =>
         UNCHANGED <<member.phoneNumber, member.phoneVerified, member.addresses>>
    /\ member.status = "deleted" => member'.status # "active"

LEMMA FrozenUserStep ==
    ASSUME UserInv, UserNext
    PROVE  FrozenUser
<1>1. ASSUME member.status \in {"suspended", "deleted"}
      PROVE  FrozenUser
  <2>1. ~ CanBeModified
    BY <1>1 DEF CanBeModified
  <2>2. \/ ActivateUser \/ DeactivateUser \/ SuspendUser
        \/ UnsuspendUser \/ DeleteUser \/ RestoreUser
    BY <1>1, <2>1 DEF UserNext, UpdatePhoneNumber, VerifyPhone, UnverifyPhone,
       AddAddress, UpdateAddress, RemoveAddress
  <2>. QED
    BY <1>1, <2>2 DEF FrozenUser, UserInv, UserTypeOK, ActivateUser, DeactivateUser,
       SuspendUser, UnsuspendUser, DeleteUser, RestoreUser
<1>. QED  BY <1>1 DEF FrozenUser

(* The contact data of a suspended or deleted user is out of reach. *)
THEOREM SetAsideUsersFrozen == UserSpec => SetAsideUserFrozen
<1>1. UserInv /\ [UserNext]_member => [FrozenUser]_member
  BY FrozenUserStep
<1>. QED  BY <1>1, UserInductive, PTL DEF UserSpec, SetAsideUserFrozen, FrozenUser

-----------------------------------------------------------------------------
(* Mail queue.  What is delivered and not yet confirmed is the one copy the
   queue does not count until it hears of it or the worker dies. *)
Heard(m) == IF job[m] \in {"delivered", "completed"} THEN 1 ELSE 0

LEMMA MailInductive ==
    /\ MailInit => MailTypeOK /\ CopiesExplained
    /\ MailTypeOK /\ CopiesExplained /\ [MailNext]_mailVars
         => MailTypeOK' /\ CopiesExplained'
<1>. USE MailAssumption DEF MailTypeOK, JobState, Heard
<1>. DEFINE Inv == MailTypeOK /\ CopiesExplained
<1>1. MailInit => Inv
  BY DEF MailInit, CopiesExplained
<1>2. ASSUME Inv, NEW m \in Mail, Enqueue(m) \/ Take(m) \/ Finish(m) \/ BackOff(m) \/ Clean(m)
      PROVE  Inv'
  BY <1>2 DEF CopiesExplained, Enqueue, Take, Finish, BackOff, Clean, Move
<1>3. ASSUME Inv, NEW m \in Mail, Deliver(m)
      PROVE  Inv'
  BY <1>3 DEF CopiesExplained, Deliver, Move
<1>4. ASSUME Inv, NEW m \in Mail, SendFails(m)
      PROVE  Inv'
  <2>1. PICK taken \in {0, 1} :
             /\ copies' = [copies EXCEPT ![m] = @ + taken]
             /\ unnoticed' = [unnoticed EXCEPT ![m] = @ + taken]
    BY <1>4 DEF SendFails
  <2>2. job'[m] \in {"delayed", "failed"} /\ job' \in [Mail -> JobState]
    BY <1>4 DEF SendFails
  <2>3. MailTypeOK'
    BY <1>4, <2>1, <2>2 DEF SendFails
  <2>4. CopiesExplained'
    BY <1>4, <2>1, <2>2 DEF SendFails, CopiesExplained
  <2>. QED  BY <2>3, <2>4
<1>5. ASSUME Inv, WorkerDies
      PROVE  Inv'
  <2>1. MailTypeOK'
    BY <1>5 DEF WorkerDies
  <2>2. ASSUME NEW m \in Mail, job'[m] # "removed"
        PROVE  copies'[m] = unnoticed'[m] + Heard(m)'
    BY <1>5, <2>2 DEF WorkerDies, CopiesExplained
  <2>. QED  BY <2>1, <2>2 DEF CopiesExplained
<1>6. ASSUME Inv, NEW s \in Sweep, NEW m \in Mail, RetryJob(s, m)
      PROVE  Inv'
  BY <1>6 DEF CopiesExplained, RetryJob
<1>7. ASSUME Inv, UNCHANGED mailVars
      PROVE  Inv'
  BY <1>7 DEF CopiesExplained, mailVars
<1>8. ASSUME Inv, RetryFailedJobs
      PROVE  Inv'
  <2>1. CopiesExplained'
    BY <1>8 DEF CopiesExplained, RetryFailedJobs
  <2>2. MailTypeOK'
    BY <1>8 DEF RetryFailedJobs, Sweep
  <2>. QED  BY <2>1, <2>2
<1>. HIDE DEF MailTypeOK
<1>. QED
  BY <1>1, <1>2, <1>3, <1>4, <1>5, <1>6, <1>7, <1>8 DEF MailNext, WorkerStep

(* However often a job fails, is retried or loses its worker, a mail is sent
   twice only where the queue could not learn of the first time. *)
THEOREM MailCopiesExplained == MailSpec => []CopiesExplained
BY MailInductive, PTL DEF MailSpec

(* A mail that is not given up has an attempt ahead of it or was delivered by
   the last one; each sweep that lists a mail may grant it one. *)
Granted(m) == IF job[m] \in {"failed", "removed"} THEN 0 ELSE 1
Lists(m) == {s \in Sweep : m \in sweep[s]}
Listed(m) == Cardinality(Lists(m))

AttemptsInv ==
    /\ \A s \in Sweep : s > sweeps => sweep[s] = {}
    /\ \A m \in Mail :
         /\ attempts[m] + Granted(m) + Listed(m) <= MaxAttempts + sweeps
         /\ unnoticed[m] <= attempts[m] + deaths

MailInv == MailTypeOK /\ CopiesExplained /\ AttemptsInv /\ CopiesBounded

LEMMA ListsFinite ==
    ASSUME NEW m
    PROVE  IsFiniteSet(Lists(m)) /\ Listed(m) \in Nat
<1>1. IsFiniteSet(Sweep)
  BY MailAssumption, FS_Interval DEF Sweep
<1>2. Lists(m) \subseteq Sweep
  BY DEF Lists
<1>. QED  BY <1>1, <1>2, FS_Subset, FS_CardinalityType DEF Listed

LEMMA ListedAtMostSweeps ==
    ASSUME MailTypeOK, AttemptsInv, NEW m \in Mail
    PROVE  Listed(m) <= sweeps
<1>1. sweeps \in Nat
  BY MailAssumption DEF MailTypeOK
<1>2. Lists(m) \subseteq 1 .. sweeps
  BY <1>1, MailAssumption DEF Lists, AttemptsInv, Sweep
<1>3. IsFiniteSet(1 .. sweeps) /\ Cardinality(1 .. sweeps) = sweeps
  BY <1>1, FS_Interval
<1>. QED  BY <1>2, <1>3, FS_Subset DEF Listed

LEMMA WithinBound ==
    MailTypeOK /\ CopiesExplained /\ AttemptsInv
      => \A m \in Mail : job[m] # "removed" => copies[m] <= MaxAttempts + sweeps + deaths
<1>. SUFFICES ASSUME MailTypeOK, CopiesExplained, AttemptsInv,
                     NEW m \in Mail, job[m] # "removed"
              PROVE  copies[m] <= MaxAttempts + sweeps + deaths
  OBVIOUS
<1>1. /\ copies[m] = unnoticed[m] + Heard(m)
      /\ Heard(m) <= Granted(m) /\ Granted(m) \in {0, 1}
  BY DEF CopiesExplained, Heard, Granted
<1>2. /\ attempts[m] \in Nat /\ unnoticed[m] \in Nat /\ deaths \in Nat /\ sweeps \in Nat
      /\ MaxAttempts \in Nat /\ Heard(m) \in {0, 1} /\ Listed(m) \in Nat
  BY MailAssumption, ListsFinite DEF MailTypeOK, Heard
<1>3. /\ attempts[m] + Granted(m) + Listed(m) <= MaxAttempts + sweeps
      /\ unnoticed[m] <= attempts[m] + deaths
  BY DEF AttemptsInv
<1>. QED  BY <1>1, <1>2, <1>3

LEMMA AttemptsStep ==
    ASSUME MailTypeOK, AttemptsInv, [MailNext]_mailVars
    PROVE  AttemptsInv'
<1>. USE MailAssumption DEF MailTypeOK, JobState, Granted
<1>0. \A m \in Mail : Listed(m) \in Nat /\ Listed(m) <= sweeps
  BY ListsFinite, ListedAtMostSweeps
<1>a. ASSUME UNCHANGED sweep  PROVE \A m \in Mail : Listed(m)' = Listed(m)
  BY <1>a DEF Listed, Lists
<1>. HIDE DEF MailTypeOK
<1>1. ASSUME NEW m \in Mail, Enqueue(m) \/ Take(m) \/ Deliver(m) \/ Finish(m) \/ BackOff(m) \/ Clean(m)
      PROVE  AttemptsInv'
  <2>1. UNCHANGED <<attempts, unnoticed, sweep, deaths, sweeps>>
    BY <1>1 DEF Enqueue, Take, Deliver, Finish, BackOff, Clean
  <2>2. \A n \in Mail : Granted(n)' <= Granted(n) /\ Granted(n) \in {0, 1} /\ Granted(n)' \in {0, 1}
    BY <1>1 DEF Enqueue, Take, Deliver, Finish, BackOff, Clean, Move, MailTypeOK
  <2>3. \A n \in Mail : attempts[n] \in Nat /\ sweeps \in Nat
    BY DEF MailTypeOK
  <2>. HIDE DEF Granted
  <2>. QED  BY <1>0, <1>a, <2>1, <2>2, <2>3 DEF AttemptsInv
<1>2. ASSUME NEW m \in Mail, SendFails(m)
      PROVE  AttemptsInv'
  <2>1. PICK taken \in {0, 1} : unnoticed' = [unnoticed EXCEPT ![m] = @ + taken]
    BY <1>2 DEF SendFails
  <2>2. /\ job[m] = "active"
        /\ attempts' = [attempts EXCEPT ![m] = @ + 1]
        /\ job' = [job EXCEPT ![m] = IF attempts[m] + 1 < MaxAttempts THEN "delayed" ELSE "failed"]
        /\ UNCHANGED <<sweep, deaths, sweeps>>
    BY <1>2 DEF SendFails
  <2>. QED  BY <1>0, <1>a, <2>1, <2>2 DEF AttemptsInv, MailTypeOK
<1>3. CASE WorkerDies
  <2>1. sweep' = [s \in Sweep |-> {}] /\ UNCHANGED <<attempts, sweeps>> /\ deaths' = deaths + 1
    BY <1>3 DEF WorkerDies
  <2>2. \A m \in Mail : Lists(m)' = {}
    BY <2>1 DEF Lists
  <2>3. \A m \in Mail : Listed(m)' = 0
    BY <2>2, FS_EmptySet DEF Listed
  <2>4. \A m \in Mail : /\ Granted(m)' <= Granted(m) /\ Granted(m) \in {0, 1}
                        /\ unnoticed'[m] <= unnoticed[m] + 1
                        /\ Granted(m)' \in {0, 1} /\ unnoticed'[m] \in Nat
    BY <1>3 DEF WorkerDies, MailTypeOK
  <2>5. \A m \in Mail : {attempts[m], unnoticed[m], sweeps, deaths} \subseteq Nat
    BY DEF MailTypeOK
  <2>. HIDE DEF Granted
  <2>. QED  BY <1>0, <2>1, <2>3, <2>4, <2>5 DEF AttemptsInv
<1>4. CASE RetryFailedJobs
  <2>1. /\ sweeps' = sweeps + 1 /\ sweeps' \in Sweep
        /\ sweep' = [sweep EXCEPT ![sweeps'] = {m \in Mail : job[m] = "failed"}]
        /\ UNCHANGED <<job, attempts, unnoticed, deaths>>
    BY <1>4 DEF RetryFailedJobs, MailTypeOK, Sweep
  <2>2. \A m \in Mail : Listed(m)' \in Nat /\ Listed(m)' <= Listed(m) + 1
    <3>. SUFFICES ASSUME NEW m \in Mail
                  PROVE  Listed(m)' \in Nat /\ Listed(m)' <= Listed(m) + 1
      OBVIOUS
    <3>1. Lists(m)' \subseteq Lists(m) \cup {sweeps'}
      BY <2>1 DEF Lists, MailTypeOK
    <3>2. /\ IsFiniteSet(Lists(m) \cup {sweeps'})
          /\ Cardinality(Lists(m) \cup {sweeps'}) \in {Listed(m), Listed(m) + 1}
      BY ListsFinite, FS_AddElement DEF Listed
    <3>3. IsFiniteSet(Lists(m)') /\ Cardinality(Lists(m)') <= Cardinality(Lists(m) \cup {sweeps'})
      BY <3>1, <3>2, FS_Subset
    <3>. QED  BY <1>0, <3>2, <3>3, FS_CardinalityType DEF Listed
  <2>3. \A s \in Sweep : s > sweeps' => sweep'[s] = {}
    BY <2>1 DEF AttemptsInv, MailTypeOK, Sweep
  <2>4. \A m \in Mail : Granted(m)' = Granted(m) /\ Granted(m) \in {0, 1}
    BY <2>1
  <2>5. \A m \in Mail : attempts[m] \in Nat /\ sweeps \in Nat
    BY DEF MailTypeOK
  <2>. HIDE DEF Granted
  <2>. QED  BY <1>0, <2>1, <2>2, <2>3, <2>4, <2>5 DEF AttemptsInv
<1>5. ASSUME NEW s \in Sweep, NEW m \in Mail, RetryJob(s, m)
      PROVE  AttemptsInv'
  <2>1. UNCHANGED <<attempts, unnoticed, deaths, sweeps>> /\ m \in sweep[s]
    BY <1>5 DEF RetryJob
  <2>2. \A t \in Sweep : sweep'[t] \subseteq sweep[t]
    BY <1>5 DEF RetryJob, MailTypeOK
  <2>3. \A n \in Mail : Listed(n)' \in Nat /\ Listed(n)' <= Listed(n)
    <3>1. \A n \in Mail : Lists(n)' \subseteq Lists(n)
      BY <2>2 DEF Lists
    <3>. QED  BY <3>1, ListsFinite, FS_Subset, FS_CardinalityType DEF Listed
  <2>4. job[m] = "failed" => Listed(m)' <= Listed(m) - 1
    <3>. SUFFICES ASSUME job[m] = "failed"  PROVE Listed(m)' <= Listed(m) - 1
      OBVIOUS
    <3>1. Lists(m)' = Lists(m) \ {s} /\ s \in Lists(m)
      BY <1>5 DEF RetryJob, MailTypeOK, Lists
    <3>2. Cardinality(Lists(m) \ {s}) = Listed(m) - 1
      BY <3>1, ListsFinite, FS_RemoveElement DEF Listed
    <3>3. Listed(m)' = Cardinality(Lists(m) \ {s}) /\ Listed(m) \in Nat
      BY <3>1, ListsFinite DEF Listed
    <3>. QED  BY <3>2, <3>3
  <2>5. \A n \in Mail : /\ n # m \/ job[m] # "failed" => Granted(n)' = Granted(n)
                        /\ {Granted(n), Granted(n)'} \subseteq {0, 1}
    BY <1>5 DEF RetryJob, MailTypeOK
  <2>6. \A n \in Mail : attempts[n] \in Nat /\ sweeps \in Nat
    BY DEF MailTypeOK
  <2>7. job[m] = "failed" => Granted(m) = 0
    OBVIOUS
  <2>8. \A t \in Sweep : t > sweeps' => sweep'[t] = {}
    BY <2>1, <2>2 DEF AttemptsInv
  <2>. HIDE DEF Granted
  <2>9. ASSUME NEW n \in Mail
        PROVE  attempts[n] + Granted(n)' + Listed(n)' <= MaxAttempts + sweeps
    BY <1>0, <2>3, <2>4, <2>5, <2>6, <2>7, <2>9 DEF AttemptsInv
  <2>. QED  BY <2>1, <2>8, <2>9 DEF AttemptsInv
<1>6. CASE UNCHANGED mailVars
  BY <1>6, <1>a DEF mailVars, AttemptsInv
<1>. QED  BY <1>1, <1>2, <1>3, <1>4, <1>5, <1>6 DEF MailNext, WorkerStep

(* A removed job does not come back, and arrives no more *)
LEMMA RemovedStays ==
    ASSUME MailTypeOK, AttemptsInv, [MailNext]_mailVars, NEW m \in Mail, job'[m] = "removed"
    PROVE  copies'[m] = copies[m]
BY DEF MailNext, WorkerStep, Enqueue, Take, Deliver, SendFails, Finish, BackOff, Clean, Move,
   RetryFailedJobs, RetryJob, WorkerDies, mailVars, MailTypeOK

LEMMA MailBounded ==
    /\ MailInit => MailInv
    /\ MailInv /\ [MailNext]_mailVars => MailInv'
<1>1. MailInit => MailInv
  <2>1. ASSUME MailInit, NEW m \in Mail  PROVE Listed(m) = 0
    <3>1. Lists(m) = {}
      BY <2>1 DEF MailInit, Lists
    <3>. QED  BY <3>1, FS_EmptySet DEF Listed
  <2>2. MailInit => AttemptsInv /\ CopiesBounded
    BY <2>1, MailAssumption DEF MailInit, AttemptsInv, CopiesBounded, Granted
  <2>. QED  BY <2>2, MailInductive DEF MailInv
<1>2. ASSUME MailInv, [MailNext]_mailVars
      PROVE  MailInv'
  <2>1. MailTypeOK' /\ CopiesExplained' /\ AttemptsInv'
    BY <1>2, MailInductive, AttemptsStep DEF MailInv
  <2>2. sweeps' >= sweeps /\ deaths' >= deaths
    BY <1>2 DEF MailInv, MailTypeOK, MailNext, WorkerStep, Enqueue, Take, Deliver, SendFails,
       Finish, BackOff, Clean, Move, RetryFailedJobs, RetryJob, WorkerDies, mailVars
  <2>3. \A m \in Mail : job'[m] # "removed" => copies'[m] <= MaxAttempts + sweeps' + deaths'
    <3>1. (MailTypeOK /\ CopiesExplained /\ AttemptsInv)'
            => (\A m \in Mail : job[m] # "removed" => copies[m] <= MaxAttempts + sweeps + deaths)'
      BY WithinBound, PTL
    <3>. QED  BY <2>1, <3>1
  <2>4. ASSUME NEW m \in Mail
        PROVE  copies'[m] <= MaxAttempts + sweeps' + deaths'
    <3>1. CASE job'[m] = "removed"
      <4>1. copies[m] <= MaxAttempts + sweeps + deaths /\ copies'[m] = copies[m]
        BY <1>2, <3>1, RemovedStays DEF MailInv, CopiesBounded
      <4>2. /\ copies[m] \in Nat /\ MaxAttempts \in Nat
            /\ {sweeps, sweeps', deaths, deaths'} \subseteq Nat
        BY <1>2, <2>1, MailAssumption DEF MailInv, MailTypeOK
      <4>. QED  BY <2>2, <4>1, <4>2
    <3>2. CASE job'[m] # "removed"
      BY <2>3, <3>2
    <3>. QED  BY <3>1, <3>2
  <2>. QED  BY <2>1, <2>4 DEF MailInv, CopiesBounded
<1>. QED  BY <1>1, <1>2

(* For any limits a mail arrives at most once per attempt it is granted, plus
   once per death of the worker. *)
THEOREM MailCopiesBounded == MailSpec => []CopiesBounded
<1>1. MailInv => CopiesBounded
  BY DEF MailInv
<1>. QED  BY <1>1, MailBounded, PTL DEF MailSpec

(* How far a job is from its end at most: five steps for every attempt it has
   left, counted with the states it goes through *)
Left(m) == IF attempts[m] < MaxAttempts THEN MaxAttempts - attempts[m] ELSE 0

Stage(state) ==
    CASE state = "none" -> 6
      [] state = "delayed" -> 5
      [] state = "waiting" -> 4
      [] state = "active" -> 3
      [] state = "delivered" -> 2
      [] state \in {"completed", "failed"} -> 1
      [] state = "removed" -> 0

Distance(m) == 6 * Left(m) + Stage(job[m])

LEMMA JobMoves ==
    ASSUME MailTypeOK, NEW m \in Mail,
           \/ Enqueue(m) \/ Take(m) \/ Deliver(m) \/ SendFails(m)
           \/ Finish(m) \/ BackOff(m) \/ Clean(m)
    PROVE  /\ Distance(m)' < Distance(m)
           /\ \A n \in Mail \ {m} : UNCHANGED <<job[n], attempts[n]>>
<1>1. Left(m) \in Nat /\ Left(m)' \in Nat
  <2>1. attempts[m] \in Nat /\ attempts'[m] \in Nat /\ MaxAttempts \in Nat
    BY MailAssumption DEF MailTypeOK, Enqueue, Take, Deliver, SendFails, Finish, BackOff, Clean
  <2>. QED  BY <2>1 DEF Left
<1>2. CASE SendFails(m)
  <2>1. /\ job[m] = "active"
        /\ attempts'[m] = attempts[m] + 1
        /\ job'[m] = IF attempts[m] + 1 < MaxAttempts THEN "delayed" ELSE "failed"
        /\ attempts[m] \in Nat /\ MaxAttempts \in Nat
    BY <1>2, MailAssumption DEF SendFails, MailTypeOK
  <2>2. \A n \in Mail \ {m} : UNCHANGED <<job[n], attempts[n]>>
    BY <1>2 DEF SendFails, MailTypeOK
  <2>3. CASE attempts[m] + 1 < MaxAttempts
    <3>1. Left(m)' = Left(m) - 1
      BY <2>1, <2>3 DEF Left
    <3>2. Stage(job[m]) = 3 /\ Stage(job'[m]) = 5
      BY <2>1, <2>3 DEF Stage
    <3>. QED  BY <1>1, <2>2, <3>1, <3>2 DEF Distance
  <2>4. CASE ~ (attempts[m] + 1 < MaxAttempts)
    <3>1. Left(m)' <= Left(m)
      BY <2>1, <2>4 DEF Left
    <3>2. Stage(job[m]) = 3 /\ Stage(job'[m]) = 1
      BY <2>1, <2>4 DEF Stage
    <3>. QED  BY <1>1, <2>2, <3>1, <3>2 DEF Distance
  <2>. QED  BY <2>3, <2>4
<1>3. CASE Enqueue(m) \/ Take(m) \/ Deliver(m) \/ Finish(m) \/ BackOff(m) \/ Clean(m)
  <2>1. Left(m)' = Left(m)
    BY <1>3 DEF Left, Enqueue, Take, Deliver, Finish, BackOff, Clean
  <2>2. \/ job[m] = "none" /\ job'[m] = "waiting"
        \/ job[m] = "waiting" /\ job'[m] = "active"
        \/ job[m] = "active" /\ job'[m] = "delivered"
        \/ job[m] = "delivered" /\ job'[m] = "completed"
        \/ job[m] = "delayed" /\ job'[m] = "waiting"
        \/ job[m] \in {"completed", "failed"} /\ job'[m] = "removed"
    BY <1>3 DEF Enqueue, Take, Deliver, Finish, BackOff, Clean, Move, MailTypeOK
  <2>3. Stage(job[m])' < Stage(job[m]) /\ Stage(job[m]) \in Nat /\ Stage(job[m])' \in Nat
    BY <2>2 DEF Stage
  <2>4. \A n \in Mail \ {m} : UNCHANGED <<job[n], attempts[n]>>
    BY <1>3 DEF Enqueue, Take, Deliver, Finish, BackOff, Clean, Move, MailTypeOK
  <2>. QED  BY <1>1, <2>1, <2>3, <2>4 DEF Distance
<1>. QED  BY <1>2, <1>3

(* No mail is tried for ever: with every step a job comes nearer to its end,
   its failures included, and nothing but the death of the worker and
   retryFailedJobs, both bounded, takes one further away. *)
THEOREM MailsMoveOn ==
    MailSpec => [][\A m \in Mail :
                     \/ Distance(m)' < Distance(m)
                     \/ UNCHANGED <<job[m], attempts[m]>>
                     \/ deaths' = deaths + 1
                     \/ \E s \in Sweep : m \in sweep[s] /\ m \notin sweep'[s]]_mailVars
<1>. DEFINE A == \A m \in Mail :
                   \/ Distance(m)' < Distance(m)
                   \/ UNCHANGED <<job[m], attempts[m]>>
                   \/ deaths' = deaths + 1
                   \/ \E s \in Sweep : m \in sweep[s] /\ m \notin sweep'[s]
<1>1. ASSUME MailTypeOK, MailNext
      PROVE  A
  <2>1. ASSUME NEW m \in Mail,
               \/ Enqueue(m) \/ Take(m) \/ Deliver(m) \/ SendFails(m)
               \/ Finish(m) \/ BackOff(m) \/ Clean(m)
        PROVE  A
    BY <1>1, <2>1, JobMoves
  <2>2. CASE WorkerDies
    BY <2>2 DEF WorkerDies
  <2>3. CASE RetryFailedJobs
    BY <2>3 DEF RetryFailedJobs
  <2>4. ASSUME NEW s \in Sweep, NEW m \in Mail, RetryJob(s, m)
        PROVE  A
    BY <1>1, <2>4 DEF RetryJob, MailTypeOK
  <2>. QED  BY <1>1, <2>1, <2>2, <2>3, <2>4 DEF MailNext, WorkerStep
<1>2. MailTypeOK /\ [MailNext]_mailVars => [A]_mailVars
  BY <1>1
<1>. QED  BY <1>2, MailInductive, PTL DEF MailSpec

-----------------------------------------------------------------------------
(* All parts together *)
LEMMA PaymentTyped ==
    /\ PaymentInit => PaymentTypeOK
    /\ PaymentInv /\ PaymentTypeOK /\ [PaymentNext]_paymentVars => PaymentTypeOK'
<1>. USE DEF PaymentTypeOK
<1>1. PaymentInit => PaymentTypeOK
  <2>1. "INITIATED" \in PaymentStatus
    BY DEF PaymentStatus
  <2>2. PaymentInit =>
          payment \in [status : PaymentStatus, payload : Notification \cup {"none"}]
    BY <2>1 DEF PaymentInit
  <2>3. PaymentInit => raised \in [PaymentStatus -> Nat]
    BY DEF PaymentInit
  <2>. QED  BY <2>2, <2>3, Zenon DEF PaymentInit
<1>2. ASSUME PaymentTypeOK, NEW status \in PaymentStatus,
             NEW payload \in Notification \cup {"none"}, Mark(status, payload)
      PROVE  /\ payment' \in [status : PaymentStatus, payload : Notification \cup {"none"}]
             /\ raised' \in [PaymentStatus -> Nat]
  BY <1>2 DEF Mark
<1>3. ASSUME PaymentTypeOK, NEW status \in PaymentStatus, MarkByShop(status)
      PROVE  PaymentTypeOK'
  BY <1>2, <1>3 DEF MarkByShop
<1>4. ASSUME PaymentTypeOK, NEW n \in Notification, ProcessWebhook(n)
      PROVE  PaymentTypeOK'
  <2>1. payment.status \in PaymentStatus
    BY <1>4
  <2>2. UNCHANGED <<provider, byShop>> /\ sent' \subseteq Notification
    BY <1>4 DEF ProcessWebhook
  <2>3. CASE Accepts(MapProviderStatus(n))
    <3>1. Mark(MapProviderStatus(n), n) /\ MapProviderStatus(n) \in PaymentStatus
      BY <1>4, <2>1, <2>3, AcceptedIsMapped DEF ProcessWebhook
    <3>. QED  BY <1>2, <1>4, <2>2, <3>1
  <2>4. CASE ~ Accepts(MapProviderStatus(n))
    BY <1>4, <2>2, <2>4 DEF ProcessWebhook
  <2>. QED  BY <2>3, <2>4
<1>5. ASSUME PaymentTypeOK, ProviderMoves
      PROVE  PaymentTypeOK'
  BY <1>5 DEF ProviderMoves
<1>6. ASSUME PaymentTypeOK, UNCHANGED paymentVars
      PROVE  PaymentTypeOK'
  BY <1>6 DEF paymentVars
<1>. QED  BY <1>1, <1>3, <1>4, <1>5, <1>6 DEF PaymentNext

LEMMA DiscountTyped ==
    /\ DiscountInit => DiscountTypeOK
    /\ DiscountTypeOK /\ [DiscountNext]_discountVars => DiscountTypeOK'
<1>. USE DiscountAssumption DEF DiscountTypeOK, DiscountStatus
<1>1. DiscountInit => DiscountTypeOK
  BY DEF DiscountInit
<1>2. ASSUME DiscountTypeOK, DiscountNext
      PROVE  DiscountTypeOK'
  <2>1. CASE Activate \/ Deactivate \/ MarkAsExpired
    BY <1>2, <2>1 DEF Activate, Deactivate, MarkAsExpired, ChangeDiscountStatus
  <2>2. CASE ApplyToOrder \/ ReverseUsage
    BY <1>2, <2>2 DEF ApplyToOrder, ReverseUsage
  <2>3. CASE \E p \in Period, n \in Limit \cup {Unlimited} : UpdateInfo(p, n)
    BY <1>2, <2>3 DEF UpdateInfo
  <2>4. CASE Tick
    BY <1>2, <2>4 DEF Tick
  <2>. QED  BY <1>2, <2>1, <2>2, <2>3, <2>4 DEF DiscountNext
<1>3. ASSUME DiscountTypeOK, UNCHANGED discountVars
      PROVE  DiscountTypeOK'
  BY <1>3 DEF discountVars
<1>. QED  BY <1>1, <1>2, <1>3

LEMMA IdlePartsSound ==
    /\ IdleInventory => InventoryInv
    /\ IdleOrder => OrderInv
    /\ IdleDiscount => DiscountInv /\ DiscountTypeOK
    /\ IdleProduct => ProductInv
    /\ IdleUser => UserInit
<1>1. IdleInventory => InventoryInv
  BY DEF IdleInventory, InventoryInv, InventoryTypeOK, NoOverselling, LedgerAgrees,
     EmptyShelfAnnounced, GetAvailableStock
<1>2. IdleOrder => OrderInv
  BY DEF IdleOrder, OrderInv, OrderTypeOK, OrderStatus, AnnouncedOnce, TotalFits
<1>3. <<0, LastDay>> \in Period
  BY DiscountAssumption, CommerceAssumption DEF Period
<1>4. IdleDiscount => DiscountInv /\ DiscountTypeOK
  BY <1>3, DiscountAssumption DEF IdleDiscount, DiscountInv, DiscountTypeOK, DiscountStatus
<1>5. IdleProduct => ProductInv
  <2>1. (CHOOSE i \in ProductInfo : TRUE) \in ProductInfo
    BY CommerceAssumption
  <2>. DEFINE i == CHOOSE i \in ProductInfo : TRUE
  <2>2. i \in ProductInfo /\ (IdleProduct => article = CreateProduct(i))
    BY <2>1 DEF IdleProduct
  <2>3. IdleProduct => article.status = "ACTIVE"
    BY <2>2 DEF CreateProduct
  <2>. HIDE DEF i
  <2>4. IdleProduct => ProductInit
    BY <2>2, <2>3 DEF IdleProduct, ProductInit
  <2>. QED  BY <2>4, ProductInductive
<1>6. IdleUser => UserInit
  BY DEF IdleUser, UserInit
<1>. QED  BY <1>1, <1>2, <1>4, <1>5, <1>6

CommerceInv ==
    /\ focus \in Part
    /\ InventoryInv
    /\ OrderInv
    /\ PaymentInv /\ HeardInv /\ PaymentTypeOK
    /\ DiscountInv /\ DiscountTypeOK
    /\ CartInv
    /\ ProductInv
    /\ UserInv
    /\ MailInv

(* A step of the composition is a step or a stutter of each part *)
LEMMA StepOfEachPart ==
    ASSUME [Next]_commerceVars
    PROVE  /\ focus' = focus
           /\ [InventoryNext]_inventoryVars
           /\ [OrderNext]_orderVars
           /\ [PaymentNext]_paymentVars
           /\ [DiscountNext]_discountVars
           /\ [CartNext]_cartVars
           /\ [ProductNext]_articleVars
           /\ [UserNext]_member
           /\ [MailNext]_mailVars
<1>1. CASE Next
  BY <1>1 DEF Next, inventoryVars, orderVars, paymentVars, discountVars, cartVars,
     articleVars, mailVars
<1>2. CASE UNCHANGED commerceVars
  BY <1>2 DEF commerceVars
<1>. QED  BY <1>1, <1>2

LEMMA CommerceInductive ==
    /\ CommerceInit => CommerceInv
    /\ CommerceInv /\ [Next]_commerceVars => CommerceInv'
<1>1. CommerceInit => CommerceInv
  BY InventoryInductive, OrderInductive, PaymentInductive, PaymentTyped, DiscountInductive,
     DiscountTyped, CartInductive, ProductInductive, UserInductive, MailBounded,
     IdlePartsSound
     DEF CommerceInit, CommerceInv
<1>2. ASSUME CommerceInv, [Next]_commerceVars
      PROVE  CommerceInv'
  BY <1>2, StepOfEachPart, InventoryInductive, OrderInductive, PaymentInductive, PaymentTyped,
     DiscountInductive, DiscountTyped, CartInductive, ProductInductive, UserInductive,
     MailBounded
     DEF CommerceInv
<1>. QED  BY <1>1, <1>2

(* Whatever part is exercised, every part keeps its type. *)
THEOREM CommerceTyped == CommerceSpec => []CommerceTypeOK
<1>1. CommerceInv => CommerceTypeOK
  BY DEF CommerceInv, CommerceTypeOK, InventoryInv, OrderInv, CartInv, ProductInv, UserInv,
     MailInv
<1>. QED  BY <1>1, CommerceInductive, PTL DEF CommerceSpec

(* Beside the others and as one of them, every part keeps its invariants:
   stock and reservations, totals and events of orders, endings of payments,
   lines of carts, statuses of products and users, copies of mails. *)
THEOREM CommerceSafe ==
    CommerceSpec => [](/\ NoOverselling /\ LedgerAgrees /\ EmptyShelfAnnounced
                       /\ AnnouncedOnce /\ TotalFits
                       /\ RaisedOnce /\ OneEnding /\ NeverAhead
                       /\ OneLinePerProduct
                       /\ EventsTellStatus
                       /\ OnlyDefaultsLockOut
                       /\ CopiesExplained /\ CopiesBounded)
<1>. DEFINE Safe == /\ NoOverselling /\ LedgerAgrees /\ EmptyShelfAnnounced
                    /\ AnnouncedOnce /\ TotalFits
                    /\ RaisedOnce /\ OneEnding /\ NeverAhead
                    /\ OneLinePerProduct
                    /\ EventsTellStatus
                    /\ OnlyDefaultsLockOut
                    /\ CopiesExplained /\ CopiesBounded
<1>1. CommerceInv => Safe
  BY PaymentTells, UserLoads
     DEF CommerceInv, InventoryInv, OrderInv, HeardInv, CartInv, ProductInv, MailInv
<1>. QED  BY <1>1, CommerceInductive, PTL DEF CommerceSpec

(* And whatever part is exercised, what is closed, expired, discontinued or
   set aside stays as it is. *)
THEOREM CommerceFrozen ==
    CommerceSpec => /\ TerminalOrderFrozen /\ UsedOnItsTerms
                    /\ TerminalProductFrozen /\ SetAsideUserFrozen
<1>1. CommerceInv /\ [Next]_commerceVars => [~ IsTerminalOrder(order)]_order
  BY StepOfEachPart, TerminalOrderStep DEF CommerceInv
<1>2. CommerceInv /\ [Next]_commerceVars => [OnTerms]_discountVars
  BY StepOfEachPart, OnTermsStep DEF CommerceInv
<1>3. CommerceInv /\ CommerceInv' /\ [Next]_commerceVars => [FrozenProduct]_articleVars
  BY StepOfEachPart, FrozenProductStep DEF CommerceInv
<1>4. CommerceInv /\ [Next]_commerceVars => [FrozenUser]_member
  BY StepOfEachPart, FrozenUserStep DEF CommerceInv
<1>. QED
  BY <1>1, <1>2, <1>3, <1>4, CommerceInductive, PTL
     DEF CommerceSpec, TerminalOrderFrozen, UsedOnItsTerms, OnTerms, TerminalProductFrozen,
         FrozenProduct, SetAsideUserFrozen, FrozenUser
=============================================================================
