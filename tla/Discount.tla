------------------------------ MODULE Discount ------------------------------
(***************************************************************************)
(* The Discount aggregate, a voucher with a period and a usage limit, and  *)
(* calculateDiscount.  The clock moves by itself, so a command may find    *)
(* that the period has ended while the status still says ACTIVE.  A        *)
(* minimum purchase only refuses more orders and is left out.              *)
(***************************************************************************)
EXTENDS Integers

CONSTANTS
    Limit,      \* usage limits an administrator sets
    Unlimited,  \* usageLimit null
    MaxUses,    \* bound: a voucher is used no more often than this
    LastDay     \* bound: periods and the clock end here

ASSUME DiscountAssumption ==
    /\ Limit \subseteq Nat
    /\ Unlimited \notin Nat
    /\ MaxUses \in Nat
    /\ LastDay \in Nat

VARIABLES discount, today

discountVars == <<discount, today>>

DiscountStatus == {"ACTIVE", "INACTIVE", "EXPIRED"}

Period == {p \in (0 .. LastDay) \X (0 .. LastDay) : p[1] < p[2]}

DiscountTypeOK ==
    /\ discount \in [status : DiscountStatus, period : Period,
                     limit : Limit \cup {Unlimited}, used : Nat]
    /\ today \in 0 .. LastDay

(* DiscountStatus.VALID_TRANSITIONS: what is inactive cannot expire *)
DiscountTransitions ==
    [s \in DiscountStatus |->
        CASE s = "ACTIVE" -> {"INACTIVE", "EXPIRED"}
          [] s = "INACTIVE" -> {"ACTIVE"}
          [] s = "EXPIRED" -> {}]

DiscountInit ==
    /\ \E p \in Period, n \in Limit \cup {Unlimited} :
         discount = [status |-> "ACTIVE", period |-> p, limit |-> n, used |-> 0]
    /\ today \in 0 .. LastDay

ChangeDiscountStatus(status) ==
    /\ status \in DiscountTransitions[discount.status]
    /\ discount' = [discount EXCEPT !.status = status]
    /\ UNCHANGED today

Activate == ChangeDiscountStatus("ACTIVE")

Deactivate == ChangeDiscountStatus("INACTIVE")

MarkAsExpired == ChangeDiscountStatus("EXPIRED")

IsCurrentlyValid == today \in discount.period[1] .. discount.period[2]

IsUsageLimitReached == discount.limit # Unlimited /\ discount.used >= discount.limit

(* Mutant of ApplyToOrder: an active voucher is taken to be in its period *)
ApplyActive ==
    /\ discount.status = "ACTIVE"
    /\ ~ IsUsageLimitReached
    /\ discount.used < MaxUses
    /\ discount' = [discount EXCEPT !.used = @ + 1]
    /\ UNCHANGED today

ApplyToOrder ==
    /\ discount.status = "ACTIVE"
    /\ IsCurrentlyValid
    /\ ~ IsUsageLimitReached
    /\ discount.used < MaxUses
    /\ discount' = [discount EXCEPT !.used = @ + 1]
    /\ UNCHANGED today

ReverseUsage ==
    /\ discount.used > 0
    /\ discount' = [discount EXCEPT !.used = @ - 1]
    /\ UNCHANGED today

(* updateInfo looks at the status only: a limit may fall below what is used *)
UpdateInfo(p, n) ==
    /\ discount.status # "EXPIRED"
    /\ discount' = [discount EXCEPT !.period = p, !.limit = n]
    /\ UNCHANGED today

Tick ==
    /\ today < LastDay
    /\ today' = today + 1
    /\ UNCHANGED discount

DiscountNext ==
    \/ Activate
    \/ Deactivate
    \/ MarkAsExpired
    \/ ApplyToOrder
    \/ ReverseUsage
    \/ \E p \in Period, n \in Limit \cup {Unlimited} : UpdateInfo(p, n)
    \/ Tick

DiscountSpec == DiscountInit /\ [][DiscountNext]_discountVars

-----------------------------------------------------------------------------
(* calculateDiscount in hundredths, of the currency and of a percent: amounts,
   values and caps are rounded to two decimals, so all are whole, and it makes
   no difference whether the cap is applied before the last rounding or after
   it; Math.round rounds a half up. *)

Least(a, b) == IF a <= b THEN a ELSE b

PercentOf(amount, percent) == (2 * amount * percent + 10000) \div 20000

(* worth is [type, value, cap], cap 0 for no maxDiscount *)
CalculateDiscount(worth, amount) ==
    LET share ==
          IF worth.type = "FIXED_AMOUNT" THEN worth.value
          ELSE IF worth.cap = 0 THEN PercentOf(amount, worth.value)
          ELSE Least(PercentOf(amount, worth.value), worth.cap)
    IN  Least(share, amount)

-----------------------------------------------------------------------------
(* A voucher is used on the terms in force, whatever happened to it before:
   within a limit that may since have been lowered below the usage, within a
   period that may since have been moved, with a status that may be behind the
   clock; and once expired it is good for nothing but giving a use back. *)
UsedOnItsTerms ==
    [][/\ discount'.used > discount.used
          => /\ today >= discount.period[1] /\ today <= discount.period[2]
             /\ discount.limit # Unlimited => discount'.used <= discount.limit
       /\ discount.status = "EXPIRED"
          => /\ discount'.used <= discount.used
             /\ discount' = [discount EXCEPT !.used = discount'.used]]_discountVars
=============================================================================
