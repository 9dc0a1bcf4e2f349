------------------------------- MODULE Payment -------------------------------
(***************************************************************************)
(* The Payment aggregate under the provider's notifications.  The provider *)
(* (Midtrans) moves its transaction on by itself and notifies every change *)
(* over HTTP: a notification arrives any time later, in any order, again   *)
(* when its answer is lost, and again when processWebhook threw.           *)
(***************************************************************************)
EXTENDS Naturals

VARIABLES
    payment,   \* the aggregate: status and the last raw payload it recorded
    raised,    \* how often the event of each status was raised
    provider,  \* the transaction's status at the provider
    sent,      \* notifications the provider delivers until they are accepted
    byShop     \* history: the statuses entered by a call of the shop's own

paymentVars == <<payment, raised, provider, sent, byShop>>

PaymentStatus == {"INITIATED", "PENDING", "SETTLEMENT", "CANCEL", "EXPIRE",
                  "DENY", "REFUND", "FAILED"}

(* Two of the provider's words stand for those the code has no mapping for *)
Notification == {"pending", "capture", "settlement", "cancel", "expire", "deny",
                 "refund", "partial_refund", "failure", "authorize", "chargeback"}

PaymentTypeOK ==
    /\ payment \in [status : PaymentStatus, payload : Notification \cup {"none"}]
    /\ raised \in [PaymentStatus -> Nat]
    /\ provider \in Notification \cup {"none"}
    /\ sent \subseteq Notification
    /\ byShop \subseteq PaymentStatus

(* Mutant of PaymentTransitions: a failed payment may be tried again *)
RetryTransitions ==
    [s \in PaymentStatus |->
        CASE s \in {"INITIATED", "FAILED"} -> {"PENDING", "FAILED"} \ {s}
          [] s = "PENDING" -> {"SETTLEMENT", "CANCEL", "EXPIRE", "DENY", "FAILED"}
          [] s = "SETTLEMENT" -> {"REFUND"}
          [] OTHER -> {}]

(* Mutant of PaymentTransitions: an expired payment is settled after all *)
LateTransitions ==
    [s \in PaymentStatus |->
        CASE s = "INITIATED" -> {"PENDING", "FAILED"}
          [] s \in {"PENDING", "EXPIRE"} ->
               {"SETTLEMENT", "CANCEL", "EXPIRE", "DENY", "FAILED"} \ {s}
          [] s = "SETTLEMENT" -> {"REFUND"}
          [] OTHER -> {}]

(* PaymentStatus.VALID_TRANSITIONS *)
PaymentTransitions ==
    [s \in PaymentStatus |->
        CASE s = "INITIATED" -> {"PENDING", "FAILED"}
          [] s = "PENDING" -> {"SETTLEMENT", "CANCEL", "EXPIRE", "DENY", "FAILED"}
          [] s = "SETTLEMENT" -> {"REFUND"}
          [] OTHER -> {}]

(* Mutant of MapProviderStatus: what is pending counts as paid *)
OptimisticStatus(n) ==
    CASE n \in {"pending", "capture", "settlement"} -> "SETTLEMENT"
      [] n = "cancel" -> "CANCEL"
      [] n = "expire" -> "EXPIRE"
      [] n = "deny" -> "DENY"
      [] n \in {"refund", "partial_refund"} -> "REFUND"
      [] n = "failure" -> "FAILED"
      [] OTHER -> "unmapped"

(* mapProviderStatus, which throws for a word it does not know *)
MapProviderStatus(n) ==
    CASE n = "pending" -> "PENDING"
      [] n \in {"capture", "settlement"} -> "SETTLEMENT"
      [] n = "cancel" -> "CANCEL"
      [] n = "expire" -> "EXPIRE"
      [] n = "deny" -> "DENY"
      [] n \in {"refund", "partial_refund"} -> "REFUND"
      [] n = "failure" -> "FAILED"
      [] OTHER -> "unmapped"

PaymentInit ==
    /\ payment = [status |-> "INITIATED", payload |-> "none"]
    /\ raised = [s \in PaymentStatus |-> 0]
    /\ provider = "none"
    /\ sent = {}
    /\ byShop = {}

-----------------------------------------------------------------------------
(* markAsPending ... markAsFailed: nothing happens in the status that is asked
   for; otherwise the transition is made and announced, or throws, as it does
   for every unmapped word. *)

Accepts(status) ==
    payment.status = status \/ status \in PaymentTransitions[payment.status]

Mark(status, payload) ==
    /\ payment' = [status |-> status, payload |-> payload]
    /\ raised' = IF payment.status = status THEN raised
                 ELSE [raised EXCEPT ![status] = @ + 1]

(* The seven marks are public: the shop may call any of them, without a payload
   and without a word from the provider. *)
MarkByShop(status) ==
    /\ status \in PaymentTransitions[payment.status]
    /\ Mark(status, payment.payload)
    /\ byShop' = byShop \cup {status}
    /\ UNCHANGED <<provider, sent>>

(* Mutant of ProcessWebhook: a refused notification is answered with 200 *)
SwallowRefusal(n) ==
    /\ n \in sent
    /\ IF Accepts(MapProviderStatus(n))
       THEN Mark(MapProviderStatus(n), n)
       ELSE payment' = [payment EXCEPT !.payload = n] /\ UNCHANGED raised
    /\ sent' \in {sent, sent \ {n}}
    /\ UNCHANGED <<provider, byShop>>

(* processWebhook records the payload before it looks at the status, and keeps
   it when the mapping or the transition throws; a notification that was accepted
   may be sent once more all the same. *)
ProcessWebhook(n) ==
    /\ n \in sent
    /\ IF Accepts(MapProviderStatus(n))
       THEN /\ Mark(MapProviderStatus(n), n)
            /\ sent' \in {sent, sent \ {n}}
       ELSE /\ payment' = [payment EXCEPT !.payload = n]
            /\ UNCHANGED <<raised, sent>>
    /\ UNCHANGED <<provider, byShop>>

(* The provider's transaction: a charge waits for its payer, or is captured,
   settled or ended at once; money it has taken may be given back later, by a
   refund or against the shop's will. *)
ProviderMoves ==
    LET unpaid == {"authorize", "capture", "settlement", "cancel", "expire", "deny", "failure"}
    IN  /\ \E n \in Notification :
             /\ CASE provider = "none" -> n \in unpaid \cup {"pending"}
                  [] provider = "pending" -> n \in unpaid
                  [] provider = "authorize" -> n \in unpaid \ {"authorize"}
                  [] provider = "capture" -> n = "settlement"
                  [] provider = "settlement" -> n \in {"refund", "partial_refund", "chargeback"}
                  [] provider = "partial_refund" -> n = "refund"
                  [] OTHER -> FALSE
             /\ provider' = n
             /\ sent' = sent \cup {n}
        /\ UNCHANGED <<payment, raised, byShop>>

PaymentNext ==
    \/ \E status \in PaymentStatus : MarkByShop(status)
    \/ \E n \in Notification : ProcessWebhook(n)
    \/ ProviderMoves

PaymentSpec == PaymentInit /\ [][PaymentNext]_paymentVars

-----------------------------------------------------------------------------
(* Duplicates and reorderings announce nothing twice: each status is entered,
   and its event raised, at most once in the life of a payment. *)
RaisedOnce == \A s \in PaymentStatus : raised[s] <= 1

(* At most one of the endings is ever announced, and a settlement that is
   announced is the payment's last word but for its refund: a late
   notification cannot turn it into a cancellation. *)
OneEnding ==
    LET ended(s) == raised[s] > 0
    IN  /\ \A s, t \in {"SETTLEMENT", "CANCEL", "EXPIRE", "DENY", "FAILED"} :
             ended(s) /\ ended(t) => s = t
        /\ ended("REFUND") => ended("SETTLEMENT")

(* A settlement or a refund is on the provider's word or on a call of the shop's
   own: no notification, repeated, late or unmapped, takes the payment there
   before the provider itself has taken or given back the money. *)
NeverAhead ==
    /\ raised["SETTLEMENT"] > 0 /\ "SETTLEMENT" \notin byShop =>
         provider \in {"capture", "settlement", "refund", "partial_refund", "chargeback"}
    /\ raised["REFUND"] > 0 /\ "REFUND" \notin byShop =>
         provider \in {"refund", "partial_refund"}

(* However the notifications are reordered, a provider that delivers a refused
   one again ends up with a payment in its own last status, but for three cases:
   the shop itself took the payment further than PENDING; the last word is one the
   code cannot map; and nothing ever made the payment pending, since a new payment
   refuses a capture, a settlement or an ending for good. *)
PaymentCatchesUp ==
    <>[](\/ provider = "none"
         \/ byShop \ {"PENDING"} # {}
         \/ MapProviderStatus(provider) = "unmapped"
         \/ payment.status = "INITIATED" /\ "pending" \notin sent
         \/ payment.status = MapProviderStatus(provider))
=============================================================================
