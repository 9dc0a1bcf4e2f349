------------------------------ MODULE Commerce ------------------------------
(***************************************************************************)
(* The aggregates, most of which no use case calls yet, and the mail queue *)
(* side by side.  Nothing in the code makes them interact, so a behaviour  *)
(* exercises one of them, the focus, and leaves the others as they were    *)
(* created.                                                                *)
(***************************************************************************)
EXTENDS Inventory, Order, Payment, Discount, Cart, ProductLifecycle,
        UserLifecycle, MailQueue

ASSUME CommerceAssumption == LastDay > 0 /\ ProductInfo # {}

VARIABLE focus

commerceVars ==
    <<focus, inventoryVars, orderVars, paymentVars, discountVars, cartVars,
      articleVars, member, mailVars>>

Part == {"inventory", "order", "payment", "discount", "cart", "product", "user", "mail"}

CommerceTypeOK ==
    /\ focus \in Part
    /\ InventoryTypeOK
    /\ OrderTypeOK
    /\ PaymentTypeOK
    /\ DiscountTypeOK
    /\ CartTypeOK
    /\ ProductLifecycleTypeOK
    /\ UserTypeOK
    /\ MailTypeOK

(* An aggregate that is not the focus stands as one fixed new instance *)
IdleInventory ==
    /\ stock = 0 /\ reserved = 0
    /\ ledger = [stock |-> 0, chained |-> TRUE, depleted |-> TRUE]

IdleOrder ==
    /\ order = [status |-> "PENDING_PAYMENT", gross |-> 0, discount |-> 0, total |-> 0]
    /\ announced = [paid |-> 0, completed |-> 0, cancelledFrom |-> {}]

IdleDiscount ==
    /\ discount = [status |-> "ACTIVE", period |-> <<0, LastDay>>,
                   limit |-> Unlimited, used |-> 0]
    /\ today = 0

IdleProduct ==
    /\ article = CreateProduct(CHOOSE i \in ProductInfo : TRUE)
    /\ told = [status |-> "ACTIVE", chained |-> TRUE, awaited |-> FALSE]

IdleUser ==
    member = [status |-> "inactive", deletedAt |-> FALSE,
              phoneNumber |-> NoPhone, phoneVerified |-> FALSE,
              addresses |-> [kind \in AddressKind |-> 0]]

CommerceInit ==
    /\ focus \in Part
    /\ IF focus = "inventory" THEN InventoryInit ELSE IdleInventory
    /\ IF focus = "order" THEN OrderInit ELSE IdleOrder
    /\ IF focus = "discount" THEN DiscountInit ELSE IdleDiscount
    /\ IF focus = "product" THEN ProductInit ELSE IdleProduct
    /\ IF focus = "user" THEN UserInit ELSE IdleUser
    /\ PaymentInit
    /\ CartInit
    /\ MailInit

Next ==
    /\ UNCHANGED focus
    /\ \/ /\ focus = "inventory" /\ InventoryNext
          /\ UNCHANGED <<orderVars, paymentVars, discountVars, cartVars,
                        articleVars, member, mailVars>>
       \/ /\ focus = "order" /\ OrderNext
          /\ UNCHANGED <<inventoryVars, paymentVars, discountVars, cartVars,
                        articleVars, member, mailVars>>
       \/ /\ focus = "payment" /\ PaymentNext
          /\ UNCHANGED <<inventoryVars, orderVars, discountVars, cartVars,
                        articleVars, member, mailVars>>
       \/ /\ focus = "discount" /\ DiscountNext
          /\ UNCHANGED <<inventoryVars, orderVars, paymentVars, cartVars,
                        articleVars, member, mailVars>>
       \/ /\ focus = "cart" /\ CartNext
          /\ UNCHANGED <<inventoryVars, orderVars, paymentVars, discountVars,
                        articleVars, member, mailVars>>
       \/ /\ focus = "product" /\ ProductNext
          /\ UNCHANGED <<inventoryVars, orderVars, paymentVars, discountVars,
                        cartVars, member, mailVars>>
       \/ /\ focus = "user" /\ UserNext
          /\ UNCHANGED <<inventoryVars, orderVars, paymentVars, discountVars,
                        cartVars, articleVars, mailVars>>
       \/ /\ focus = "mail" /\ MailNext
          /\ UNCHANGED <<inventoryVars, orderVars, paymentVars, discountVars,
                        cartVars, articleVars, member>>

CommerceSpec == CommerceInit /\ [][Next]_commerceVars

(* The provider is bound to deliver again, and BullMQ to go on with a job *)
FairCommerceSpec ==
    /\ CommerceSpec
    /\ \A n \in Notification :
         WF_commerceVars(/\ focus = "payment" /\ ProcessWebhook(n)
                         /\ UNCHANGED <<focus, inventoryVars, orderVars, discountVars,
                                        cartVars, articleVars, member, mailVars>>)
    /\ WF_commerceVars(/\ focus = "mail" /\ WorkerStep
                       /\ UNCHANGED <<focus, inventoryVars, orderVars, paymentVars,
                                      discountVars, cartVars, articleVars, member>>)
=============================================================================
