-------------------------- MODULE ProductLifecycle --------------------------
(***************************************************************************)
(* The Product aggregate under all of its commands, the changes of status  *)
(* that no use case makes yet among them.  told is what a subscriber of    *)
(* its domain events knows without ever reading the product: the status,   *)
(* whether every previousStatus was the one before, and whether the        *)
(* product is waited for since ProductOutOfStock.                          *)
(***************************************************************************)
EXTENDS Product

VARIABLES article, told

articleVars == <<article, told>>

ProductLifecycleTypeOK ==
    /\ article \in ProductRecord
    /\ told \in [status : ProductStatus, chained : BOOLEAN, awaited : BOOLEAN]

(* ProductCreated *)
ProductInit ==
    /\ \E i \in ProductInfo : article = CreateProduct(i)
    /\ told = [status |-> article.status, chained |-> TRUE, awaited |-> FALSE]

(* The event of a change of status, with ProductBackInStock after that of an
   activation from OUT_OF_STOCK *)
Tell(previous, new) ==
    told' = [status |-> new,
             chained |-> told.chained /\ previous = told.status,
             awaited |-> \/ new = "OUT_OF_STOCK"
                         \/ told.awaited /\ ~ (previous = "OUT_OF_STOCK" /\ new = "ACTIVE")]

(* The four commands that are ignored where the product is there already *)
MoveTo(new) ==
    /\ article.status # new
    /\ CanChangeStatus(article, new)
    /\ article' = SetStatus(article, new)

(* Mutant of ActivateProduct: previousStatus is read after the change *)
ActivateThenRead ==
    /\ MoveTo("ACTIVE")
    /\ Tell(article'.status, "ACTIVE")

ActivateProduct ==
    /\ MoveTo("ACTIVE")
    /\ Tell(article.status, "ACTIVE")

DeactivateProduct ==
    /\ MoveTo("INACTIVE")
    /\ Tell(article.status, "INACTIVE")

MarkAsOutOfStock ==
    /\ MoveTo("OUT_OF_STOCK")
    /\ Tell(article.status, "OUT_OF_STOCK")

DiscontinueProduct ==
    /\ MoveTo("DISCONTINUED")
    /\ Tell(article.status, "DISCONTINUED")

(* ProductDeleted carries no previous status *)
Withdraw ==
    /\ CanDelete(article)
    /\ article' = DeleteProduct(article)
    /\ told' = [told EXCEPT !.status = "DELETED"]

(* updateInfo, updatePrice and updateImage *)
Describe ==
    /\ CanModify(article)
    /\ \E i \in ProductInfo \ {article.info} : article' = SetInfo(article, i)
    /\ UNCHANGED told

ProductNext ==
    \/ ActivateProduct
    \/ DeactivateProduct
    \/ MarkAsOutOfStock
    \/ DiscontinueProduct
    \/ Withdraw
    \/ Describe

ProductSpec == ProductInit /\ [][ProductNext]_articleVars

-----------------------------------------------------------------------------
(* The events tell the story of the product: added up they give its status,
   no previousStatus contradicts the event before, and whoever was told that
   it is out of stock is told of its return, unless it is discontinued. *)
EventsTellStatus ==
    /\ told.status = article.status /\ told.chained
    /\ article.status = "OUT_OF_STOCK" => told.awaited
    /\ told.awaited => article.status \in {"OUT_OF_STOCK", "DISCONTINUED"}

(* Whatever is called on it, a discontinued or deleted product stays as it
   is, and no other has a deletedAt, which would free its SKU. *)
TerminalProductFrozen ==
    [][/\ article.status \in {"DISCONTINUED", "DELETED"} => article' = article
       /\ article'.deletedAt <=> article'.status = "DELETED"]_articleVars
=============================================================================
