------------------------------ MODULE Product ------------------------------
(***************************************************************************)
(* The Product aggregate of src/modules/products/domain: its status, its   *)
(* deletedAt, and what its commands are guarded by.  Name, price, image    *)
(* and attributes are one value, info; a command that changes any of them  *)
(* changes info.                                                           *)
(***************************************************************************)

CONSTANT ProductInfo   \* the descriptions and prices a product may have

ProductStatus == {"ACTIVE", "INACTIVE", "OUT_OF_STOCK", "DISCONTINUED", "DELETED"}

ProductRecord ==
    [status : ProductStatus, deletedAt : BOOLEAN, info : ProductInfo]

CreateProduct(i) == [status |-> "ACTIVE", deletedAt |-> FALSE, info |-> i]

(* Mutant of Transitions: what is discontinued can be taken back *)
LooseTransitions(s) ==
    IF s = "DELETED" THEN {} ELSE ProductStatus

(* ProductStatus.canTransitionTo, but for staying where one is *)
Transitions(s) ==
    CASE s = "ACTIVE" -> ProductStatus \ {"ACTIVE"}
      [] s \in {"INACTIVE", "OUT_OF_STOCK"} -> {"ACTIVE", "DISCONTINUED"}
      [] OTHER -> {}

(* changeStatus throws when the status may not change this way *)
CanChangeStatus(p, s) == s = p.status \/ s \in Transitions(p.status)

(* ensureCanBeModified *)
CanModify(p) == p.status \notin {"DISCONTINUED", "DELETED"}

(* Product.delete *)
CanDelete(p) == p.status # "DELETED" /\ CanChangeStatus(p, "DELETED")

(* updateInfo, updatePrice, updateImage: i is p.info when nothing differs *)
SetInfo(p, i) == [p EXCEPT !.info = i]

SetStatus(p, s) == [p EXCEPT !.status = s]

DeleteProduct(p) == [p EXCEPT !.status = "DELETED", !.deletedAt = TRUE]
=============================================================================
