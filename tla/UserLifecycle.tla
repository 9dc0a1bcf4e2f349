---------------------------- MODULE UserLifecycle ----------------------------
(***************************************************************************)
(* The User aggregate of src/modules/users: status, phone number and       *)
(* addresses of one user.  Name, gender, date of birth and avatar, of      *)
(* which no command asks anything, are left out; an address is told by     *)
(* whether it is a default one, and the list of them by how many of each   *)
(* kind it has.                                                            *)
(***************************************************************************)
EXTENDS Naturals

CONSTANTS
    PhoneNumber,
    NoPhone,
    MaxAddresses   \* bound: a user has no more addresses of a kind

ASSUME UserAssumption == NoPhone \notin PhoneNumber /\ MaxAddresses \in Nat

VARIABLE member

UserStatus == {"inactive", "active", "suspended", "deleted"}

AddressKind == {"default", "other"}

UserTypeOK ==
    member \in [status : UserStatus,
                deletedAt : BOOLEAN,
                phoneNumber : PhoneNumber \cup {NoPhone},
                phoneVerified : BOOLEAN,
                addresses : [AddressKind -> 0 .. MaxAddresses]]

(* User.validate, in the constructor that every load goes through *)
Valid(u) ==
    /\ u.addresses["default"] <= 1
    /\ u.phoneVerified => u.phoneNumber # NoPhone
    /\ u.deletedAt <=> u.status = "deleted"

(* A user is made by a registration, without phone and address; it has been
   activated when its address was verified or came from Google. *)
UserInit ==
    \E status \in {"inactive", "active"} :
        member = [status |-> status, deletedAt |-> FALSE,
                  phoneNumber |-> NoPhone, phoneVerified |-> FALSE,
                  addresses |-> [kind \in AddressKind |-> 0]]

CanBeModified == member.status \notin {"deleted", "suspended"}

(* Mutant of UpdatePhoneNumber: clearing the number keeps the verification *)
ReplacePhoneNumber(phone) ==
    /\ CanBeModified
    /\ member' = [member EXCEPT !.phoneNumber = phone]

(* The new number is assigned before it is compared with the old one, so only
   null resets the verification. *)
UpdatePhoneNumber(phone) ==
    /\ CanBeModified
    /\ member' = [member EXCEPT !.phoneNumber = phone,
                                !.phoneVerified = @ /\ phone # NoPhone]

VerifyPhone ==
    /\ CanBeModified
    /\ member.phoneNumber # NoPhone
    /\ ~ member.phoneVerified
    /\ member' = [member EXCEPT !.phoneVerified = TRUE]

UnverifyPhone ==
    /\ CanBeModified
    /\ member' = [member EXCEPT !.phoneVerified = FALSE]

(* Mutant of AddAddress: addresses do not count as a modification *)
AddAddressAnytime(kind) ==
    /\ member.addresses[kind] < MaxAddresses
    /\ member' = [member EXCEPT !.addresses[kind] = @ + 1]

AddAddress(kind) ==
    /\ CanBeModified
    /\ member.addresses[kind] < MaxAddresses
    /\ member' = [member EXCEPT !.addresses[kind] = @ + 1]

(* An address at some index is replaced, perhaps by one of the other kind *)
UpdateAddress(from, to) ==
    /\ CanBeModified
    /\ from # to
    /\ member.addresses[from] > 0
    /\ member.addresses[to] < MaxAddresses
    /\ member' = [member EXCEPT !.addresses[from] = @ - 1, !.addresses[to] = @ + 1]

RemoveAddress(kind) ==
    /\ CanBeModified
    /\ member.addresses[kind] > 0
    /\ member' = [member EXCEPT !.addresses[kind] = @ - 1]

ActivateUser ==
    /\ member.status = "inactive"
    /\ member' = [member EXCEPT !.status = "active"]

DeactivateUser ==
    /\ member.status = "active"
    /\ member' = [member EXCEPT !.status = "inactive"]

SuspendUser ==
    /\ member.status \in {"active", "inactive"}
    /\ member' = [member EXCEPT !.status = "suspended"]

UnsuspendUser ==
    /\ member.status = "suspended"
    /\ member' = [member EXCEPT !.status = "active"]

DeleteUser ==
    /\ member.status # "deleted"
    /\ member' = [member EXCEPT !.status = "deleted", !.deletedAt = TRUE]

RestoreUser ==
    /\ member.status = "deleted"
    /\ member' = [member EXCEPT !.status = "inactive", !.deletedAt = FALSE]

UserNext ==
    \/ \E phone \in PhoneNumber \cup {NoPhone} : UpdatePhoneNumber(phone)
    \/ VerifyPhone
    \/ UnverifyPhone
    \/ \E kind \in AddressKind : AddAddress(kind) \/ RemoveAddress(kind)
    \/ \E from, to \in AddressKind : UpdateAddress(from, to)
    \/ ActivateUser
    \/ DeactivateUser
    \/ SuspendUser
    \/ UnsuspendUser
    \/ DeleteUser
    \/ RestoreUser

UserSpec == UserInit /\ [][UserNext]_member

-----------------------------------------------------------------------------
(* Commands do not run validate(), yet whatever is called in whatever order,
   what they save passes its rules on phone and deletion: a user is locked
   out of its own account by nothing but a second default address. *)
OnlyDefaultsLockOut == Valid(member) \/ member.addresses["default"] > 1

(* While a user is suspended or deleted, through any chain of suspension,
   deletion and restoration, phone and addresses stay what they were; and
   nobody deleted becomes active but by way of inactive. *)
SetAsideUserFrozen ==
    [][/\ member.status \in {"suspended", "deleted"} =>
            UNCHANGED <<member.phoneNumber, member.phoneVerified, member.addresses>>
       /\ member.status = "deleted" => member'.status # "active"]_member
=============================================================================
