-------------------------- MODULE AccountLifecycle --------------------------
(***************************************************************************)
(* One account under every command of the AuthUser aggregate, those that   *)
(* no use case calls yet (activate, deactivate, suspend, softDelete,       *)
(* unverifyEmail, unlinkOAuth) included.  A caller loads the row, gives    *)
(* commands and saves; the constructor's validate() runs when the row is   *)
(* loaded and at no other time.                                            *)
(***************************************************************************)
EXTENDS AuthUser

VARIABLES
    row,   \* the account in Postgres
    user   \* the aggregate a caller holds, None between two callers

vars == <<row, user>>

Init ==
    /\ row \in {Registered(p) : p \in Password} \cup {CreatedFromOAuth}
    /\ user = None

Load ==
    /\ user = None
    /\ Reconstructible(row)
    /\ user' = row
    /\ UNCHANGED row

Save ==
    /\ user # None
    /\ row' = user
    /\ user' = None

(* The commands that test nothing are the status commands *)
StatusCommand ==
    user' \in {Activate(user), Deactivate(user), Suspend(user), SoftDelete(user)}

EmailCommand ==
    \/ CanVerifyEmail(user) /\ user' = VerifyEmail(user)
    \/ CanUnverifyEmail(user) /\ user' = UnverifyEmail(user)

PasswordCommand ==
    /\ CanResetPassword(user)
    /\ \E p \in Password : user' = SetPassword(user, p)

ProviderCommand ==
    \/ ~ user.google /\ user' = LinkOAuth(user)
    \/ user.google /\ user' = UnlinkOAuth(user)

(* recordTokenRefresh has dropped the old token by the time addRefreshToken throws *)
TokenCommand ==
    \E t \in Token :
        \/ CanAddRefreshToken(user, t) /\ user' = RecordLogin(user, t)
        \/ user.google /\ CanAddRefreshToken(user, t) /\ user' = RecordOAuthLogin(user, t)
        \/ user' \in {RecordLogout(user, t), RecordLogout(user, None)}
        \/ \E old \in Token :
              LET left == RemoveRefreshToken(user, old)
              IN  user' = IF CanAddRefreshToken(left, t)
                          THEN RecordTokenRefresh(user, old, t) ELSE left
        \/ user' = RevokeAllRefreshTokens(user)

Command ==
    /\ user # None
    /\ StatusCommand \/ EmailCommand \/ PasswordCommand \/ ProviderCommand \/ TokenCommand
    /\ UNCHANGED row

Next == Load \/ Command \/ Save

Spec == Init /\ [][Next]_vars

-----------------------------------------------------------------------------
(* "Ensure email verified is false if User is not Active" (validate, in
   auth-user.entity.ts): an account that was saved can be loaded again.
   Broken by the commands that end an account's active status and leave
   emailVerified as it is; nobody can then activate the account again. *)
SavedAccountLoads == Reconstructible(row)
=============================================================================
