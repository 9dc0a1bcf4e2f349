------------------------------ MODULE AuthUser ------------------------------
(***************************************************************************)
(* The AuthUser aggregate of src/modules/auth: the account record that the *)
(* authentication use cases load, change in memory and write back whole.   *)
(* Every command method is an operator from record to record; the checks a *)
(* command makes before it changes anything are a Can... predicate beside  *)
(* it, so that a module using the aggregate puts the predicate in a guard. *)
(*                                                                         *)
(* Dates are abstracted to what the code tests: emailVerifiedAt is set     *)
(* exactly when emailVerified is, deletedAt is kept as a flag.  Hashes are *)
(* the passwords they stand for; only the Google provider is linked by a   *)
(* use case, so the provider list is one flag.                             *)
(***************************************************************************)
EXTENDS Naturals, Sequences

CONSTANTS
    Token,            \* refresh tokens, named for the request that issues one
    Password,         \* raw passwords
    None,             \* null: no password, no row, nothing cached
    MaxRefreshTokens  \* 5 in the code

ASSUME AuthUserAssumption ==
    /\ MaxRefreshTokens \in Nat \ {0}
    /\ None \notin Password

Status == {"inactive", "active", "suspended", "deleted"}

UserRecord ==
    [status    : Status,
     verified  : BOOLEAN,
     password  : Password \cup {None},
     google    : BOOLEAN,
     deletedAt : BOOLEAN,
     tokens    : Seq(Token)]

Elements(s) == {s[i] : i \in 1 .. Len(s)}

NoDuplicates(s) == \A i, j \in 1 .. Len(s) : s[i] = s[j] => i = j

IsActive(u) == u.status = "active"

IsUsingLocalProvider(u) == u.password # None

IsUsingOAuthProvider(u) == u.google

-----------------------------------------------------------------------------
(* Factories *)

Registered(p) ==
    [status |-> "inactive", verified |-> FALSE, password |-> p,
     google |-> FALSE, deletedAt |-> FALSE, tokens |-> << >>]

CreatedFromOAuth ==
    [status |-> "active", verified |-> TRUE, password |-> None,
     google |-> TRUE, deletedAt |-> FALSE, tokens |-> << >>]

(* The private validate(), run by the constructor only: a stored row that
   fails it can never be turned into an aggregate again. *)
Reconstructible(u) ==
    /\ IsUsingOAuthProvider(u) => u.verified
    /\ u.verified => IsActive(u)
    /\ u.tokens # << >> => IsActive(u)
    /\ u.deletedAt <=> u.status = "deleted"

-----------------------------------------------------------------------------
(* Queries the commands and use cases are guarded by *)

CanVerifyEmail(u) == ~ IsActive(u) /\ ~ u.verified /\ IsUsingLocalProvider(u)

CanUnverifyEmail(u) == u.verified

CanResetPassword(u) == IsActive(u) /\ IsUsingLocalProvider(u) /\ u.verified

EnsureCanLogin(u) ==
    /\ IsActive(u)
    /\ u.verified
    /\ IsUsingOAuthProvider(u) => IsUsingLocalProvider(u)

CanRefreshToken(u) == IsActive(u) /\ u.tokens # << >>

HasRefreshToken(u, t) == t \in Elements(u.tokens)

-----------------------------------------------------------------------------
(* The list of refresh tokens, oldest first *)

(* Mutant of CanAddRefreshToken: the status is not looked at *)
CanAddRefreshTokenToAnyone(u, t) == TRUE

(* addRefreshToken throws for an inactive user, but only after the test for
   a token that is already there. *)
CanAddRefreshToken(u, t) == HasRefreshToken(u, t) \/ IsActive(u)

(* Mutant of Pushed: the oldest token is never shifted out *)
PushedWithoutShift(s, t) == IF t \in Elements(s) THEN s ELSE Append(s, t)

Pushed(s, t) ==
    IF t \in Elements(s) THEN s
    ELSE IF Len(s) < MaxRefreshTokens THEN Append(s, t)
    ELSE Tail(Append(s, t))

(* filter(x => x !== t): addRefreshToken never stores a token twice, so at
   most one position goes. *)
Without(s, t) ==
    IF t \notin Elements(s) THEN s
    ELSE LET k == CHOOSE i \in 1 .. Len(s) : s[i] = t
         IN  [i \in 1 .. Len(s) - 1 |-> IF i < k THEN s[i] ELSE s[i + 1]]

AddRefreshToken(u, t) == [u EXCEPT !.tokens = Pushed(@, t)]

RemoveRefreshToken(u, t) == [u EXCEPT !.tokens = Without(@, t)]

(* Mutant of ClearRefreshTokens: the list becomes null instead of empty *)
NullRefreshTokens(u) == [u EXCEPT !.tokens = None]

ClearRefreshTokens(u) == [u EXCEPT !.tokens = << >>]

-----------------------------------------------------------------------------
(* Commands *)

VerifyEmail(u) == [u EXCEPT !.verified = TRUE, !.status = "active"]

UnverifyEmail(u) == [u EXCEPT !.verified = FALSE, !.status = "inactive"]

(* changePassword and resetPassword differ only in the event they raise *)
SetPassword(u, p) == [ClearRefreshTokens(u) EXCEPT !.password = p]

RecordLogin(u, t) == AddRefreshToken(u, t)

RecordOAuthLogin(u, t) == AddRefreshToken(u, t)

RecordLogout(u, t) ==
    IF t = None THEN ClearRefreshTokens(u) ELSE RemoveRefreshToken(u, t)

RecordTokenRefresh(u, old, t) == AddRefreshToken(RemoveRefreshToken(u, old), t)

RevokeAllRefreshTokens(u) == ClearRefreshTokens(u)

LinkOAuth(u) == [u EXCEPT !.google = TRUE]

UnlinkOAuth(u) == [u EXCEPT !.google = FALSE]

Activate(u) == [ClearRefreshTokens(u) EXCEPT !.status = "active"]

Deactivate(u) == [ClearRefreshTokens(u) EXCEPT !.status = "inactive"]

Suspend(u) == [ClearRefreshTokens(u) EXCEPT !.status = "suspended"]

SoftDelete(u) ==
    [ClearRefreshTokens(u) EXCEPT !.status = "deleted", !.deletedAt = TRUE]

-----------------------------------------------------------------------------
(* What validate() and the commands that use cases call promise together of
   an account: it can be turned into an aggregate again, holds at most
   MaxRefreshTokens refresh tokens and none twice, can be entered with a
   password or with Google, and is active and verified or can still become
   so. *)
Sound(u) ==
    /\ Reconstructible(u)
    /\ Len(u.tokens) <= MaxRefreshTokens
    /\ NoDuplicates(u.tokens)
    /\ IsUsingLocalProvider(u) \/ IsUsingOAuthProvider(u)
    /\ \/ IsActive(u) /\ u.verified
       \/ u.status = "inactive" /\ CanVerifyEmail(u)
=============================================================================
