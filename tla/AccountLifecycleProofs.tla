------------------------ MODULE AccountLifecycleProofs ------------------------
(***************************************************************************)
(* Which commands of the AuthUser aggregate can lock an account out, what  *)
(* each would have to test not to, and what no command breaks: the list of *)
(* refresh tokens.  For any tokens, passwords and limit.                   *)
(***************************************************************************)
EXTENDS AccountLifecycle, AuthUserProofs

Bounded(u) ==
    u.tokens \in Seq(Token) /\ NoDuplicates(u.tokens) /\ Len(u.tokens) <= MaxRefreshTokens

BoundedUser == {u \in UserRecord : Bounded(u)}

IInv == row \in BoundedUser /\ (user # None => user \in BoundedUser)

-----------------------------------------------------------------------------
(* The list of tokens under each command *)

LEMMA FactoriesBounded ==
    /\ \A p \in Password : Registered(p) \in BoundedUser
    /\ CreatedFromOAuth \in BoundedUser
<1>1. << >> \in Seq(Token) /\ NoDuplicates(<< >>) /\ Len(<< >>) <= MaxRefreshTokens
  BY AuthUserAssumption DEF NoDuplicates
<1>. QED
  BY <1>1 DEF Registered, CreatedFromOAuth, BoundedUser, Bounded, UserRecord, Status

LEMMA WithTokens ==
    ASSUME NEW u \in BoundedUser, NEW s \in Seq(Token),
           NoDuplicates(s), Len(s) <= MaxRefreshTokens
    PROVE  [u EXCEPT !.tokens = s] \in BoundedUser
BY DEF BoundedUser, Bounded, UserRecord

LEMMA TokenCommandsBounded ==
    ASSUME NEW u \in BoundedUser
    PROVE  /\ ClearRefreshTokens(u) \in BoundedUser
           /\ \A t \in Token : AddRefreshToken(u, t) \in BoundedUser
           /\ \A t : RemoveRefreshToken(u, t) \in BoundedUser
<1>1. u.tokens \in Seq(Token) /\ NoDuplicates(u.tokens) /\ Len(u.tokens) <= MaxRefreshTokens
  BY DEF BoundedUser, Bounded
<1>2. << >> \in Seq(Token) /\ NoDuplicates(<< >>) /\ Len(<< >>) <= MaxRefreshTokens
  BY AuthUserAssumption DEF NoDuplicates
<1>3. ClearRefreshTokens(u) \in BoundedUser
  BY <1>2, WithTokens DEF ClearRefreshTokens
<1>4. ASSUME NEW t \in Token  PROVE AddRefreshToken(u, t) \in BoundedUser
  BY <1>1, PushedList, WithTokens DEF AddRefreshToken
<1>5. ASSUME NEW t  PROVE RemoveRefreshToken(u, t) \in BoundedUser
  <2>. DEFINE w == Without(u.tokens, t)
  <2>1. w \in Seq(Token) /\ NoDuplicates(w) /\ Len(w) <= Len(u.tokens)
    BY <1>1, WithoutList
  <2>. HIDE DEF w
  <2>2. Len(w) <= MaxRefreshTokens
    BY <1>1, <2>1, AuthUserAssumption
  <2>3. RemoveRefreshToken(u, t) = [u EXCEPT !.tokens = w]
    BY DEF RemoveRefreshToken, w
  <2>. QED  BY <2>1, <2>2, <2>3, WithTokens
<1>. QED  BY <1>3, <1>4, <1>5

LEMMA CommandBounded ==
    ASSUME user \in BoundedUser, user # None, Command
    PROVE  user' \in BoundedUser
<1>1. ClearRefreshTokens(user) \in BoundedUser
  BY TokenCommandsBounded
<1>. USE DEF BoundedUser, Bounded, UserRecord, Status
<1>2. CASE StatusCommand
  BY <1>1, <1>2 DEF StatusCommand, Activate, Deactivate, Suspend, SoftDelete
<1>3. CASE EmailCommand
  BY <1>3 DEF EmailCommand, VerifyEmail, UnverifyEmail
<1>4. CASE PasswordCommand
  BY <1>1, <1>4 DEF PasswordCommand, SetPassword
<1>5. CASE ProviderCommand
  BY <1>5 DEF ProviderCommand, LinkOAuth, UnlinkOAuth
<1>6. CASE TokenCommand
  <2>1. PICK t \in Token :
          \/ user' = RecordLogin(user, t)
          \/ user' = RecordOAuthLogin(user, t)
          \/ user' \in {RecordLogout(user, t), RecordLogout(user, None)}
          \/ \E old \in Token :
                user' \in {RecordTokenRefresh(user, old, t), RemoveRefreshToken(user, old)}
          \/ user' = RevokeAllRefreshTokens(user)
    BY <1>6 DEF TokenCommand
  <2>2. \A old : RemoveRefreshToken(user, old) \in BoundedUser
    BY TokenCommandsBounded
  <2>3. \A old : AddRefreshToken(RemoveRefreshToken(user, old), t) \in BoundedUser
    BY <2>2, TokenCommandsBounded
  <2>4. AddRefreshToken(user, t) \in BoundedUser
    BY TokenCommandsBounded
  <2>. HIDE DEF BoundedUser
  <2>. QED
    BY <1>1, <2>1, <2>2, <2>3, <2>4 DEF RecordLogin, RecordOAuthLogin, RecordLogout,
       RecordTokenRefresh, RevokeAllRefreshTokens
<1>. QED  BY <1>2, <1>3, <1>4, <1>5, <1>6 DEF Command

LEMMA InitBounded == Init => IInv
BY FactoriesBounded DEF Init, IInv

LEMMA StepBounded == IInv /\ [Next]_vars => IInv'
BY CommandBounded DEF IInv, Next, Load, Save, Command, vars

(* Whatever commands an account is given, in whatever order and over however
   many loads and saves, it has at most MaxRefreshTokens refresh tokens and
   none twice: no command can make the list grow or repeat. *)
THEOREM TokensStayBounded == Spec => [](Bounded(row) /\ (user # None => Bounded(user)))
<1>1. IInv => Bounded(row) /\ (user # None => Bounded(user))
  BY DEF IInv, BoundedUser
<1>. QED  BY <1>1, InitBounded, StepBounded, PTL DEF Spec

-----------------------------------------------------------------------------
(* What a command would have to test of the account, beyond what it tests *)

MayActivate(u) == ~ u.deletedAt

MayEndActivity(u) == ~ u.verified /\ ~ u.deletedAt

MayDelete(u) == ~ u.verified

MayUnverify(u) == ~ u.google /\ u.tokens = << >>

MayLink(u) == u.verified

(* The tokens and the password: they do not lock an account out *)
LEMMA TokenCommandsLoad ==
    ASSUME NEW u \in UserRecord, Reconstructible(u)
    PROVE  /\ Reconstructible(ClearRefreshTokens(u))
           /\ \A p \in Password : Reconstructible(SetPassword(u, p))
           /\ \A t : Reconstructible(RemoveRefreshToken(u, t))
           /\ \A t \in Token :
                CanAddRefreshToken(u, t) => Reconstructible(AddRefreshToken(u, t))
<1>. USE DEF UserRecord, Reconstructible, IsActive, IsUsingOAuthProvider
<1>1. Reconstructible(ClearRefreshTokens(u))
  BY DEF ClearRefreshTokens
<1>2. \A p \in Password : Reconstructible(SetPassword(u, p))
  BY DEF SetPassword, ClearRefreshTokens
<1>3. ASSUME NEW t  PROVE Reconstructible(RemoveRefreshToken(u, t))
  <2>. DEFINE w == Without(u.tokens, t)
  <2>1. w # << >> => u.tokens # << >>
    BY DEF Without, Elements
  <2>2. RemoveRefreshToken(u, t) = [u EXCEPT !.tokens = w]
    BY DEF RemoveRefreshToken
  <2>. HIDE DEF w
  <2>. QED  BY <2>1, <2>2
<1>4. ASSUME NEW t \in Token, CanAddRefreshToken(u, t)
      PROVE  Reconstructible(AddRefreshToken(u, t))
  <2>1. u.tokens # << >> \/ IsActive(u)
    BY <1>4 DEF CanAddRefreshToken, HasRefreshToken, Elements
  <2>2. IsActive(u)
    BY <2>1
  <2>. DEFINE w == Pushed(u.tokens, t)
  <2>3. AddRefreshToken(u, t) = [u EXCEPT !.tokens = w]
    BY DEF AddRefreshToken
  <2>. HIDE DEF w
  <2>. QED  BY <2>2, <2>3
<1>. QED  BY <1>1, <1>2, <1>3, <1>4

(* The status commands test nothing, linkOAuth and unverifyEmail too little:
   on an account that can be loaded each of them leaves one that can be loaded
   again exactly when this holds.  Of the rest none can lock an account out. *)
THEOREM CommandsThatLoad ==
    ASSUME NEW u \in BoundedUser, Reconstructible(u)
    PROVE  /\ Reconstructible(Activate(u)) <=> MayActivate(u)
           /\ Reconstructible(Deactivate(u)) <=> MayEndActivity(u)
           /\ Reconstructible(Suspend(u)) <=> MayEndActivity(u)
           /\ Reconstructible(SoftDelete(u)) <=> MayDelete(u)
           /\ CanVerifyEmail(u) => (Reconstructible(VerifyEmail(u)) <=> MayActivate(u))
           /\ CanUnverifyEmail(u) => (Reconstructible(UnverifyEmail(u)) <=> MayUnverify(u))
           /\ Reconstructible(LinkOAuth(u)) <=> MayLink(u)
           /\ Reconstructible(UnlinkOAuth(u))
           /\ \A p \in Password : Reconstructible(SetPassword(u, p))
           /\ \A t \in Token \cup {None} : Reconstructible(RecordLogout(u, t))
           /\ \A t \in Token :
                CanAddRefreshToken(u, t) => Reconstructible(RecordLogin(u, t))
           /\ \A old, t \in Token :
                CanAddRefreshToken(RemoveRefreshToken(u, old), t)
                => Reconstructible(RecordTokenRefresh(u, old, t))
<1>0. u \in UserRecord
  BY DEF BoundedUser
<1>. USE <1>0 DEF UserRecord, Reconstructible, IsActive, IsUsingOAuthProvider
<1>1. /\ Reconstructible(Activate(u)) <=> MayActivate(u)
      /\ Reconstructible(Deactivate(u)) <=> MayEndActivity(u)
      /\ Reconstructible(Suspend(u)) <=> MayEndActivity(u)
      /\ Reconstructible(SoftDelete(u)) <=> MayDelete(u)
  BY DEF Activate, Deactivate, Suspend, SoftDelete, ClearRefreshTokens, MayActivate,
     MayEndActivity, MayDelete
<1>2. /\ CanVerifyEmail(u) => (Reconstructible(VerifyEmail(u)) <=> MayActivate(u))
      /\ CanUnverifyEmail(u) => (Reconstructible(UnverifyEmail(u)) <=> MayUnverify(u))
  BY DEF VerifyEmail, UnverifyEmail, CanVerifyEmail, CanUnverifyEmail, MayActivate, MayUnverify
<1>3. /\ Reconstructible(LinkOAuth(u)) <=> MayLink(u)
      /\ Reconstructible(UnlinkOAuth(u))
  BY DEF LinkOAuth, UnlinkOAuth, MayLink
<1>. HIDE DEF Reconstructible
<1>4. \A t \in Token \cup {None} : Reconstructible(RecordLogout(u, t))
  BY TokenCommandsLoad DEF RecordLogout
<1>5. ASSUME NEW old \in Token, NEW t \in Token,
             CanAddRefreshToken(RemoveRefreshToken(u, old), t)
      PROVE  Reconstructible(RecordTokenRefresh(u, old, t))
  <2>1. /\ RemoveRefreshToken(u, old) \in UserRecord
        /\ Reconstructible(RemoveRefreshToken(u, old))
    BY TokenCommandsBounded, TokenCommandsLoad DEF BoundedUser
  <2>. QED  BY <1>5, <2>1, TokenCommandsLoad DEF RecordTokenRefresh
<1>. QED  BY <1>1, <1>2, <1>3, <1>4, <1>5, TokenCommandsLoad DEF RecordLogin

-----------------------------------------------------------------------------
(* A caller that tests before the command what the command does not test *)
Tested ==
    user # None /\ user' # None =>
        \/ MayActivate(user) /\ user' \in {Activate(user), VerifyEmail(user)}
        \/ MayEndActivity(user) /\ user' \in {Deactivate(user), Suspend(user)}
        \/ MayDelete(user) /\ user' = SoftDelete(user)
        \/ MayUnverify(user) /\ CanUnverifyEmail(user) /\ user' = UnverifyEmail(user)
        \/ MayLink(user) /\ user' = LinkOAuth(user)
        \/ user' = UnlinkOAuth(user)
        \/ PasswordCommand
        \/ TokenCommand

LoadedInv ==
    IInv /\ Reconstructible(row) /\ (user # None => Reconstructible(user))

LEMMA TestedCommandLoads ==
    ASSUME user \in BoundedUser, user # None, Reconstructible(user), Command, Tested
    PROVE  user' # None => Reconstructible(user')
<1>. SUFFICES ASSUME user' # None PROVE Reconstructible(user')
  OBVIOUS
<1>0. user \in UserRecord
  BY DEF BoundedUser
<1>1. CASE PasswordCommand
  BY <1>0, <1>1, CommandsThatLoad DEF PasswordCommand
<1>2. CASE TokenCommand
  <2>1. PICK t \in Token :
          \/ CanAddRefreshToken(user, t) /\ user' = AddRefreshToken(user, t)
          \/ user' \in {RecordLogout(user, t), RecordLogout(user, None)}
          \/ \E old \in Token :
                \/ /\ CanAddRefreshToken(RemoveRefreshToken(user, old), t)
                   /\ user' = RecordTokenRefresh(user, old, t)
                \/ user' = RemoveRefreshToken(user, old)
          \/ user' = ClearRefreshTokens(user)
    BY <1>2 DEF TokenCommand, RecordLogin, RecordOAuthLogin, RevokeAllRefreshTokens
  <2>. QED  BY <1>0, <2>1, CommandsThatLoad, TokenCommandsLoad
<1>3. CASE user' = VerifyEmail(user) /\ MayActivate(user)
  BY <1>0, <1>3 DEF VerifyEmail, MayActivate, Reconstructible, IsActive,
     IsUsingOAuthProvider, UserRecord
<1>4. CASE user' # VerifyEmail(user) /\ ~ PasswordCommand /\ ~ TokenCommand
  BY <1>4, CommandsThatLoad DEF Tested
<1>. QED  BY <1>1, <1>2, <1>3, <1>4, CommandsThatLoad DEF Tested

LEMMA LoadedStep == LoadedInv /\ [Next]_vars /\ [Tested]_vars => LoadedInv'
<1>. SUFFICES ASSUME LoadedInv, [Next]_vars, [Tested]_vars PROVE LoadedInv'
  OBVIOUS
<1>1. IInv'
  BY StepBounded DEF LoadedInv
<1>2. CASE UNCHANGED vars
  BY <1>1, <1>2 DEF vars, LoadedInv
<1>3. CASE Load \/ Save
  BY <1>1, <1>3 DEF Load, Save, LoadedInv
<1>4. CASE Command /\ Tested
  BY <1>1, <1>4, TestedCommandLoads DEF Command, LoadedInv, IInv
<1>5. CASE Command /\ UNCHANGED vars
  BY <1>1, <1>5 DEF vars, LoadedInv
<1>. QED  BY <1>2, <1>3, <1>4, <1>5 DEF Next

(* With those tests a saved account can always be loaded again: they are all
   that the commands lack. *)
THEOREM TestedCommandsLoad == Spec /\ [][Tested]_vars => []SavedAccountLoads
<1>1. Init => LoadedInv
  <2>1. \A p \in Password : Reconstructible(Registered(p))
    BY DEF Registered, Reconstructible, IsActive, IsUsingOAuthProvider
  <2>2. Reconstructible(CreatedFromOAuth)
    BY DEF CreatedFromOAuth, Reconstructible, IsActive, IsUsingOAuthProvider
  <2>. QED  BY <2>1, <2>2, InitBounded DEF Init, LoadedInv
<1>2. LoadedInv => SavedAccountLoads
  BY DEF LoadedInv, SavedAccountLoads
<1>. QED  BY <1>1, <1>2, LoadedStep, PTL DEF Spec
=============================================================================
