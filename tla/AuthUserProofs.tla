--------------------------- MODULE AuthUserProofs ---------------------------
(***************************************************************************)
(* What the commands of the AuthUser aggregate do to an account, for any   *)
(* tokens, passwords and limit: the token list stays within its limit and  *)
(* without repetition, and each command the use cases call leads from one  *)
(* account record to another.                                              *)
(***************************************************************************)
EXTENDS AuthUser, SequenceTheorems, TLAPS

(* addRefreshToken, and the shift of the oldest token when there are too
   many, keep the list a list of at most MaxRefreshTokens distinct tokens. *)
LEMMA PushedList ==
    ASSUME NEW s \in Seq(Token), NEW t \in Token,
           NoDuplicates(s), Len(s) <= MaxRefreshTokens
    PROVE  /\ Pushed(s, t) \in Seq(Token)
           /\ NoDuplicates(Pushed(s, t))
           /\ Len(Pushed(s, t)) <= MaxRefreshTokens
<1>. USE AuthUserAssumption
<1>1. CASE t \in Elements(s)
  BY <1>1 DEF Pushed
<1>2. CASE t \notin Elements(s)
  <2>. DEFINE a == Append(s, t)
  <2>1. /\ a \in Seq(Token)
        /\ Len(a) = Len(s) + 1
        /\ \A i \in 1 .. Len(s) : a[i] = s[i]
        /\ a[Len(s) + 1] = t
    OBVIOUS
  <2>2. NoDuplicates(a)
    <3>1. \A i \in 1 .. Len(s) : s[i] # t
      BY <1>2 DEF Elements
    <3>. HIDE DEF a
    <3>. QED  BY <2>1, <3>1 DEF NoDuplicates
  <2>3. CASE Len(s) < MaxRefreshTokens
    BY <1>2, <2>1, <2>2, <2>3 DEF Pushed
  <2>4. CASE ~ (Len(s) < MaxRefreshTokens)
    <3>1. Pushed(s, t) = Tail(a)
      BY <1>2, <2>4 DEF Pushed
    <3>. HIDE DEF a
    <3>2. /\ Tail(a) \in Seq(Token)
          /\ Len(Tail(a)) = Len(s)
          /\ \A i \in 1 .. Len(s) : Tail(a)[i] = a[i + 1]
      BY <2>1
    <3>3. NoDuplicates(Tail(a))
      BY <2>1, <2>2, <3>2 DEF NoDuplicates
    <3>. QED  BY <3>1, <3>2, <3>3
  <2>. QED  BY <2>3, <2>4
<1>. QED  BY <1>1, <1>2

(* removeRefreshToken takes out one token and keeps the others in order. *)
LEMMA WithoutList ==
    ASSUME NEW s \in Seq(Token), NEW t, NoDuplicates(s)
    PROVE  /\ Without(s, t) \in Seq(Token)
           /\ NoDuplicates(Without(s, t))
           /\ Len(Without(s, t)) <= Len(s)
<1>1. CASE t \notin Elements(s)
  BY <1>1 DEF Without
<1>2. CASE t \in Elements(s)
  <2>1. PICK k \in 1 .. Len(s) : Without(s, t) =
            [i \in 1 .. Len(s) - 1 |-> IF i < k THEN s[i] ELSE s[i + 1]]
    <3>. DEFINE k == CHOOSE i \in 1 .. Len(s) : s[i] = t
    <3>1. k \in 1 .. Len(s)
      BY <1>2 DEF Elements
    <3>2. Without(s, t) = [i \in 1 .. Len(s) - 1 |-> IF i < k THEN s[i] ELSE s[i + 1]]
      BY <1>2 DEF Without
    <3>. QED  BY <3>1, <3>2
  <2>. DEFINE w == Without(s, t)
              n == Len(s) - 1
  <2>2. n \in Nat
    BY <2>1
  <2>3. \A i \in 1 .. n : w[i] = IF i < k THEN s[i] ELSE s[i + 1]
    BY <2>1
  <2>4. w \in [1 .. n -> Token]
    BY <2>1
  <2>5. w \in Seq(Token) /\ Len(w) = n
    <3>. HIDE DEF w, n
    <3>. QED  BY <2>2, <2>4, SeqDef
  <2>6. NoDuplicates(w)
    <3>. HIDE DEF w
    <3>. QED  BY <2>3, <2>5 DEF NoDuplicates
  <2>. QED  BY <2>5, <2>6
<1>. QED  BY <1>1, <1>2

(* addRefreshToken brings in no other token than the one it adds ... *)
LEMMA PushedElements ==
    ASSUME NEW s \in Seq(Token), NEW t \in Token
    PROVE  Elements(Pushed(s, t)) \subseteq Elements(s) \cup {t}
<1>. DEFINE a == Append(s, t)
<1>1. /\ a \in Seq(Token)
      /\ Len(a) = Len(s) + 1
      /\ \A i \in 1 .. Len(s) : a[i] = s[i]
      /\ a[Len(s) + 1] = t
  OBVIOUS
<1>2. Elements(a) \subseteq Elements(s) \cup {t}
  <2>. HIDE DEF a
  <2>. QED  BY <1>1 DEF Elements
<1>3. Elements(Tail(a)) \subseteq Elements(a)
  <2>. HIDE DEF a
  <2>1. /\ Len(Tail(a)) = Len(s)
        /\ \A i \in 1 .. Len(s) : Tail(a)[i] = a[i + 1]
    BY <1>1
  <2>. QED  BY <1>1, <2>1 DEF Elements
<1>. QED  BY <1>2, <1>3 DEF Pushed

(* ... and removeRefreshToken takes out the token for good: the list had it
   once. *)
LEMMA WithoutElements ==
    ASSUME NEW s \in Seq(Token), NEW t, NoDuplicates(s)
    PROVE  /\ Elements(Without(s, t)) \subseteq Elements(s)
           /\ t \notin Elements(Without(s, t))
<1>1. CASE t \notin Elements(s)
  BY <1>1 DEF Without
<1>2. CASE t \in Elements(s)
  <2>. DEFINE k == CHOOSE i \in 1 .. Len(s) : s[i] = t
              n == Len(s) - 1
              w == [i \in 1 .. n |-> IF i < k THEN s[i] ELSE s[i + 1]]
  <2>1. k \in 1 .. Len(s) /\ s[k] = t
    BY <1>2 DEF Elements
  <2>2. Without(s, t) = w
    BY <1>2 DEF Without
  <2>. HIDE DEF k
  <2>3. /\ n \in Nat
        /\ w \in [1 .. n -> Token]
        /\ \A i \in 1 .. n : w[i] = IF i < k THEN s[i] ELSE s[i + 1]
    BY <2>1
  <2>. HIDE DEF w, n
  <2>4. w \in Seq(Token) /\ Len(w) = n
    BY <2>3, SeqDef
  <2>5. n = Len(s) - 1
    BY DEF n
  <2>6. \A i \in 1 .. n : \E j \in 1 .. Len(s) : w[i] = s[j] /\ j # k
    BY <2>1, <2>3, <2>5
  <2>. QED  BY <2>1, <2>2, <2>4, <2>6 DEF Elements, NoDuplicates
<1>. QED  BY <1>1, <1>2

-----------------------------------------------------------------------------
SoundUser == {u \in UserRecord : Sound(u)}

(* The factories register and fromOAuth make sound accounts. *)
LEMMA FactoriesSound ==
    /\ \A p \in Password : Registered(p) \in SoundUser
    /\ CreatedFromOAuth \in SoundUser
<1>. USE AuthUserAssumption
<1>. USE DEF SoundUser, UserRecord, Status, Sound, Reconstructible, NoDuplicates, IsActive,
             IsUsingLocalProvider, IsUsingOAuthProvider, CanVerifyEmail
<1>1. \A p \in Password : Registered(p) \in SoundUser
  BY DEF Registered
<1>2. CreatedFromOAuth \in SoundUser
  BY DEF CreatedFromOAuth
<1>. QED  BY <1>1, <1>2

(* verifyEmail makes an account that it accepts active. *)
LEMMA VerifyEmailSound ==
    ASSUME NEW u \in SoundUser, CanVerifyEmail(u)
    PROVE  VerifyEmail(u) \in SoundUser
BY DEF SoundUser, UserRecord, Status, Sound, Reconstructible, IsActive, VerifyEmail,
       IsUsingLocalProvider, IsUsingOAuthProvider, CanVerifyEmail

(* linkOAuth is sound for an account that is active: this is where the login
   with Google has to refuse one that is not. *)
LEMMA LinkOAuthSound ==
    ASSUME NEW u \in SoundUser, IsActive(u)
    PROVE  LinkOAuth(u) \in SoundUser
BY DEF SoundUser, UserRecord, Status, Sound, Reconstructible, IsActive, LinkOAuth,
       IsUsingLocalProvider, IsUsingOAuthProvider, CanVerifyEmail

(* The commands on the token list change nothing else. *)
LEMMA TokensSound ==
    ASSUME NEW u \in SoundUser, NEW s \in Seq(Token),
           NoDuplicates(s), Len(s) <= MaxRefreshTokens,
           s # << >> => IsActive(u)
    PROVE  [u EXCEPT !.tokens = s] \in SoundUser
BY DEF SoundUser, UserRecord, Sound, Reconstructible, IsActive,
       IsUsingLocalProvider, IsUsingOAuthProvider, CanVerifyEmail

(* addRefreshToken, for an account that has the token or is active *)
LEMMA AddRefreshTokenSound ==
    ASSUME NEW u \in SoundUser, NEW t \in Token, CanAddRefreshToken(u, t)
    PROVE  AddRefreshToken(u, t) \in SoundUser
<1>1. /\ u \in UserRecord
      /\ u.tokens \in Seq(Token)
      /\ NoDuplicates(u.tokens)
      /\ Len(u.tokens) <= MaxRefreshTokens
  BY DEF SoundUser, UserRecord, Sound
<1>2. IsActive(u)
  BY <1>1 DEF CanAddRefreshToken, HasRefreshToken, Elements, SoundUser, Sound, Reconstructible
<1>. QED  BY <1>1, <1>2, PushedList, TokensSound DEF AddRefreshToken

(* removeRefreshToken, for any token, one the account has or not *)
LEMMA RemoveRefreshTokenSound ==
    ASSUME NEW u \in SoundUser, NEW t
    PROVE  RemoveRefreshToken(u, t) \in SoundUser
<1>1. /\ u \in UserRecord
      /\ u.tokens \in Seq(Token)
      /\ NoDuplicates(u.tokens)
      /\ Len(u.tokens) <= MaxRefreshTokens
      /\ u.tokens # << >> => IsActive(u)
  BY DEF SoundUser, UserRecord, Sound, Reconstructible
<1>2. /\ Without(u.tokens, t) \in Seq(Token)
      /\ NoDuplicates(Without(u.tokens, t))
      /\ Len(Without(u.tokens, t)) <= Len(u.tokens)
  BY <1>1, WithoutList
<1>3. Len(Without(u.tokens, t)) <= MaxRefreshTokens
  BY <1>1, <1>2, AuthUserAssumption
<1>4. Without(u.tokens, t) # << >> => u.tokens # << >>
  BY <1>1, <1>2
<1>. QED  BY <1>1, <1>2, <1>3, <1>4, TokensSound DEF RemoveRefreshToken

(* clearRefreshTokens *)
LEMMA ClearRefreshTokensSound ==
    ASSUME NEW u \in SoundUser
    PROVE  ClearRefreshTokens(u) \in SoundUser
<1>1. << >> \in Seq(Token) /\ NoDuplicates(<< >>) /\ Len(<< >>) <= MaxRefreshTokens
  BY AuthUserAssumption DEF NoDuplicates
<1>. QED  BY <1>1, TokensSound DEF ClearRefreshTokens

(* changePassword and resetPassword *)
LEMMA SetPasswordSound ==
    ASSUME NEW u \in SoundUser, NEW p \in Password, CanResetPassword(u)
    PROVE  SetPassword(u, p) \in SoundUser
<1>1. ClearRefreshTokens(u) \in SoundUser /\ IsActive(ClearRefreshTokens(u))
  BY ClearRefreshTokensSound DEF CanResetPassword, ClearRefreshTokens, IsActive,
     SoundUser, UserRecord
<1>2. ASSUME NEW c \in SoundUser, IsActive(c)
      PROVE  [c EXCEPT !.password = p] \in SoundUser
  BY <1>2, AuthUserAssumption DEF SoundUser, UserRecord, Sound, Reconstructible, IsActive,
     IsUsingLocalProvider, IsUsingOAuthProvider, CanVerifyEmail
<1>. QED  BY <1>1, <1>2 DEF SetPassword

(* recordTokenRefresh removes one token and adds another *)
LEMMA RecordTokenRefreshSound ==
    ASSUME NEW u \in SoundUser, NEW old, NEW t \in Token,
           CanAddRefreshToken(RemoveRefreshToken(u, old), t)
    PROVE  RecordTokenRefresh(u, old, t) \in SoundUser
BY RemoveRefreshTokenSound, AddRefreshTokenSound DEF RecordTokenRefresh

(* recordLogout with a refresh token, and without one *)
LEMMA RecordLogoutSound ==
    ASSUME NEW u \in SoundUser, NEW t
    PROVE  RecordLogout(u, t) \in SoundUser
BY RemoveRefreshTokenSound, ClearRefreshTokensSound DEF RecordLogout
=============================================================================
