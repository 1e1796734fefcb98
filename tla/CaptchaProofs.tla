---------------------------- MODULE CaptchaProofs ----------------------------
(***************************************************************************)
(* Invariance proofs for Captcha, for every number of tabs, clients and    *)
(* keys, every lifetime of tokens and cookies, and every clock adjustment  *)
(* within the drift that jwt::parse_and_verify allows.                     *)
(***************************************************************************)
EXTENDS Captcha, FiniteSetTheorems, TLAPS

-----------------------------------------------------------------------------
(* The inductive invariant. *)

FileTypes ==
    /\ jwks \in [state : {"absent", "torn", "keys"}, keys : Seq(1..MaxKeys)]
    /\ proc \in {"down", "saving", "up", "failed"}
    /\ signing_key \in 0..MaxKeys
    /\ verifying_keys \subseteq 1..MaxKeys
    /\ generated \in 0..MaxKeys
    /\ retired \subseteq 1..MaxKeys
    /\ crashes \in 0..MaxCrashes

TimeTypes == now \in 0..MaxNow /\ skew \in 0..MaxSkew

TabState == [pc : TabStates, challenge : Challenge, token : Cookie("challenge"), client : ClientIds]

BrowserTypes ==
    /\ client \in ClientIds
    /\ jar \in [challenge : Cookie("challenge"), verified : Cookie("verified")]
    /\ tab \in [Tabs -> TabState]
    /\ solved \in [ClientIds -> [at : -1..MaxNow, handed_to : ClientIds]]
    /\ moves \in 0..MaxMoves

TypeInv == FileTypes /\ TimeTypes /\ BrowserTypes

FileKeys == {jwks.keys[n] : n \in DOMAIN jwks.keys}

\* The file holds a key exactly when it was written; Pingoo fails to start, or
\* saves a new key, only when the file holds none.
FileInv ==
    /\ (jwks.state = "keys") <=> (jwks.keys # <<>>)
    /\ proc \in {"failed", "saving"} => jwks.state # "keys"
    /\ proc = "saving" => signing_key \in 1..MaxKeys
    /\ SigningKeyIsDurable

\* The keys a token may have been signed with.
KnownKeys == FileKeys \cup retired

\* A token that carries a challenge belongs to the client the challenge is for.
ChallengeOK(c) ==
    c # NoCookie => /\ c.kid \in KnownKeys
                    /\ c.challenge # NoChallenge
                    /\ c.challenge[1] = c.sub

\* The verified token is the one its client was given when it last solved.
VerifiedOK(c) ==
    c # NoCookie => LET at == solved[c.sub].at
                    IN /\ c.kid \in KnownKeys
                       /\ 0 <= at /\ at <= now
                       /\ at <= c.nbf /\ c.nbf <= at + MaxSkew
                       /\ c.exp = c.nbf + VerifiedTtl
                       /\ c.expires = c.exp - Margin

TokenInv ==
    /\ ChallengeOK(jar.challenge)
    /\ VerifiedOK(jar.verified)
    /\ \A t \in Tabs : /\ ChallengeOK(tab[t].token)
                       /\ tab[t].pc = "checked" => tab[t].token # NoCookie

CInv == TypeInv /\ FileInv /\ TokenInv /\ SolvedByItsClient

-----------------------------------------------------------------------------
(* Lemmas about tokens and challenges. *)

\* The lifetimes, margins and bounds are numbers, and the skew stays within the drift.
LEMMA Bounds ==
    /\ ChallengeTtl \in Nat /\ VerifiedTtl \in Nat /\ Drift \in Nat /\ Margin \in Nat
    /\ MaxSkew \in Nat /\ MaxNow \in Nat /\ MaxKeys \in Nat /\ MaxChallenges \in Nat
    /\ MaxCrashes \in Nat /\ MaxMoves \in Nat /\ MaxSkew <= Drift
BY CaptchaAssumption

\* A cookie is no cookie or a token of its own type.
LEMMA CookieFacts ==
    ASSUME NEW typ \in {"challenge", "verified"}, NEW c \in Cookie(typ)
    PROVE  /\ c # NoCookie => c \in Token(typ) /\ c.typ = typ
           /\ c.typ = "none" <=> c = NoCookie
<1>1. NoCookie.typ = "none"
  BY DEF NoCookie
<1>2. c = NoCookie \/ c \in Token(typ)
  BY DEF Cookie
<1>3. c \in Token(typ) => c.typ = typ
  BY DEF Token
<1>4. QED
  BY <1>1, <1>2, <1>3

\* What generate_captcha_cookie returns.
LEMMA ChallengeCookie ==
    ASSUME TimeTypes, signing_key \in 1..MaxKeys, NEW id \in ClientIds, NEW n \in 1..MaxChallenges
    PROVE  LET c == generate_captcha_cookie(id, <<id, n>>)
           IN /\ c \in Cookie("challenge") /\ c.kid = signing_key
              /\ c.challenge # NoChallenge /\ c.challenge[1] = c.sub
<1> DEFINE c == generate_captcha_cookie(id, <<id, n>>)
<1>1. Utc_now \in Nat
  BY Bounds DEF TimeTypes, Utc_now
<1>2. <<id, n>> \in Challenge /\ <<id, n>> # NoChallenge
  BY DEF Challenge, NoChallenge
<1>3. c = [typ |-> "challenge", kid |-> signing_key, sub |-> id, nbf |-> Utc_now,
           exp |-> Utc_now + ChallengeTtl, expires |-> Utc_now + ChallengeTtl - Margin,
           challenge |-> <<id, n>>]
  BY DEF generate_captcha_cookie
<1>4. Utc_now + ChallengeTtl \in Nat /\ Utc_now + ChallengeTtl - Margin \in Int
  BY <1>1, Bounds
<1>5. c \in Token("challenge")
  BY <1>1, <1>2, <1>3, <1>4 DEF Token
<1>6. QED
  BY <1>2, <1>3, <1>5 DEF Cookie

\* What generate_captcha_verified_cookies returns.
LEMMA VerifiedCookie ==
    ASSUME TimeTypes, signing_key \in 1..MaxKeys, NEW id \in ClientIds
    PROVE  LET c == generate_captcha_verified_cookies(id)
           IN /\ c \in Cookie("verified") /\ c.kid = signing_key /\ c.sub = id
              /\ c.nbf = Utc_now /\ c.exp = Utc_now + VerifiedTtl
              /\ c.expires = Utc_now + VerifiedTtl - Margin
<1> DEFINE c == generate_captcha_verified_cookies(id)
<1>1. Utc_now \in Nat
  BY Bounds DEF TimeTypes, Utc_now
<1>2. NoChallenge \in Challenge
  BY DEF Challenge
<1>3. c = [typ |-> "verified", kid |-> signing_key, sub |-> id, nbf |-> Utc_now,
           exp |-> Utc_now + VerifiedTtl, expires |-> Utc_now + VerifiedTtl - Margin,
           challenge |-> NoChallenge]
  BY DEF generate_captcha_verified_cookies
<1>4. Utc_now + VerifiedTtl \in Nat /\ Utc_now + VerifiedTtl - Margin \in Int
  BY <1>1, Bounds
<1>5. c \in Token("verified")
  BY <1>1, <1>2, <1>3, <1>4 DEF Token
<1>6. QED
  BY <1>3, <1>5 DEF Cookie

\* The elements of a sequence.
LEMMA SeqElement ==
    ASSUME NEW S, NEW k \in Seq(S), NEW n \in DOMAIN k
    PROVE  k[n] \in S
OBVIOUS

\* A sequence without its last element.
LEMMA ButLast ==
    ASSUME NEW S, NEW k \in Seq(S), Len(k) > 1
    PROVE  LET s == SubSeq(k, 1, Len(k) - 1)
           IN /\ s \in Seq(S) /\ s # <<>>
              /\ k[Len(k)] \in S
              /\ \A n \in DOMAIN k : (n \in DOMAIN s /\ s[n] = k[n]) \/ n = Len(k)
<1> DEFINE s == SubSeq(k, 1, Len(k) - 1)
<1>1. Len(k) \in Nat /\ DOMAIN k = 1..Len(k) /\ Len(k) \in DOMAIN k
  OBVIOUS
<1>2. /\ s \in Seq(S) /\ Len(s) = Len(k) - 1
      /\ \A n \in 1..(Len(k) - 1) : s[n] = k[n]
  BY <1>1
<1>3. DOMAIN s = 1..(Len(k) - 1)
  BY <1>2
<1>4. s # <<>>
  <2> HIDE DEF s
  <2>1. Len(s) # 0
    BY <1>1, <1>2
  <2>2. QED
    BY <2>1
<1>5. k[Len(k)] \in S
  BY <1>1, SeqElement
<1>6. QED
  BY <1>1, <1>2, <1>3, <1>4, <1>5

\* Pingoo signs with a key of the file.
LEMMA SigningKeyFacts ==
    ASSUME TypeInv, FileInv, proc = "up"
    PROVE  signing_key \in 1..MaxKeys /\ signing_key \in KnownKeys
<1>1. /\ jwks.keys \in Seq(1..MaxKeys) /\ jwks.keys # <<>> /\ signing_key = Head(jwks.keys)
  BY DEF TypeInv, FileTypes, FileInv, SigningKeyIsDurable
<1>2. 1 \in DOMAIN jwks.keys /\ signing_key = jwks.keys[1]
  BY <1>1
<1>3. \A n \in DOMAIN jwks.keys : jwks.keys[n] \in 1..MaxKeys
  BY <1>1, SeqElement
<1>4. jwks.keys[1] \in FileKeys
  BY <1>2 DEF FileKeys
<1>5. QED
  BY <1>2, <1>3, <1>4 DEF KnownKeys

\* The values of a function on a finite set are no more than its arguments.
LEMMA ImageBound ==
    ASSUME NEW S, IsFiniteSet(S), NEW f, f = [x \in S |-> f[x]]
    PROVE  /\ IsFiniteSet({f[x] : x \in S})
           /\ Cardinality({f[x] : x \in S}) <= Cardinality(S)
<1>1. f \in Surjection(S, {f[x] : x \in S})
  BY DEF Surjection
<1>2. QED
  BY <1>1, FS_Surjection

\* The pool of challenges is large enough: there is one that nobody uses.
LEMMA FreshExists ==
    ASSUME TypeInv, NEW tb \in Tabs
    PROVE  Fresh \in 1..MaxChallenges
<1> DEFINE f == [t \in Tabs |-> tab[t].challenge]
           g == [t \in Tabs |-> IF tab[t].token = NoCookie THEN NoChallenge ELSE tab[t].token.challenge]
           j == IF jar.challenge = NoCookie THEN NoChallenge ELSE jar.challenge.challenge
           A == {f[t] : t \in Tabs}
           B == {g[t] : t \in Tabs}
           D == (A \cup B) \cup {j}
           T == Cardinality(Tabs)
<1>1. IsFiniteSet(Tabs) /\ T \in Nat /\ T # 0
  BY CaptchaAssumption, FS_CardinalityType, FS_EmptySet
<1>2. /\ IsFiniteSet(A) /\ Cardinality(A) <= T
      /\ IsFiniteSet(B) /\ Cardinality(B) <= T
  BY <1>1, ImageBound
<1>3. InUse \subseteq D
  BY DEF InUse
<1> HIDE DEF f, g, j, A, B
<1>4. /\ IsFiniteSet(A \cup B) /\ Cardinality(A \cup B) <= T + T
  <2>1. /\ IsFiniteSet(A \cup B)
        /\ Cardinality(A \cup B) = Cardinality(A) + Cardinality(B) - Cardinality(A \cap B)
    BY <1>2, FS_Union
  <2>2. IsFiniteSet(A \cap B)
    BY <1>2, FS_Subset
  <2>3. Cardinality(A) \in Nat /\ Cardinality(B) \in Nat /\ Cardinality(A \cap B) \in Nat
    BY <1>2, <2>2, FS_CardinalityType
  <2> HIDE DEF T
  <2>4. QED
    BY <1>1, <1>2, <2>1, <2>3
<1>5. IsFiniteSet(D) /\ Cardinality(D) <= T + T + 1
  <2>1. /\ IsFiniteSet(D)
        /\ Cardinality(D) = IF j \in A \cup B THEN Cardinality(A \cup B) ELSE Cardinality(A \cup B) + 1
    BY <1>4, FS_AddElement
  <2>2. Cardinality(A \cup B) \in Nat
    BY <1>4, FS_CardinalityType
  <2> HIDE DEF T, D
  <2>3. QED
    BY <1>1, <1>4, <2>1, <2>2
<1> HIDE DEF D
<1>6. \E n \in 1..MaxChallenges : \A c \in ClientIds : <<c, n>> \notin InUse
  <2> SUFFICES ASSUME \A n \in 1..MaxChallenges : \E c \in ClientIds : <<c, n>> \in InUse
               PROVE  FALSE
    OBVIOUS
  <2> DEFINE h == [n \in 1..MaxChallenges |-> <<CHOOSE c \in ClientIds : <<c, n>> \in InUse, n>>]
  <2>1. \A n \in 1..MaxChallenges : h[n] \in D /\ h[n][2] = n
    BY <1>3
  <2>2. h \in [1..MaxChallenges -> D] /\ \A m, n \in 1..MaxChallenges : h[m] = h[n] => m = n
    <3>1. h \in [1..MaxChallenges -> D]
      BY <2>1
    <3> HIDE DEF h
    <3>2. QED
      BY <2>1, <3>1
  <2> HIDE DEF h
  <2>3. IsFiniteSet(1..MaxChallenges) /\ Cardinality(1..MaxChallenges) = MaxChallenges
    <3>1. MaxChallenges \in Nat /\ 1 \in Int /\ MaxChallenges \in Int
      BY Bounds
    <3>2. /\ IsFiniteSet(1..MaxChallenges)
          /\ Cardinality(1..MaxChallenges) = IF 1 > MaxChallenges THEN 0 ELSE MaxChallenges - 1 + 1
      BY <3>1, FS_Interval
    <3>3. QED
      BY <3>1, <3>2
  <2>4. MaxChallenges > T + T + 1
    <3>1. MaxChallenges > 3 * T
      BY CaptchaAssumption
    <3> HIDE DEF T
    <3>2. QED
      BY <1>1, <3>1, Bounds
  <2>5. Cardinality(D) < Cardinality(1..MaxChallenges)
    <3>1. Cardinality(D) \in Nat
      BY <1>5, FS_CardinalityType
    <3> HIDE DEF T
    <3>2. QED
      BY <1>1, <1>5, <2>3, <2>4, <3>1, Bounds
  <2>6. \E x, y \in 1..MaxChallenges : x # y /\ h[x] = h[y]
    BY <1>5, <2>2, <2>3, <2>5, FS_PigeonHole
  <2>7. QED
    BY <2>2, <2>6
<1>7. QED
  BY <1>6 DEF Fresh

-----------------------------------------------------------------------------
(* Pingoo and its operator. *)

\* A step of Pingoo or its operator leaves the browser alone and loses no key.
LEMMA FileStepPreserves ==
    ASSUME CInv, UNCHANGED <<time, browser>>, FileTypes', FileInv', KnownKeys \subseteq KnownKeys'
    PROVE  CInv'
<1>1. UNCHANGED <<now, skew, client, jar, tab, solved, moves>>
  BY DEF time, browser
<1>2. TypeInv'
  BY <1>1 DEF CInv, TypeInv, TimeTypes, BrowserTypes
<1>3. TokenInv'
  BY <1>1 DEF CInv, TokenInv, ChallengeOK, VerifiedOK
<1>4. SolvedByItsClient'
  BY <1>1 DEF CInv, SolvedByItsClient
<1>5. QED
  BY <1>2, <1>3, <1>4 DEF CInv

\* A key is generated and the file created; it had no key before.
LEMMA StartFirstPreserves == ASSUME CInv, StartFirst PROVE CInv'
<1>1. /\ proc = "down" /\ jwks.state = "absent" /\ generated < MaxKeys
      /\ generated' = generated + 1 /\ signing_key' = generated'
      /\ jwks' = [state |-> "torn", keys |-> <<>>] /\ proc' = "saving"
      /\ UNCHANGED <<verifying_keys, retired, crashes>> /\ UNCHANGED <<time, browser>>
  BY DEF StartFirst
<1>2. generated \in 0..MaxKeys /\ generated' \in 1..MaxKeys
  BY <1>1, Bounds DEF CInv, TypeInv, FileTypes
<1>3. jwks'.keys = <<>> /\ jwks'.state = "torn" /\ <<>> \in Seq(1..MaxKeys)
  BY <1>1
<1>4. FileTypes'
  BY <1>1, <1>2, <1>3, Bounds DEF CInv, TypeInv, FileTypes
<1>5. FileInv'
  BY <1>1, <1>2, <1>3 DEF FileInv, SigningKeyIsDurable
<1>6. jwks.keys = <<>>
  BY <1>1 DEF CInv, FileInv
<1>7. KnownKeys' = KnownKeys
  BY <1>1, <1>3, <1>6 DEF KnownKeys, FileKeys
<1>8. QED
  BY <1>1, <1>4, <1>5, <1>7, FileStepPreserves

\* The new key is in the file before Pingoo serves.
LEMMA SavePreserves == ASSUME CInv, save_jwt_keys PROVE CInv'
<1>1. /\ proc = "saving" /\ jwks' = [state |-> "keys", keys |-> <<signing_key>>]
      /\ verifying_keys' = {signing_key} /\ proc' = "up"
      /\ UNCHANGED <<signing_key, generated, retired, crashes>> /\ UNCHANGED <<time, browser>>
  BY DEF save_jwt_keys
<1>2. signing_key \in 1..MaxKeys /\ jwks.keys = <<>>
  BY <1>1 DEF CInv, FileInv
<1>3. /\ jwks'.state = "keys" /\ jwks'.keys = <<signing_key>> /\ <<signing_key>> \in Seq(1..MaxKeys)
      /\ <<signing_key>> # <<>> /\ Head(<<signing_key>>) = signing_key
      /\ DOMAIN <<signing_key>> = {1} /\ <<signing_key>>[1] = signing_key
  BY <1>1, <1>2
<1>4. FileTypes'
  BY <1>1, <1>2, <1>3 DEF CInv, TypeInv, FileTypes
<1>5. FileInv'
  BY <1>1, <1>2, <1>3 DEF FileInv, SigningKeyIsDurable
<1>6. KnownKeys \subseteq KnownKeys'
  BY <1>1, <1>2 DEF KnownKeys, FileKeys
<1>7. QED
  BY <1>1, <1>4, <1>5, <1>6, FileStepPreserves

\* The keys are read from the file.
LEMMA StartAgainPreserves == ASSUME CInv, StartAgain PROVE CInv'
<1>1. /\ proc = "down" /\ jwks.state # "absent"
      /\ UNCHANGED <<jwks, generated, retired, crashes>> /\ UNCHANGED <<time, browser>>
      /\ \/ /\ Len(jwks.keys) = 0 /\ proc' = "failed" /\ UNCHANGED <<signing_key, verifying_keys>>
         \/ /\ Len(jwks.keys) # 0 /\ proc' = "up" /\ signing_key' = Head(jwks.keys)
            /\ verifying_keys' = FileKeys
  BY DEF StartAgain, FileKeys
<1>2. KnownKeys' = KnownKeys /\ FileKeys' = FileKeys
  BY <1>1 DEF KnownKeys, FileKeys
<1>3. jwks.keys \in Seq(1..MaxKeys) /\ (jwks.state = "keys" <=> jwks.keys # <<>>)
  BY DEF CInv, TypeInv, FileTypes, FileInv
<1>4. CASE Len(jwks.keys) = 0 /\ proc' = "failed" /\ UNCHANGED <<signing_key, verifying_keys>>
  <2>1. jwks.keys = <<>>
    BY <1>3, <1>4
  <2>2. FileTypes' /\ FileInv'
    BY <1>1, <1>3, <1>4, <2>1 DEF CInv, TypeInv, FileTypes, FileInv, SigningKeyIsDurable
  <2>3. QED
    BY <1>1, <1>2, <2>2, FileStepPreserves
<1>5. CASE Len(jwks.keys) # 0 /\ proc' = "up" /\ signing_key' = Head(jwks.keys) /\ verifying_keys' = FileKeys
  <2>1. jwks.keys # <<>> /\ 1 \in DOMAIN jwks.keys /\ Head(jwks.keys) = jwks.keys[1]
    BY <1>3, <1>5
  <2>2. \A n \in DOMAIN jwks.keys : jwks.keys[n] \in 1..MaxKeys
    BY <1>3, SeqElement
  <2>3. signing_key' \in 1..MaxKeys /\ verifying_keys' \subseteq 1..MaxKeys
    BY <1>5, <2>1, <2>2 DEF FileKeys
  <2>4. FileTypes'
    BY <1>1, <1>5, <2>3, Bounds DEF CInv, TypeInv, FileTypes
  <2>5. FileInv'
    BY <1>1, <1>3, <1>5, <2>1 DEF FileInv, SigningKeyIsDurable, FileKeys
  <2>6. QED
    BY <1>1, <1>2, <2>4, <2>5, FileStepPreserves
<1>6. QED
  BY <1>1, <1>4, <1>5

\* A new first key, or the last key retired: no key of a token is forgotten.
LEMMA RotateKeysPreserves == ASSUME CInv, RotateKeys PROVE CInv'
<1> DEFINE k == jwks.keys
<1>1. /\ proc = "down" /\ jwks.state = "keys" /\ UNCHANGED <<time, browser>>
      /\ UNCHANGED <<proc, signing_key, verifying_keys, crashes>>
  BY DEF RotateKeys
<1>2. /\ jwks \in [state : {"absent", "torn", "keys"}, keys : Seq(1..MaxKeys)]
      /\ k \in Seq(1..MaxKeys) /\ k # <<>> /\ generated \in 0..MaxKeys /\ retired \subseteq 1..MaxKeys
  BY <1>1 DEF CInv, TypeInv, FileTypes, FileInv
<1>3. CASE /\ generated < MaxKeys /\ generated' = generated + 1 /\ retired' = retired
           /\ jwks' = [jwks EXCEPT !.keys = <<generated'>> \o @]
  <2>1. generated' \in 1..MaxKeys
    BY <1>2, <1>3, Bounds
  <2>2. jwks'.state = "keys" /\ jwks'.keys = <<generated'>> \o k
    BY <1>1, <1>2, <1>3
  <2> HIDE DEF k
  <2>3. /\ <<generated'>> \o k \in Seq(1..MaxKeys) /\ <<generated'>> \o k # <<>>
        /\ \A n \in DOMAIN k : n + 1 \in DOMAIN (<<generated'>> \o k) /\ (<<generated'>> \o k)[n + 1] = k[n]
    BY <1>2, <2>1
  <2>4. jwks' \in [state : {"absent", "torn", "keys"}, keys : Seq(1..MaxKeys)]
    BY <1>2, <1>3, <2>2, <2>3 DEF k
  <2>5. FileTypes'
    BY <1>1, <1>2, <1>3, <2>1, <2>4 DEF CInv, TypeInv, FileTypes
  <2>6. FileInv'
    BY <1>1, <2>2, <2>3 DEF FileInv, SigningKeyIsDurable
  <2>7. KnownKeys \subseteq KnownKeys'
    <3>1. \A n \in DOMAIN jwks.keys : n + 1 \in DOMAIN jwks'.keys /\ jwks'.keys[n + 1] = jwks.keys[n]
      BY <2>2, <2>3 DEF k
    <3>2. FileKeys \subseteq FileKeys'
      BY <3>1 DEF FileKeys
    <3>3. QED
      BY <1>3, <3>2 DEF KnownKeys
  <2>8. QED
    BY <1>1, <2>5, <2>6, <2>7, FileStepPreserves
<1>4. CASE /\ Len(k) > 1 /\ jwks' = [jwks EXCEPT !.keys = SubSeq(@, 1, Len(@) - 1)]
           /\ retired' = retired \cup {k[Len(k)]} /\ generated' = generated
  <2> DEFINE s == SubSeq(k, 1, Len(k) - 1)
  <2>1. jwks'.state = "keys" /\ jwks'.keys = s
    BY <1>1, <1>2, <1>4
  <2>2. /\ s \in Seq(1..MaxKeys) /\ s # <<>> /\ k[Len(k)] \in 1..MaxKeys
        /\ \A n \in DOMAIN k : (n \in DOMAIN s /\ s[n] = k[n]) \/ n = Len(k)
    BY <1>2, <1>4, ButLast
  <2> HIDE DEF s
  <2>3. jwks' \in [state : {"absent", "torn", "keys"}, keys : Seq(1..MaxKeys)]
    BY <1>2, <1>4, <2>1, <2>2
  <2>4. FileTypes'
    BY <1>1, <1>2, <1>4, <2>2, <2>3 DEF CInv, TypeInv, FileTypes
  <2>5. FileInv'
    BY <1>1, <2>1, <2>2 DEF FileInv, SigningKeyIsDurable
  <2>6. KnownKeys \subseteq KnownKeys'
    BY <1>4, <2>1, <2>2 DEF KnownKeys, FileKeys
  <2>7. QED
    BY <1>1, <2>4, <2>5, <2>6, FileStepPreserves
<1>5. QED
  BY <1>3, <1>4 DEF RotateKeys

\* Only a file without a key is deleted.
LEMMA DeleteJwksPreserves == ASSUME CInv, DeleteJwks PROVE CInv'
<1>1. /\ proc = "failed" /\ jwks' = [state |-> "absent", keys |-> <<>>] /\ proc' = "down"
      /\ UNCHANGED <<signing_key, verifying_keys, generated, retired, crashes>>
      /\ UNCHANGED <<time, browser>>
  BY DEF DeleteJwks
<1>2. jwks.keys = <<>> /\ jwks'.keys = <<>> /\ jwks'.state = "absent" /\ <<>> \in Seq(1..MaxKeys)
  BY <1>1 DEF CInv, FileInv
<1>3. FileTypes'
  BY <1>1, <1>2 DEF CInv, TypeInv, FileTypes
<1>4. FileInv'
  BY <1>1, <1>2 DEF FileInv, SigningKeyIsDurable
<1>5. KnownKeys' = KnownKeys
  BY <1>1, <1>2 DEF KnownKeys, FileKeys
<1>6. QED
  BY <1>1, <1>3, <1>4, <1>5, FileStepPreserves

\* A crash breaks the requests in flight and nothing else.
LEMMA CrashPreserves == ASSUME CInv, Crash PROVE CInv'
<1>1. /\ proc' = "down" /\ crashes < MaxCrashes /\ crashes' = crashes + 1
      /\ tab' = [t \in Tabs |-> Broken(tab[t])]
      /\ UNCHANGED <<jwks, signing_key, verifying_keys, generated, retired, time, client, jar, solved, moves>>
  BY DEF Crash
<1>2. UNCHANGED <<now, skew>> /\ KnownKeys' = KnownKeys
  BY <1>1 DEF time, KnownKeys, FileKeys
<1>3. FileTypes' /\ TimeTypes'
  BY <1>1, <1>2, Bounds DEF CInv, TypeInv, FileTypes, TimeTypes
<1>4. ASSUME NEW t \in Tabs
      PROVE  /\ Broken(tab[t]) \in TabState
             /\ Broken(tab[t]).pc # "checked"
             /\ Broken(tab[t]).token \in {NoCookie, tab[t].token}
  <2>1. tab[t] \in TabState /\ NoCookie \in Cookie("challenge")
    BY DEF CInv, TypeInv, BrowserTypes, Cookie
  <2>2. QED
    BY <2>1 DEF TabState, TabStates, Broken
<1>5. tab' \in [Tabs -> TabState] /\ \A t \in Tabs : tab'[t] = Broken(tab[t])
  BY <1>1, <1>4
<1>6. TypeInv'
  BY <1>1, <1>3, <1>5 DEF CInv, TypeInv, BrowserTypes
<1>7. FileInv'
  BY <1>1 DEF CInv, FileInv, SigningKeyIsDurable
<1>8. TokenInv'
  BY <1>1, <1>2, <1>4, <1>5 DEF CInv, TokenInv, ChallengeOK, VerifiedOK
<1>9. QED
  BY <1>1, <1>6, <1>7, <1>8 DEF CInv, SolvedByItsClient

-----------------------------------------------------------------------------
(* The browser and the captcha API. *)

\* A tab that goes to a state with an honest token, nothing else changing.
LEMMA GotoPreserves ==
    ASSUME CInv, NEW t \in Tabs, NEW s \in TabState, Goto(t, s),
           ChallengeOK(s.token), s.pc = "checked" => s.token # NoCookie,
           UNCHANGED <<pingoo, time, client, jar, solved, moves>>
    PROVE  CInv'
<1>1. UNCHANGED <<jwks, proc, signing_key, verifying_keys, generated, retired, crashes,
                  now, skew, client, jar, solved, moves>>
  BY DEF pingoo, time
<1>2. KnownKeys' = KnownKeys
  BY <1>1 DEF KnownKeys, FileKeys
<1>3. /\ tab' \in [Tabs -> TabState] /\ tab'[t] = s /\ \A u \in Tabs : u # t => tab'[u] = tab[u]
  BY DEF Goto, CInv, TypeInv, BrowserTypes
<1>4. TypeInv'
  BY <1>1, <1>3 DEF CInv, TypeInv, FileTypes, TimeTypes, BrowserTypes
<1>5. FileInv' /\ SolvedByItsClient'
  BY <1>1 DEF CInv, FileInv, SigningKeyIsDurable, SolvedByItsClient
<1>6. TokenInv'
  BY <1>1, <1>2, <1>3 DEF CInv, TokenInv, ChallengeOK, VerifiedOK
<1>7. QED
  BY <1>4, <1>5, <1>6 DEF CInv

\* An idle tab carries no token.
LEMMA IdleFacts ==
    ASSUME CInv, NEW p \in TabStates \ {"checked"}
    PROVE  /\ [Idle EXCEPT !.pc = p] \in TabState /\ [Idle EXCEPT !.pc = p].token = NoCookie
           /\ [Idle EXCEPT !.pc = p].pc = p
           /\ Idle \in TabState /\ Idle.token = NoCookie /\ Idle.pc = "browse"
<1>1. client \in ClientIds /\ NoChallenge \in Challenge /\ NoCookie \in Cookie("challenge")
  BY DEF CInv, TypeInv, BrowserTypes, Challenge, Cookie
<1>2. "browse" \in TabStates
  BY DEF TabStates
<1>3. QED
  BY <1>1, <1>2 DEF Idle, TabState

\* What api_init makes of a tab.
LEMMA TabSolving ==
    ASSUME NEW x \in TabState, NEW ch \in Challenge
    PROVE  LET s == [x EXCEPT !.pc = "solving", !.challenge = ch]
           IN s \in TabState /\ s.token = x.token /\ s.pc = "solving"
<1>1. "solving" \in TabStates
  BY DEF TabStates
<1>2. QED
  BY <1>1 DEF TabState

\* What posting the proof of work makes of it.
LEMMA TabVerifying ==
    ASSUME NEW x \in TabState, NEW c \in Cookie("challenge"), NEW id \in ClientIds
    PROVE  LET s == [x EXCEPT !.pc = "verify", !.client = id, !.token = c]
           IN s \in TabState /\ s.token = c /\ s.pc = "verify"
<1>1. "verify" \in TabStates
  BY DEF TabStates
<1>2. QED
  BY <1>1 DEF TabState

\* The steps of a tab that change neither cookies nor what was solved.
LEMMA TabOnlyPreserves ==
    ASSUME CInv, NEW t \in Tabs,
           \/ Visit(t) \/ onCheckboxClicked(t) \/ InitFails(t) \/ proofOfWork(t) \/ api_verify(t)
    PROVE  CInv'
<1>1. /\ tab[t] \in TabState /\ ChallengeOK(tab[t].token) /\ ChallengeOK(jar.challenge)
      /\ jar.challenge \in Cookie("challenge") /\ tab[t].token \in Cookie("challenge")
  BY DEF CInv, TypeInv, BrowserTypes, TokenInv, TabState
<1>2. /\ tab[t].pc \in TabStates /\ client \in ClientIds /\ NoCookie \in Cookie("challenge")
      /\ tab[t].challenge \in Challenge /\ tab[t].client \in ClientIds
  BY <1>1 DEF TabState, CInv, TypeInv, BrowserTypes, Cookie
<1>3. \A p \in TabStates \ {"checked"} :
         /\ [Idle EXCEPT !.pc = p] \in TabState /\ [Idle EXCEPT !.pc = p].token = NoCookie
         /\ [Idle EXCEPT !.pc = p].pc = p
         /\ Idle \in TabState /\ Idle.token = NoCookie /\ Idle.pc = "browse"
  BY IdleFacts
<1>4. UNCHANGED <<pingoo, time, client, jar, solved, moves>>
  BY DEF Visit, onCheckboxClicked, InitFails, proofOfWork, api_verify
<1>5. ChallengeOK(NoCookie)
  BY DEF ChallengeOK
<1>6. ASSUME NEW p \in TabStates \ {"checked"}, Goto(t, [Idle EXCEPT !.pc = p])
      PROVE  CInv'
  BY <1>3, <1>4, <1>5, <1>6, GotoPreserves
<1>7. CASE Visit(t) \/ onCheckboxClicked(t) \/ InitFails(t)
  BY <1>6, <1>7 DEF Visit, onCheckboxClicked, InitFails, TabStates
<1>8. CASE proofOfWork(t)
  <2>1. CASE Goto(t, [tab[t] EXCEPT !.pc = "error"])
    <3> DEFINE s == [tab[t] EXCEPT !.pc = "error"]
    <3>1. s \in TabState /\ s.token = tab[t].token /\ s.pc = "error"
      BY <1>1 DEF TabState, TabStates
    <3> HIDE DEF s
    <3>2. Goto(t, s)
      BY <2>1 DEF s
    <3>3. QED
      BY <1>1, <1>4, <3>1, <3>2, GotoPreserves
  <2>2. CASE Goto(t, [tab[t] EXCEPT !.pc = "verify", !.client = client,
                        !.token = IF Live(jar.challenge) THEN jar.challenge ELSE NoCookie])
    <3> DEFINE c == IF Live(jar.challenge) THEN jar.challenge ELSE NoCookie
               s == [tab[t] EXCEPT !.pc = "verify", !.client = client, !.token = c]
    <3>1. c \in Cookie("challenge") /\ ChallengeOK(c)
      BY <1>1, <1>2, <1>5
    <3>2. Goto(t, s)
      BY <2>2
    <3> HIDE DEF c
    <3>3. s \in TabState /\ s.token = c /\ s.pc = "verify"
      BY <1>1, <1>2, <3>1, TabVerifying
    <3> HIDE DEF s
    <3>4. QED
      BY <1>4, <3>1, <3>2, <3>3, GotoPreserves
  <2>3. QED
    BY <1>8, <2>1, <2>2 DEF proofOfWork
<1>9. CASE api_verify(t)
  <2>1. CASE tab[t].token.typ # "none" /\ Goto(t, [tab[t] EXCEPT !.pc = "checked"])
    <3> DEFINE s == [tab[t] EXCEPT !.pc = "checked"]
    <3>1. s \in TabState /\ s.token = tab[t].token
      BY <1>1 DEF TabState, TabStates
    <3>2. s.token # NoCookie
      BY <2>1, <3>1 DEF NoCookie
    <3>3. Goto(t, s)
      BY <2>1
    <3> HIDE DEF s
    <3>4. QED
      BY <1>1, <1>4, <3>1, <3>2, <3>3, GotoPreserves
  <2>2. CASE Goto(t, Idle)
    <3>1. Idle \in TabState /\ Idle.token = NoCookie /\ Idle.pc = "browse"
      <4>1. "error" \in TabStates \ {"checked"}
        BY DEF TabStates
      <4>2. QED
        BY <1>3, <4>1
    <3>2. QED
      BY <1>4, <1>5, <2>2, <3>1, GotoPreserves
  <2>3. QED
    BY <1>9, <2>1, <2>2 DEF api_verify
<1>10. QED
  BY <1>7, <1>8, <1>9

\* A challenge is handed out to the client that asked for it.
LEMMA ApiInitPreserves ==
    ASSUME CInv, NEW t \in Tabs, api_init(t)
    PROVE  CInv'
<1> DEFINE id == tab[t].client
           ch == <<id, Fresh>>
           c == generate_captcha_cookie(id, ch)
           s == [tab[t] EXCEPT !.pc = "solving", !.challenge = ch]
<1>1. /\ proc = "up" /\ jar' = [jar EXCEPT !.challenge = c] /\ tab' = [tab EXCEPT ![t] = s]
      /\ UNCHANGED <<jwks, proc, signing_key, verifying_keys, generated, retired, crashes,
                     now, skew, client, solved, moves>>
  BY DEF api_init, Goto, pingoo, time
<1>2. /\ tab \in [Tabs -> TabState] /\ tab[t] \in TabState /\ id \in ClientIds
      /\ jar \in [challenge : Cookie("challenge"), verified : Cookie("verified")]
      /\ ChallengeOK(tab[t].token)
  BY DEF CInv, TypeInv, BrowserTypes, TabState, TokenInv
<1>3. Fresh \in 1..MaxChallenges
  BY FreshExists DEF CInv
<1>4. signing_key \in 1..MaxKeys /\ signing_key \in KnownKeys
  BY <1>1, SigningKeyFacts DEF CInv
<1>5. /\ c \in Cookie("challenge") /\ c.kid = signing_key
      /\ c.challenge # NoChallenge /\ c.challenge[1] = c.sub
  BY <1>2, <1>3, <1>4, ChallengeCookie DEF CInv, TypeInv
<1>6. ch \in Challenge
  BY <1>2, <1>3 DEF Challenge
<1> HIDE DEF c, ch, id
<1>7. s \in TabState /\ s.token = tab[t].token /\ s.pc = "solving"
  BY <1>2, <1>6, TabSolving
<1> HIDE DEF s
<1>8. /\ jar' \in [challenge : Cookie("challenge"), verified : Cookie("verified")]
      /\ jar'.challenge = c /\ jar'.verified = jar.verified
  BY <1>1, <1>2, <1>5
<1>9. tab' \in [Tabs -> TabState] /\ tab'[t] = s /\ \A u \in Tabs : u # t => tab'[u] = tab[u]
  BY <1>1, <1>2, <1>7
<1>10. TypeInv'
  BY <1>1, <1>8, <1>9 DEF CInv, TypeInv, FileTypes, TimeTypes, BrowserTypes
<1>11. FileInv' /\ SolvedByItsClient' /\ KnownKeys' = KnownKeys
  BY <1>1 DEF CInv, FileInv, SigningKeyIsDurable, SolvedByItsClient, KnownKeys, FileKeys
<1>12. TokenInv'
  <2>1. ChallengeOK(jar.challenge)'
    BY <1>4, <1>5, <1>8, <1>11 DEF ChallengeOK
  <2>2. VerifiedOK(jar.verified)'
    BY <1>1, <1>8, <1>11 DEF CInv, TokenInv, VerifiedOK
  <2>3. ASSUME NEW u \in Tabs
        PROVE  ChallengeOK(tab[u].token)' /\ (tab'[u].pc = "checked" => tab'[u].token # NoCookie)
    <3>1. CASE u = t
      BY <1>2, <1>7, <1>9, <1>11, <3>1 DEF ChallengeOK
    <3>2. CASE u # t
      BY <1>9, <1>11, <3>2 DEF CInv, TokenInv, ChallengeOK
    <3>3. QED
      BY <3>1, <3>2
  <2>4. QED
    BY <2>1, <2>2, <2>3 DEF TokenInv
<1>13. QED
  BY <1>10, <1>11, <1>12 DEF CInv

\* A verified token is handed out to the client the challenge was made for.
LEMMA ApiVerifyBodyPreserves ==
    ASSUME CInv, NEW t \in Tabs, api_verify_body(t)
    PROVE  CInv'
<1> DEFINE id == tab[t].client
           tok == tab[t].token
           v == generate_captcha_verified_cookies(id)
<1>1. /\ proc = "up" /\ tab[t].pc = "checked" /\ Goto(t, Idle)
      /\ UNCHANGED <<pingoo, time, client, moves>>
  BY DEF api_verify_body
<1>2. Idle \in TabState /\ Idle.token = NoCookie /\ Idle.pc = "browse"
  <2>1. "error" \in TabStates \ {"checked"}
    BY DEF TabStates
  <2>2. QED
    BY <2>1, IdleFacts
<1>3. CASE ~Solves(t)
  <2>1. UNCHANGED <<pingoo, time, client, jar, solved, moves>>
    BY <1>1, <1>3 DEF api_verify_body
  <2>2. ChallengeOK(Idle.token)
    BY <1>2 DEF ChallengeOK
  <2>3. QED
    BY <1>1, <1>2, <2>1, <2>2, GotoPreserves
<1>4. CASE Solves(t)
  <2>1. /\ jar' = [challenge |-> NoCookie, verified |-> v]
        /\ solved' = [solved EXCEPT ![id] = [at |-> now, handed_to |-> tok.challenge[1]]]
        /\ tok.sub = id
    BY <1>4 DEF api_verify_body, Solves
  <2>2. UNCHANGED <<jwks, proc, signing_key, verifying_keys, generated, retired, crashes,
                    now, skew, client, moves>>
    BY <1>1 DEF pingoo, time
  <2>3. /\ tab \in [Tabs -> TabState] /\ tab[t] \in TabState /\ id \in ClientIds
        /\ solved \in [ClientIds -> [at : -1..MaxNow, handed_to : ClientIds]]
        /\ ChallengeOK(tok) /\ tok # NoCookie
    BY <1>1 DEF CInv, TypeInv, BrowserTypes, TabState, TokenInv
  <2>4. tok.challenge[1] = id
    BY <2>1, <2>3 DEF ChallengeOK
  <2>5. signing_key \in 1..MaxKeys /\ signing_key \in KnownKeys
    BY <1>1, SigningKeyFacts DEF CInv
  <2>6. /\ v \in Cookie("verified") /\ v.kid = signing_key /\ v.sub = id
        /\ v.nbf = Utc_now /\ v.exp = Utc_now + VerifiedTtl
        /\ v.expires = Utc_now + VerifiedTtl - Margin
    BY <2>3, <2>5, VerifiedCookie DEF CInv, TypeInv
  <2> HIDE DEF v, id, tok
  <2>7. now \in Nat /\ now \in 0..MaxNow /\ skew \in 0..MaxSkew /\ MaxSkew \in Nat /\ MaxNow \in Nat
    BY Bounds DEF CInv, TypeInv, TimeTypes
  <2>8. /\ solved' \in [ClientIds -> [at : -1..MaxNow, handed_to : ClientIds]]
        /\ solved'[id] = [at |-> now, handed_to |-> id]
        /\ \A c \in ClientIds : c # id => solved'[c] = solved[c]
    <3>1. [at |-> now, handed_to |-> id] \in [at : -1..MaxNow, handed_to : ClientIds]
      BY <2>3, <2>7
    <3>2. QED
      BY <2>1, <2>3, <2>4, <3>1
  <2>9. /\ jar' \in [challenge : Cookie("challenge"), verified : Cookie("verified")]
        /\ jar'.challenge = NoCookie /\ jar'.verified = v
    BY <2>1, <2>6 DEF Cookie
  <2>10. tab' \in [Tabs -> TabState] /\ tab'[t] = Idle /\ \A u \in Tabs : u # t => tab'[u] = tab[u]
    BY <1>1, <1>2, <2>3 DEF Goto
  <2>11. TypeInv'
    BY <2>2, <2>8, <2>9, <2>10 DEF CInv, TypeInv, FileTypes, TimeTypes, BrowserTypes
  <2>12. FileInv' /\ KnownKeys' = KnownKeys
    BY <2>2 DEF CInv, FileInv, SigningKeyIsDurable, KnownKeys, FileKeys
  <2>13. SolvedByItsClient'
    BY <2>3, <2>8 DEF CInv, SolvedByItsClient
  <2>14. TokenInv'
    <3>1. ChallengeOK(jar.challenge)'
      BY <2>9 DEF ChallengeOK
    <3>2. VerifiedOK(jar.verified)'
      <4>1. jar'.verified.kid \in KnownKeys' /\ solved'[jar'.verified.sub].at = now
        BY <2>5, <2>6, <2>8, <2>9, <2>12
      <4>2. jar'.verified.nbf = now + skew /\ jar'.verified.exp = now + skew + VerifiedTtl
            /\ jar'.verified.expires = now + skew + VerifiedTtl - Margin
        BY <2>6, <2>9 DEF Utc_now
      <4>3. QED
        BY <2>2, <2>7, <4>1, <4>2, Bounds DEF VerifiedOK
    <3>3. \A u \in Tabs : /\ ChallengeOK(tab[u].token)'
                          /\ tab'[u].pc = "checked" => tab'[u].token # NoCookie
      BY <1>2, <2>10, <2>12 DEF CInv, TokenInv, ChallengeOK
    <3>4. QED
      BY <3>1, <3>2, <3>3 DEF TokenInv
  <2>15. QED
    BY <2>11, <2>12, <2>13, <2>14 DEF CInv
<1>5. QED
  BY <1>3, <1>4

-----------------------------------------------------------------------------
(* Invariance. *)

\* Time passes, the wall clock is adjusted, the browser moves.
LEMMA EnvironmentPreserves ==
    ASSUME CInv, TickCaptcha \/ AdjustClock \/ Move
    PROVE  CInv'
<1>1. /\ UNCHANGED <<jwks, proc, signing_key, verifying_keys, generated, retired, crashes,
                     jar, tab, solved>>
      /\ now' \in 0..MaxNow /\ now <= now' /\ skew' \in 0..MaxSkew
      /\ client' \in ClientIds /\ moves' \in 0..MaxMoves
  BY Bounds DEF TickCaptcha, AdjustClock, Move, pingoo, time, browser,
                CInv, TypeInv, TimeTypes, BrowserTypes
<1>2. TypeInv'
  BY <1>1 DEF CInv, TypeInv, FileTypes, TimeTypes, BrowserTypes
<1>3. FileInv' /\ SolvedByItsClient' /\ KnownKeys' = KnownKeys
  BY <1>1 DEF CInv, FileInv, SigningKeyIsDurable, SolvedByItsClient, KnownKeys, FileKeys
<1>4. VerifiedOK(jar.verified)'
  <2> SUFFICES ASSUME jar.verified # NoCookie PROVE VerifiedOK(jar.verified)'
    BY <1>1 DEF VerifiedOK
  <2>1. jar.verified \in Token("verified")
    BY CookieFacts DEF CInv, TypeInv, BrowserTypes
  <2>2. solved[jar.verified.sub].at \in Int /\ now \in Int /\ now' \in Int
    BY <1>1, <2>1, Bounds DEF Token, CInv, TypeInv, TimeTypes, BrowserTypes
  <2>3. QED
    BY <1>1, <1>3, <2>2 DEF CInv, TokenInv, VerifiedOK
<1>5. TokenInv'
  BY <1>1, <1>3, <1>4 DEF CInv, TokenInv, ChallengeOK
<1>6. QED
  BY <1>2, <1>3, <1>5 DEF CInv

\* A first start of Pingoo, with an empty folder and no cookies, satisfies the invariant.
LEMMA CaptchaInitEstablishes == CaptchaInit => CInv
<1> SUFFICES ASSUME CaptchaInit PROVE CInv
  OBVIOUS
<1>1. jwks.state = "absent" /\ jwks.keys = <<>> /\ <<>> \in Seq(1..MaxKeys)
  BY DEF CaptchaInit
<1>2. FileTypes /\ TimeTypes
  BY <1>1, Bounds DEF CaptchaInit, FileTypes, TimeTypes
<1>3. Idle \in TabState /\ Idle.token = NoCookie /\ Idle.pc = "browse"
  <2>1. client \in ClientIds /\ NoChallenge \in Challenge /\ NoCookie \in Cookie("challenge")
    BY DEF CaptchaInit, Challenge, Cookie
  <2>2. QED
    BY <2>1 DEF Idle, TabState, TabStates
<1>4. jar.challenge = NoCookie /\ jar.verified = NoCookie
  BY DEF CaptchaInit
<1>5. BrowserTypes
  <2>1. jar \in [challenge : Cookie("challenge"), verified : Cookie("verified")]
    BY DEF CaptchaInit, Cookie
  <2>2. \A c \in ClientIds : [at |-> -1, handed_to |-> c] \in [at : -1..MaxNow, handed_to : ClientIds]
    BY Bounds
  <2>3. QED
    BY <1>3, <2>1, <2>2, Bounds DEF CaptchaInit, BrowserTypes
<1>6. FileInv
  BY <1>1 DEF CaptchaInit, FileInv, SigningKeyIsDurable
<1>7. TokenInv /\ SolvedByItsClient
  BY <1>3, <1>4 DEF CaptchaInit, TokenInv, ChallengeOK, VerifiedOK, SolvedByItsClient
<1>8. QED
  BY <1>2, <1>5, <1>6, <1>7 DEF CInv, TypeInv

\* Every step of the server, the page, the clock and the file system keeps the invariant.
LEMMA CaptchaNextPreserves == CInv /\ [CaptchaNext]_captchaVars => CInv'
<1> SUFFICES ASSUME CInv, [CaptchaNext]_captchaVars PROVE CInv'
  OBVIOUS
<1>1. CASE StartFirst \/ save_jwt_keys \/ StartAgain \/ Crash \/ RotateKeys \/ DeleteJwks
  BY <1>1, StartFirstPreserves, SavePreserves, StartAgainPreserves, CrashPreserves,
     RotateKeysPreserves, DeleteJwksPreserves
<1>2. ASSUME NEW t \in Tabs, TabStep(t) PROVE CInv'
  BY <1>2, TabOnlyPreserves, ApiInitPreserves, ApiVerifyBodyPreserves DEF TabStep
<1>3. CASE TickCaptcha \/ AdjustClock \/ Move
  BY <1>3, EnvironmentPreserves
<1>4. CASE UNCHANGED captchaVars
  <2>1. UNCHANGED <<time, browser>> /\ UNCHANGED <<jwks, proc, signing_key, verifying_keys, generated, retired, crashes>>
    BY <1>4 DEF captchaVars, pingoo, time, browser
  <2>2. FileTypes' /\ FileInv' /\ KnownKeys' = KnownKeys
    BY <2>1 DEF CInv, TypeInv, FileTypes, FileInv, SigningKeyIsDurable, KnownKeys, FileKeys
  <2>3. QED
    BY <2>1, <2>2, FileStepPreserves
<1>5. QED
  BY <1>1, <1>2, <1>3, <1>4 DEF CaptchaNext

\* Keys, tokens and what was solved stay in step in every reachable state.
THEOREM CaptchaInvariant == CaptchaSpec => []CInv
BY CaptchaInitEstablishes, CaptchaNextPreserves, PTL DEF CaptchaSpec

\* Every variable keeps its type; a cookie only ever holds its own kind of token.
THEOREM CaptchaTypeCorrect == CaptchaSpec => []CaptchaTypeOK
<1>1. CInv => CaptchaTypeOK
  BY DEF CInv, TypeInv, FileTypes, TimeTypes, BrowserTypes, TabState, CaptchaTypeOK
<1>2. QED
  BY <1>1, CaptchaInvariant, PTL

\* Tokens are only signed with a key that is in the JWKS file, across crashes
\* at any moment, failed starts and rotations.
THEOREM KeysAreDurable == CaptchaSpec => []SigningKeyIsDurable
<1>1. CInv => SigningKeyIsDurable
  BY DEF CInv, FileInv
<1>2. QED
  BY <1>1, CaptchaInvariant, PTL

\* A challenge is only solved by the client it was handed to.
THEOREM ChallengesAreBound == CaptchaSpec => []SolvedByItsClient
<1>1. CInv => SolvedByItsClient
  BY DEF CInv
<1>2. QED
  BY <1>1, CaptchaInvariant, PTL

\* The verified token of the jar, with its fields as numbers.
LEMMA JarFacts ==
    ASSUME CInv, jar.verified # NoCookie
    PROVE  LET c == jar.verified
               at == solved[c.sub].at
           IN /\ c.typ = "verified" /\ c.kid \in KnownKeys
              /\ at \in Int /\ c.nbf \in Nat /\ c.exp \in Nat /\ c.expires \in Int
              /\ 0 <= at /\ at <= now /\ at <= c.nbf /\ c.nbf <= at + MaxSkew
              /\ c.exp = c.nbf + VerifiedTtl /\ c.expires = c.exp - Margin
              /\ now \in Nat /\ skew \in Nat /\ skew <= MaxSkew
<1>1. jar.verified \in Token("verified") /\ jar.verified.typ = "verified"
  BY CookieFacts DEF CInv, TypeInv, BrowserTypes
<1>2. /\ jar.verified.sub \in ClientIds /\ jar.verified.nbf \in Nat /\ jar.verified.exp \in Nat
      /\ jar.verified.expires \in Int
  BY <1>1 DEF Token
<1>3. solved[jar.verified.sub].at \in Int /\ now \in Nat /\ skew \in Nat /\ skew <= MaxSkew
  BY <1>2, Bounds DEF CInv, TypeInv, TimeTypes, BrowserTypes
<1>4. QED
  BY <1>1, <1>2, <1>3 DEF CInv, TokenInv, VerifiedOK

\* Whoever is let through has solved a challenge as the client it is now, no
\* longer ago than the lifetime of the token plus what clocks may differ.
THEOREM AcceptanceIsEarned == CaptchaSpec => []AcceptedHasSolved
<1>1. CInv => AcceptedHasSolved
  <2> SUFFICES ASSUME CInv, proc = "up", Accepted
               PROVE  /\ solved[client].at >= 0
                      /\ now - solved[client].at <= VerifiedTtl + Drift + MaxSkew
    BY DEF AcceptedHasSolved
  <2>1. jar.verified # NoCookie /\ jar.verified.sub = client /\ ~(jar.verified.exp < Utc_now - Drift)
    BY DEF Accepted, NoCookie, validate_captcha_verified_cookie, parse_and_verify
  <2>2. QED
    BY <2>1, JarFacts, Bounds DEF Utc_now
<1>2. QED
  BY <1>1, CaptchaInvariant, PTL

\* A verified cookie that the browser still sends is accepted, unless its key
\* was retired: the cookie expires first, and the drift covers the skew.
THEOREM SentCookiesAreAccepted == CaptchaSpec => []LiveCookieIsAccepted
<1>1. CInv => LiveCookieIsAccepted
  <2> SUFFICES ASSUME CInv, proc = "up", Live(jar.verified), jar.verified.sub = client,
                      jar.verified.kid \notin retired
               PROVE  Accepted
    BY DEF LiveCookieIsAccepted
  <2>1. jar.verified.typ # "none" /\ now < jar.verified.expires /\ jar.verified # NoCookie
    BY DEF Live, NoCookie
  <2>2. jar.verified.kid \in verifying_keys
    <3>1. verifying_keys = FileKeys
      BY DEF CInv, FileInv, SigningKeyIsDurable, FileKeys
    <3>2. QED
      BY <2>1, <3>1, JarFacts DEF KnownKeys
  <2>3. ~(jar.verified.exp < Utc_now - Drift) /\ ~(jar.verified.nbf > Utc_now + Drift)
    BY <2>1, JarFacts, Bounds DEF Utc_now
  <2>4. jar.verified.typ = "verified"
    BY <2>1, JarFacts
  <2>5. QED
    BY <2>1, <2>2, <2>3, <2>4 DEF Accepted, validate_captcha_verified_cookie, parse_and_verify
<1>2. QED
  BY <1>1, CaptchaInvariant, PTL

=============================================================================
