------------------------------- MODULE Captcha -------------------------------
(***************************************************************************)
(* The captcha of pingoo/captcha.rs (CaptchaManager), the JSON web tokens  *)
(* of jwt/jwt.rs it hands out as cookies, its JWKS file, and the captcha   *)
(* page of captcha/src/index.tsx that solves the challenge.                *)
(*                                                                         *)
(* One browser visits a page on which a captcha rule matches.  Its tabs    *)
(* share one cookie jar.  Pingoo may crash and be restarted at any moment, *)
(* its operator may rotate the keys in the file meanwhile, and the browser *)
(* may move to another network, which changes the client id its requests   *)
(* have.                                                                   *)
(*                                                                         *)
(* Time.  now is real time, which the browser reads; Pingoo's Utc::now()   *)
(* is now + skew, and skew moves within 0..MaxSkew when the wall clock is  *)
(* adjusted.                                                               *)
(*                                                                         *)
(* The site is served over HTTPS: the cookies are Secure and the page uses *)
(* WebCrypto, so on a plain HTTP listener the captcha cannot be solved.    *)
(***************************************************************************)
EXTENDS Integers, Sequences, FiniteSets

CONSTANTS
    Tabs,            \* the browser's tabs
    ClientIds,       \* what generate_captcha_client_id returns, one per (ip, user agent, host)
    MaxKeys,         \* bound: keys ever generated
    ChallengeTtl,    \* CAPTCHA_JWT_EXPIRATION
    VerifiedTtl,     \* CAPTCHA_VERIFIED_JWT_EXPIRATION
    Drift,           \* allowed_time_drift
    Margin,          \* how much earlier than its token a cookie expires
    MaxSkew,         \* bound on clock adjustments
    MaxNow,          \* bound: time stops here
    MaxChallenges,   \* size of the pool of challenges: more than can be in use at once
    MaxCrashes,      \* bound: crashes of Pingoo
    MaxMoves         \* bound: changes of the browser's network

ASSUME CaptchaAssumption ==
    /\ {ChallengeTtl, VerifiedTtl, Drift, Margin, MaxSkew, MaxNow} \subseteq Nat
    /\ {MaxKeys, MaxChallenges, MaxCrashes, MaxMoves} \subseteq Nat
    /\ IsFiniteSet(Tabs)
    /\ MaxSkew <= Drift
    /\ MaxChallenges > 3 * Cardinality(Tabs)

VARIABLES
    jwks,            \* the JWKS file: absent, torn (created, not yet written) or its keys
    proc,            \* the process: down, saving (a new JWKS file), up, failed (to start)
    signing_key,
    verifying_keys,
    generated,       \* number of keys generated so far; a key id is its number
    retired,         \* history: keys the operator took out of the file
    now, skew,
    client,          \* the client id the browser's requests have at the moment
    jar,             \* the browser's two cookies
    tab,             \* per tab: what it does, and the challenge it is solving
    solved,          \* history: each client's last verified token, and whose challenge it was for
    crashes, moves   \* counters of the bounds

pingoo == <<jwks, proc, signing_key, verifying_keys, generated, retired, crashes>>
time == <<now, skew>>
captchaVars == <<pingoo, time, client, jar, tab, solved, moves>>

Utc_now == now + skew

-----------------------------------------------------------------------------
(* Tokens.  typ is the shape of the claims: CaptchaCookieJwtClaims or      *)
(* CaptchaVerifiedCookieJwtClaims; neither deserializes as the other.      *)
(* expires is the cookie's own attribute.                                  *)

\* A challenge is tagged with the client it was made for (history).
NoChallenge == <<>>
Challenge == {NoChallenge} \cup (ClientIds \X (1..MaxChallenges))

Token(typ) == [typ : {typ}, kid : 1..MaxKeys, sub : ClientIds,
               nbf : Nat, exp : Nat, expires : Int, challenge : Challenge]

NoCookie == [typ |-> "none"]

generate_captcha_cookie(client_id, challenge) ==
    [typ |-> "challenge", kid |-> signing_key, sub |-> client_id, nbf |-> Utc_now,
     exp |-> Utc_now + ChallengeTtl, expires |-> Utc_now + ChallengeTtl - Margin,
     challenge |-> challenge]

\* Mutant: the claims of the other token.
VerifiedAsChallenge(client_id) ==
    [typ |-> "challenge", kid |-> signing_key, sub |-> client_id, nbf |-> Utc_now,
     exp |-> Utc_now + VerifiedTtl, expires |-> Utc_now + VerifiedTtl - Margin,
     challenge |-> NoChallenge]

generate_captcha_verified_cookies(client_id) ==
    [typ |-> "verified", kid |-> signing_key, sub |-> client_id, nbf |-> Utc_now,
     exp |-> Utc_now + VerifiedTtl, expires |-> Utc_now + VerifiedTtl - Margin,
     challenge |-> NoChallenge]

\* Mutant: no drift is allowed.
VerifyWithoutDrift(token, typ) ==
    /\ ~ (token.exp < Utc_now)
    /\ ~ (token.nbf > Utc_now)
    /\ token.typ = typ

\* jwt::parse_and_verify: signature, exp, nbf and the type of the claims.
parse_and_verify(token, typ) ==
    /\ ~ (token.exp < Utc_now - Drift)
    /\ ~ (token.nbf > Utc_now + Drift)
    /\ token.typ = typ

\* A cookie the browser sends: stored and not expired.
Live(cookie) == cookie.typ # "none" /\ now < cookie.expires

\* Mutant: the token is not bound to the client.
ValidateAnyClient(token, client_id) ==
    token.kid \in verifying_keys /\ parse_and_verify(token, "verified")

validate_captcha_verified_cookie(token, client_id) ==
    /\ token.kid \in verifying_keys
    /\ parse_and_verify(token, "verified")
    /\ token.sub = client_id

-----------------------------------------------------------------------------
(* CaptchaManager::new, crashes and the operator *)

Idle == [pc |-> "browse", challenge |-> NoChallenge, token |-> NoCookie, client |-> client]

CaptchaInit ==
    /\ jwks = [state |-> "absent", keys |-> <<>>]
    /\ proc = "down"
    /\ signing_key = 0
    /\ verifying_keys = {}
    /\ generated = 0 /\ retired = {}
    /\ now = 0 /\ skew \in 0..MaxSkew
    /\ client \in ClientIds
    /\ jar = [challenge |-> NoCookie, verified |-> NoCookie]
    /\ tab = [t \in Tabs |-> Idle]
    /\ solved = [c \in ClientIds |-> [at |-> -1, handed_to |-> c]]
    /\ crashes = 0 /\ moves = 0

browser == <<client, jar, tab, solved, moves>>

\* Mutant: Pingoo serves before the key is saved.
StartUnsaved ==
    /\ proc = "down" /\ jwks.state = "absent"
    /\ generated < MaxKeys
    /\ generated' = generated + 1
    /\ signing_key' = generated'
    /\ verifying_keys' = {signing_key'}
    /\ proc' = "up"
    /\ UNCHANGED <<jwks, retired, crashes, time, browser>>

\* No file: generate a key and start writing it.  fs::write creates the file first.
StartFirst ==
    /\ proc = "down" /\ jwks.state = "absent"
    /\ generated < MaxKeys
    /\ generated' = generated + 1
    /\ signing_key' = generated'
    /\ jwks' = [state |-> "torn", keys |-> <<>>]
    /\ proc' = "saving"
    /\ UNCHANGED <<verifying_keys, retired, crashes, time, browser>>

save_jwt_keys ==
    /\ proc = "saving"
    /\ jwks' = [state |-> "keys", keys |-> <<signing_key>>]
    /\ verifying_keys' = {signing_key}
    /\ proc' = "up"
    /\ UNCHANGED <<signing_key, generated, retired, crashes, time, browser>>

\* A file: the first key signs, every key verifies; no parsable key is an error.
StartAgain ==
    /\ proc = "down" /\ jwks.state # "absent"
    /\ IF Len(jwks.keys) = 0
       THEN /\ proc' = "failed"
            /\ UNCHANGED <<signing_key, verifying_keys>>
       ELSE /\ proc' = "up"
            /\ signing_key' = Head(jwks.keys)
            /\ verifying_keys' = {jwks.keys[n] : n \in DOMAIN jwks.keys}
    /\ UNCHANGED <<jwks, generated, retired, crashes, time, browser>>

\* What a tab does when its request dies with the process; api/init is retried.
Broken(s) ==
    IF s.pc \in {"verify", "checked"} THEN [s EXCEPT !.pc = "error", !.token = NoCookie] ELSE s

\* A crash, or (while saving) a failed write: the file stays as it is.
Crash ==
    /\ proc \in {"saving", "up"} /\ crashes < MaxCrashes
    /\ proc' = "down"
    /\ crashes' = crashes + 1
    /\ tab' = [t \in Tabs |-> Broken(tab[t])]
    /\ UNCHANGED <<jwks, signing_key, verifying_keys, generated, retired, time,
                   client, jar, solved, moves>>

\* While Pingoo is down its operator may put a new key first, or retire the last.
RotateKeys ==
    /\ proc = "down" /\ jwks.state = "keys"
    /\ \/ /\ generated < MaxKeys
          /\ generated' = generated + 1
          /\ jwks' = [jwks EXCEPT !.keys = <<generated'>> \o @]
          /\ UNCHANGED retired
       \/ /\ Len(jwks.keys) > 1
          /\ jwks' = [jwks EXCEPT !.keys = SubSeq(@, 1, Len(@) - 1)]
          /\ retired' = retired \cup {jwks.keys[Len(jwks.keys)]}
          /\ UNCHANGED generated
    /\ UNCHANGED <<proc, signing_key, verifying_keys, crashes, time, browser>>

\* The way out of a failed start: delete the file.
DeleteJwks ==
    /\ proc = "failed"
    /\ jwks' = [state |-> "absent", keys |-> <<>>]
    /\ proc' = "down"
    /\ UNCHANGED <<signing_key, verifying_keys, generated, retired, crashes, time, browser>>

-----------------------------------------------------------------------------
(* The page, the captcha page and the captcha API *)

Goto(t, s) == tab' = [tab EXCEPT ![t] = s]

\* The server takes the verified cookie of the jar as proof for the current client.
Accepted ==
    /\ jar.verified.typ # "none"
    /\ validate_captcha_verified_cookie(jar.verified, client)

\* A page request: a verified cookie that is sent must be valid, and the rule wants one.
Visit(t) ==
    /\ proc = "up"
    /\ tab[t].pc \in {"browse", "passed"}
    /\ Goto(t, [Idle EXCEPT !.pc = IF Live(jar.verified) /\ Accepted THEN "passed" ELSE "captcha"])
    /\ UNCHANGED <<pingoo, time, client, jar, solved, moves>>

\* The click on the checkbox: fetch api/init.
onCheckboxClicked(t) ==
    /\ tab[t].pc \in {"captcha", "error"}
    /\ Goto(t, [Idle EXCEPT !.pc = "init"])
    /\ UNCHANGED <<pingoo, time, client, jar, solved, moves>>

\* The attempts of retry() are used up while Pingoo is not up.
InitFails(t) ==
    /\ proc # "up" /\ tab[t].pc = "init"
    /\ Goto(t, [Idle EXCEPT !.pc = "error"])
    /\ UNCHANGED <<pingoo, time, client, jar, solved, moves>>

\* 32 random bytes: a number no tab and no cookie has at the moment.
InUse ==
    {tab[t].challenge : t \in Tabs} \cup
        {c.challenge : c \in {d \in {jar.challenge} \cup {tab[t].token : t \in Tabs} : d # NoCookie}}

Fresh == CHOOSE n \in 1..MaxChallenges :
            \A c \in ClientIds : <<c, n>> \notin InUse

api_init(t) ==
    /\ proc = "up" /\ tab[t].pc = "init"
    /\ LET challenge == <<tab[t].client, Fresh>>
       IN /\ jar' = [jar EXCEPT !.challenge =
                        generate_captcha_cookie(tab[t].client, challenge)]
          /\ Goto(t, [tab[t] EXCEPT !.pc = "solving", !.challenge = challenge])
    /\ UNCHANGED <<pingoo, time, client, solved, moves>>

\* The proof of work is done and posted with the cookies of the moment.
proofOfWork(t) ==
    /\ tab[t].pc = "solving"
    /\ IF proc # "up"
       THEN Goto(t, [tab[t] EXCEPT !.pc = "error"])
       ELSE Goto(t, [tab[t] EXCEPT !.pc = "verify", !.client = client,
                        !.token = IF Live(jar.challenge) THEN jar.challenge ELSE NoCookie])
    /\ UNCHANGED <<pingoo, time, client, jar, solved, moves>>

\* api_verify up to its await: the cookie and its token.  The page reloads on an error.
api_verify(t) ==
    /\ proc = "up" /\ tab[t].pc = "verify"
    /\ IF /\ tab[t].token.typ # "none"
          /\ tab[t].token.kid \in verifying_keys
          /\ parse_and_verify(tab[t].token, "challenge")
       THEN Goto(t, [tab[t] EXCEPT !.pc = "checked"])
       ELSE Goto(t, Idle)
    /\ UNCHANGED <<pingoo, time, client, jar, solved, moves>>

\* Mutant: whoever solves it.
SolvesForAnyone(t) == tab[t].token.challenge = tab[t].challenge

\* After the await: the body, the client id, the proof of work, the new cookies.
Solves(t) == tab[t].token.sub = tab[t].client /\ tab[t].token.challenge = tab[t].challenge

api_verify_body(t) ==
    /\ proc = "up" /\ tab[t].pc = "checked"
    /\ Goto(t, Idle)
    /\ IF Solves(t)
       THEN /\ jar' = [challenge |-> NoCookie,
                       verified |-> generate_captcha_verified_cookies(tab[t].client)]
            /\ solved' = [solved EXCEPT ![tab[t].client] =
                                [at |-> now, handed_to |-> tab[t].token.challenge[1]]]
       ELSE UNCHANGED <<jar, solved>>
    /\ UNCHANGED <<pingoo, time, client, moves>>

-----------------------------------------------------------------------------
(* The environment *)

TickCaptcha ==
    /\ now < MaxNow
    /\ now' = now + 1
    /\ UNCHANGED <<pingoo, skew, browser>>

AdjustClock ==
    /\ skew' \in 0..MaxSkew
    /\ UNCHANGED <<pingoo, now, browser>>

\* The browser changes its network: its requests have another client id.
Move ==
    /\ moves < MaxMoves
    /\ client' \in ClientIds \ {client}
    /\ moves' = moves + 1
    /\ UNCHANGED <<pingoo, time, jar, tab, solved>>

TabStep(t) ==
    \/ Visit(t) \/ onCheckboxClicked(t)
    \/ api_init(t) \/ InitFails(t)
    \/ proofOfWork(t) \/ api_verify(t) \/ api_verify_body(t)

CaptchaNext ==
    \/ StartFirst \/ save_jwt_keys \/ StartAgain \/ Crash \/ RotateKeys \/ DeleteJwks
    \/ \E t \in Tabs : TabStep(t)
    \/ TickCaptcha \/ AdjustClock \/ Move

CaptchaSpec == CaptchaInit /\ [][CaptchaNext]_captchaVars

-----------------------------------------------------------------------------
(* Properties *)

Cookie(typ) == {NoCookie} \cup Token(typ)

TabStates == {"browse", "captcha", "init", "solving", "verify", "checked", "error", "passed"}

\* Every variable has its type; a cookie only ever holds its own type of token.
CaptchaTypeOK ==
    /\ jwks \in [state : {"absent", "torn", "keys"}, keys : Seq(1..MaxKeys)]
    /\ proc \in {"down", "saving", "up", "failed"}
    /\ signing_key \in 0..MaxKeys
    /\ verifying_keys \subseteq 1..MaxKeys
    /\ generated \in 0..MaxKeys
    /\ retired \subseteq 1..MaxKeys
    /\ now \in 0..MaxNow /\ skew \in 0..MaxSkew
    /\ client \in ClientIds
    /\ jar.challenge \in Cookie("challenge") /\ jar.verified \in Cookie("verified")
    /\ tab \in [Tabs -> [pc : TabStates, challenge : Challenge, token : Cookie("challenge"),
                         client : ClientIds]]
    /\ solved \in [ClientIds -> [at : -1..MaxNow, handed_to : ClientIds]]
    /\ crashes \in 0..MaxCrashes /\ moves \in 0..MaxMoves

\* Whoever is let through a captcha rule has solved a challenge as the client
\* it is now, and did so no longer ago than the 24 hours of
\* CAPTCHA_VERIFIED_JWT_EXPIRATION plus the drift the clocks are allowed.
AcceptedHasSolved ==
    (proc = "up" /\ Accepted) =>
        /\ solved[client].at >= 0
        /\ now - solved[client].at <= VerifiedTtl + Drift + MaxSkew

\* A challenge is only solved by the client it was handed to (captcha.rs:299),
\* whichever tab answers and wherever the browser moved in between.
SolvedByItsClient ==
    \A c \in ClientIds : solved[c].handed_to = c

\* "The cookie is valid for a shorter amount of time than the JWT to avoid
\* receiving invalid JWT" (captcha.rs:510): while the browser sends its verified
\* cookie, from the network it was issued to, Pingoo accepts it, across clock
\* adjustments, crashes and restarts, unless the operator retired its key.
LiveCookieIsAccepted ==
    (/\ proc = "up"
     /\ Live(jar.verified)
     /\ jar.verified.sub = client
     /\ jar.verified.kid \notin retired) => Accepted

\* Tokens are only ever signed with a key that is already in the file, so that
\* they outlive the process (captcha.rs:115 saves before new() returns).
SigningKeyIsDurable ==
    proc = "up" =>
        /\ jwks.state = "keys" /\ jwks.keys # <<>>
        /\ signing_key = Head(jwks.keys)
        /\ verifying_keys = {jwks.keys[n] : n \in DOMAIN jwks.keys}
=============================================================================
