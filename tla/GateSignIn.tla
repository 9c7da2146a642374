------------------------------ MODULE GateSignIn ------------------------------
(***************************************************************************)
(* The three ways into GatekeeperAI and the tokens they hand out: password *)
(* (routers/auth.py), single sign-on (routers/sso.py over oidc_service.py) *)
(* and passkeys (routers/passkeys.py).                                     *)
(*                                                                         *)
(* A login ends with a pair of tokens: an access token that is valid until *)
(* it expires, and a refresh token that is valid while its jti is in Redis *)
(* (auth_service.py).  The two of a pair are minted together and share a   *)
(* number.  What a flow remembers between two calls is in Redis under a    *)
(* key that one GETDEL takes away: the OIDC state, the exchange code that  *)
(* carries the tokens through the browser's redirect, the challenge of a   *)
(* passkey.                                                                *)
(***************************************************************************)
EXTENDS Naturals, FiniteSets

CONSTANTS
    Users,      \* accounts
    Logins,     \* login flows, each used once
    NoLogin,    \* the login of a pair that was never minted
    NoUser,
    MaxPairs,   \* bound on the token pairs minted
    MaxTicks,   \* bound on the signature counter of an authenticator
    MaxUpsets   \* bound on failures and administrative interventions

ASSUME SignInAssumption ==
    /\ NoLogin \notin Logins
    /\ NoUser \notin Users
    /\ MaxPairs \in Nat /\ MaxTicks \in Nat /\ MaxUpsets \in Nat

VARIABLES
    active,     \* users.is_active
    pairs,      \* the token pairs minted so far, by number
    jtis,       \* Redis refresh_jti:*, the pairs whose refresh token is valid
    states,     \* Redis sso:state:*
    calls,      \* SSO callbacks past the state check, by login
    codes,      \* Redis sso:exchange:*, the pair behind each code (0: none)
    challenge,  \* Redis passkey:auth:<user>, the login it was made for
    enrolling,  \* Redis passkey:reg:<user>
    keys,       \* passkeys rows, one authenticator per user
    ticks,      \* the authenticators' own signature counters
    logins,     \* password and passkey handlers
    upsets      \* failures and interventions so far

signInVars == <<active, pairs, jtis, states, calls, codes, challenge,
                enrolling, keys, ticks, logins, upsets>>

Pairs == 1..MaxPairs

PairRow == [user: Users \cup {NoUser}, login: Logins \cup {NoLogin}]
Unissued == [user |-> NoUser, login |-> NoLogin]

KeyRow == [state: {"new", "enrolled", "deleted"}, count: 0..MaxTicks]

\* A login flow: `seen' and `sign' are the counters of the passkey row it read
\* and of the assertion it presents, `raced' says that another login of the
\* user updated the row after it was read.
Login == [at: {"idle", "sso", "challenged", "signed", "read", "verified",
               "keyed", "answered", "done", "refused"},
          user: Users \cup {NoUser}, pair: 0..MaxPairs,
          seen: 0..MaxTicks, sign: 0..MaxTicks, raced: BOOLEAN]

-----------------------------------------------------------------------------
(* Tokens *)

Issued(n) == pairs[n] # Unissued

Fresh(n) == n \in Pairs /\ ~Issued(n) /\ \A m \in Pairs : m < n => Issued(m)

Upset == upsets < MaxUpsets /\ upsets' = upsets + 1

\* create_refresh_token and store_refresh_jti.  When Redis is down the jti is
\* not stored, and the answer carries the refresh token all the same.
Issue(u, l, n) ==
    /\ Fresh(n)
    /\ pairs' = [pairs EXCEPT ![n] = [user |-> u, login |-> l]]
    /\ \/ jtis' = jtis \cup {n} /\ UNCHANGED upsets
       \/ Upset /\ UNCHANGED jtis

At(l, phase) == logins' = [logins EXCEPT ![l].at = phase]

-----------------------------------------------------------------------------
(* Password *)

\* login: the account is read, and its tokens are minted and answered.
PasswordLogin(l, u, n) ==
    /\ logins[l].at = "idle" /\ active[u]
    /\ Issue(u, l, n)
    /\ logins' = [logins EXCEPT ![l].at = "answered", ![l].user = u, ![l].pair = n]
    /\ UNCHANGED <<active, states, calls, codes, challenge, enrolling, keys, ticks>>

-----------------------------------------------------------------------------
(* Single sign-on.  The browser may ask for the callback, and for the       *)
(* exchange, any number of times; only a call that finds its key in Redis   *)
(* does anything.                                                           *)

SsoAuthorize(l, u) ==
    /\ logins[l].at = "idle"
    /\ states' = states \cup {l}
    /\ logins' = [logins EXCEPT ![l].at = "sso", ![l].user = u]
    /\ UNCHANGED <<active, pairs, jtis, calls, codes, challenge, enrolling, keys,
                   ticks, upsets>>

\* exchange_code takes the state away before it asks the identity provider.
\* (mutant) The state is read and left to its TTL.
SsoCallbackKeepsState(l) ==
    /\ l \in states /\ calls[l] < 2
    /\ calls' = [calls EXCEPT ![l] = @ + 1]
    /\ UNCHANGED <<active, pairs, jtis, states, codes, challenge, enrolling, keys,
                   ticks, logins, upsets>>

SsoCallback(l) ==
    /\ l \in states
    /\ states' = states \ {l}
    /\ calls' = [calls EXCEPT ![l] = @ + 1]
    /\ UNCHANGED <<active, pairs, jtis, codes, challenge, enrolling, keys, ticks,
                   logins, upsets>>

\* The provider refuses the code, the ID token does not validate, or the
\* account cannot be provisioned: the browser is sent to the login page.
SsoRefused(l) ==
    /\ calls[l] > 0
    /\ calls' = [calls EXCEPT ![l] = @ - 1]
    /\ UNCHANGED <<active, pairs, jtis, states, codes, challenge, enrolling, keys,
                   ticks, logins, upsets>>

\* The account is provisioned, active or not; the pair is minted and left in
\* Redis under a code that goes into the redirect.
SsoMint(l, n) ==
    /\ calls[l] > 0
    /\ Issue(logins[l].user, l, n)
    /\ calls' = [calls EXCEPT ![l] = @ - 1]
    /\ codes' = [codes EXCEPT ![l] = n]
    /\ UNCHANGED <<active, states, challenge, enrolling, keys, ticks, logins>>

\* sso_exchange, asked by whoever has the redirect's address.
SsoExchange(l) ==
    /\ codes[l] # 0
    /\ codes' = [codes EXCEPT ![l] = 0]
    /\ UNCHANGED <<active, pairs, jtis, states, calls, challenge, enrolling, keys,
                   ticks, logins, upsets>>

\* The state and the code are kept for ten and for two minutes.
SsoLapses(l) ==
    /\ l \in states \/ codes[l] # 0
    /\ states' = states \ {l}
    /\ codes' = [codes EXCEPT ![l] = 0]
    /\ UNCHANGED <<active, pairs, jtis, calls, challenge, enrolling, keys, ticks,
                   logins, upsets>>

-----------------------------------------------------------------------------
(* Passkeys *)

KeyRegisterBegin(u) ==
    /\ active[u] /\ keys[u].state = "new" /\ ~enrolling[u]
    /\ enrolling' = [enrolling EXCEPT ![u] = TRUE]
    /\ UNCHANGED <<active, pairs, jtis, states, calls, codes, challenge, keys,
                   ticks, logins, upsets>>

KeyRegisterComplete(u) ==
    /\ active[u] /\ enrolling[u]
    /\ enrolling' = [enrolling EXCEPT ![u] = FALSE]
    /\ keys' = [keys EXCEPT ![u] = [state |-> "enrolled", count |-> ticks[u]]]
    /\ UNCHANGED <<active, pairs, jtis, states, calls, codes, challenge, ticks,
                   logins, upsets>>

\* delete_passkey by the user, reset_passkeys by an administrator.
KeyDelete(u) ==
    /\ keys[u].state = "enrolled"
    /\ keys' = [keys EXCEPT ![u].state = "deleted"]
    /\ UNCHANGED <<active, pairs, jtis, states, calls, codes, challenge, enrolling,
                   ticks, logins, upsets>>

\* passkey_authenticate_begin: a user has one challenge, the latest.
KeyBegin(l, u) ==
    /\ logins[l].at = "idle" /\ keys[u].state = "enrolled"
    /\ challenge' = [challenge EXCEPT ![u] = l]
    /\ logins' = [logins EXCEPT ![l].at = "challenged", ![l].user = u]
    /\ UNCHANGED <<active, pairs, jtis, states, calls, codes, enrolling, keys,
                   ticks, upsets>>

\* The authenticator signs the challenge and counts the signature, or signs 0
\* if it does not count, or a clone of it signs with a counter it has passed.
KeySign(l) ==
    LET u == logins[l].user IN
    /\ logins[l].at = "challenged"
    /\ \/ /\ ticks[u] < MaxTicks
          /\ ticks' = [ticks EXCEPT ![u] = @ + 1]
          /\ logins' = [logins EXCEPT ![l].at = "signed", ![l].sign = ticks[u] + 1]
       \/ \E c \in (IF ticks[u] = 0 THEN {0} ELSE 1..ticks[u]) :
            /\ logins' = [logins EXCEPT ![l].at = "signed", ![l].sign = c]
            /\ UNCHANGED ticks
    /\ UNCHANGED <<active, pairs, jtis, states, calls, codes, challenge, enrolling,
                   keys, upsets>>

\* passkey_authenticate_complete, read of the row by credential id.
KeyRead(l) ==
    LET u == logins[l].user IN
    /\ logins[l].at = "signed"
    /\ logins' = IF keys[u].state = "enrolled"
                 THEN [logins EXCEPT ![l].at = "read", ![l].seen = keys[u].count]
                 ELSE [logins EXCEPT ![l].at = "refused"]
    /\ UNCHANGED <<active, pairs, jtis, states, calls, codes, challenge, enrolling,
                   keys, ticks, upsets>>

\* verify_authentication_response: the challenge must be the one signed, and
\* the counter must have moved unless the authenticator does not count.
Verifies(l) ==
    /\ challenge[logins[l].user] = l
    /\ logins[l].sign > logins[l].seen \/ (logins[l].sign = 0 /\ logins[l].seen = 0)

\* The challenge is taken away, whichever login it was made for.
KeyVerify(l) ==
    /\ logins[l].at = "read"
    /\ challenge' = [challenge EXCEPT ![logins[l].user] = NoLogin]
    /\ At(l, IF Verifies(l) THEN "verified" ELSE "refused")
    /\ UNCHANGED <<active, pairs, jtis, states, calls, codes, enrolling, keys,
                   ticks, upsets>>

\* The counter of the assertion is stored, over a row read before: the UPDATE of
\* a row deleted meanwhile fails the call, but 0 over 0 is no UPDATE.
\* (mutant) The counter is not stored.
KeyCommitForgets(l) ==
    /\ logins[l].at = "verified"
    /\ At(l, "keyed")
    /\ UNCHANGED <<active, pairs, jtis, states, calls, codes, challenge, enrolling,
                   keys, ticks, upsets>>

\* (mutant) The counter expected next is stored.
KeyCommitNext(l) ==
    /\ logins[l].at = "verified"
    /\ keys' = [keys EXCEPT ![logins[l].user].count = logins[l].sign + 1]
    /\ At(l, "keyed")
    /\ UNCHANGED <<active, pairs, jtis, states, calls, codes, challenge, enrolling,
                   ticks, upsets>>

KeyCommit(l) ==
    LET u == logins[l].user IN
    /\ logins[l].at = "verified"
    /\ IF keys[u].state = "deleted" /\ logins[l].sign # logins[l].seen
       THEN At(l, "refused") /\ UNCHANGED keys
       ELSE /\ keys' = [keys EXCEPT ![u].count = logins[l].sign]
            /\ logins' = [k \in Logins |->
                 IF k = l THEN [logins[k] EXCEPT !.at = "keyed"]
                 ELSE IF logins[k].user = u /\ logins[k].at \in {"read", "verified"}
                      THEN [logins[k] EXCEPT !.raced = TRUE]
                      ELSE logins[k]]
    /\ UNCHANGED <<active, pairs, jtis, states, calls, codes, challenge, enrolling,
                   ticks, upsets>>

KeyMint(l, n) ==
    LET u == logins[l].user IN
    /\ logins[l].at = "keyed" /\ active[u]
    /\ Issue(u, l, n)
    /\ logins' = [logins EXCEPT ![l].at = "answered", ![l].pair = n]
    /\ UNCHANGED <<active, states, calls, codes, challenge, enrolling, keys, ticks>>

KeyAccountDisabled(l) ==
    /\ logins[l].at = "keyed" /\ ~active[logins[l].user]
    /\ At(l, "refused")
    /\ UNCHANGED <<active, pairs, jtis, states, calls, codes, challenge, enrolling,
                   keys, ticks, upsets>>

\* Challenges are kept for five minutes.
ChallengeLapses(u) ==
    /\ challenge[u] # NoLogin \/ enrolling[u]
    /\ challenge' = [challenge EXCEPT ![u] = NoLogin]
    /\ enrolling' = [enrolling EXCEPT ![u] = FALSE]
    /\ UNCHANGED <<active, pairs, jtis, states, calls, codes, keys, ticks, logins,
                   upsets>>

-----------------------------------------------------------------------------
(* Interventions *)

\* An administrator disables the account.
Deactivate(u) ==
    /\ active[u] /\ Upset
    /\ active' = [active EXCEPT ![u] = FALSE]
    /\ UNCHANGED <<pairs, jtis, states, calls, codes, challenge, enrolling, keys,
                   ticks, logins>>

\* /auth/logout with a refresh token, the end of its TTL, or a Redis restart.
RevokeJti(n) ==
    /\ n \in jtis /\ Upset
    /\ jtis' = jtis \ {n}
    /\ UNCHANGED <<active, pairs, states, calls, codes, challenge, enrolling, keys,
                   ticks, logins>>

-----------------------------------------------------------------------------

SignInInit ==
    /\ active = [u \in Users |-> TRUE]
    /\ pairs = [n \in Pairs |-> Unissued]
    /\ jtis = {}
    /\ states = {}
    /\ calls = [l \in Logins |-> 0]
    /\ codes = [l \in Logins |-> 0]
    /\ challenge = [u \in Users |-> NoLogin]
    /\ enrolling = [u \in Users |-> FALSE]
    /\ keys = [u \in Users |-> [state |-> "new", count |-> 0]]
    /\ ticks = [u \in Users |-> 0]
    /\ logins = [l \in Logins |-> [at |-> "idle", user |-> NoUser, pair |-> 0,
                                   seen |-> 0, sign |-> 0, raced |-> FALSE]]
    /\ upsets = 0

\* Every step but the two that hand a pair to a browser.
SignInStep ==
    \/ \E l \in Logins, u \in Users :
         \/ \E n \in Pairs : PasswordLogin(l, u, n)
         \/ SsoAuthorize(l, u) \/ KeyBegin(l, u)
    \/ \E l \in Logins :
         \/ SsoCallback(l) \/ SsoRefused(l) \/ SsoLapses(l)
         \/ KeySign(l) \/ KeyRead(l) \/ KeyVerify(l) \/ KeyCommit(l)
         \/ KeyAccountDisabled(l)
         \/ \E n \in Pairs : SsoMint(l, n) \/ KeyMint(l, n)
    \/ \E u \in Users :
         \/ KeyRegisterBegin(u) \/ KeyRegisterComplete(u) \/ KeyDelete(u)
         \/ ChallengeLapses(u) \/ Deactivate(u)
    \/ \E n \in Pairs : RevokeJti(n)
===============================================================================
