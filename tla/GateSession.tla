----------------------------- MODULE GateSession ------------------------------
(***************************************************************************)
(* Sessions in the browser: lib/api.ts and lib/auth.ts over /auth/refresh. *)
(*                                                                         *)
(* The tokens are in localStorage, one copy for all pages (tabs) of a      *)
(* browser.  A request that is answered 401 asks for a refresh, and the    *)
(* module variable `refreshing' of a page makes its requests share one:    *)
(* refresh tokens rotate, each can be used once.  Nothing is shared between*)
(* the pages of a browser but localStorage itself.  Signing out clears     *)
(* localStorage and does not call /auth/logout.                            *)
(***************************************************************************)
EXTENDS GateSignIn

CONSTANTS
    Browsers,
    Pages,        \* open tabs
    BrowserOf,    \* [Pages -> Browsers]
    NoPage,
    Requests      \* calls of request(), each used once

ASSUME SessionAssumption ==
    /\ BrowserOf \in [Pages -> Browsers]
    /\ NoPage \notin Pages
    /\ MaxPairs >= Cardinality(Logins) + Cardinality(Requests)

VARIABLES
    storage,     \* localStorage of a browser: the pair stored, 0 for none
    expired,     \* pairs whose access token has expired
    refreshing,  \* the refresh a page has under way
    shown,       \* pages that show a signed-in user
    requests,
    received,    \* how often a response with the pair was received
    signedIn,    \* history: the login a browser's user made last
    raced        \* history: browsers where a sign-in, sign-out or refresh of
                 \* one page met unfinished work of another

sessionVars == <<storage, expired, refreshing, shown, requests, received,
                 signedIn, raced>>
allVars == <<signInVars, sessionVars>>

\* `stuck': the promise was never reset, and resolved to null.
Refresh == [at: {"idle", "stuck", "sent", "consumed", "answered", "refused"},
            old: 0..MaxPairs, new: 0..MaxPairs]
NoRefresh == [at |-> "idle", old |-> 0, new |-> 0]

Request == [at: {"idle", "sent", "waiting", "resent", "done", "failed",
                 "ejected", "dropped"},
            page: Pages \cup {NoPage}, pair: 0..MaxPairs]

PagesOf(b) == {p \in Pages : BrowserOf[p] = b}
Stored(p) == storage[BrowserOf[p]]
Outstanding(p) == refreshing[p].at \notin {"idle", "stuck"}
InFlight(r) == requests[r].at \in {"sent", "waiting", "resent"}

\* Work a page has under way, which a change of localStorage may meet.
Busy(p) == Outstanding(p) \/ \E r \in Requests : InFlight(r) /\ requests[r].page = p

Race(p, condition) ==
    raced' = IF condition THEN raced \cup {BrowserOf[p]} ELSE raced

\* get_current_user: a bearer token that has not expired, of an active user.
Accepts(n) == n # 0 /\ n \notin expired /\ active[pairs[n].user]

-----------------------------------------------------------------------------
(* Signing in and out *)

\* storeTokens after a login; fetchMe then shows the user.
StoreTokens(p, l, n) ==
    /\ storage' = [storage EXCEPT ![BrowserOf[p]] = n]
    /\ shown' = shown \cup {p}
    /\ received' = [received EXCEPT ![n] = @ + 1]
    /\ signedIn' = [signedIn EXCEPT ![BrowserOf[p]] = l]
    /\ Race(p, \E q \in PagesOf(BrowserOf[p]) : Outstanding(q))

\* login and handlePasskey.
SignIn(p, l) ==
    /\ logins[l].at = "answered"
    /\ At(l, "done")
    /\ StoreTokens(p, l, logins[l].pair)
    /\ UNCHANGED <<active, pairs, jtis, states, calls, codes, challenge, enrolling,
                   keys, ticks, upsets, expired, refreshing, requests>>

\* loginWithTokens after the redirect, in any page that has its address.
SignInSso(p, l) ==
    /\ SsoExchange(l)
    /\ received[codes[l]] < 2
    /\ StoreTokens(p, l, codes[l])
    /\ UNCHANGED <<expired, refreshing, requests>>

\* logout: clearAuth in this page; other pages go on showing the user.
SignOut(p) ==
    /\ p \in shown
    /\ storage' = [storage EXCEPT ![BrowserOf[p]] = 0]
    /\ shown' = shown \ {p}
    /\ signedIn' = [signedIn EXCEPT ![BrowserOf[p]] = NoLogin]
    /\ Race(p, \E q \in PagesOf(BrowserOf[p]) : Busy(q) \/ (q # p /\ q \in shown))
    /\ UNCHANGED <<signInVars, expired, refreshing, requests, received>>

-----------------------------------------------------------------------------
(* Requests *)

\* A page that shows a user, or finds tokens when it is opened, makes a call.
Start(r, p) ==
    /\ requests[r].at = "idle"
    /\ p \in shown \/ Stored(p) # 0
    /\ shown' = shown \cup {p}
    /\ requests' = [requests EXCEPT ![r] = [at |-> "sent", page |-> p, pair |-> Stored(p)]]
    /\ UNCHANGED <<signInVars, storage, expired, refreshing, received, signedIn, raced>>

Succeed(r) ==
    /\ requests[r].at \in {"sent", "resent"}
    /\ Accepts(requests[r].pair)
    /\ requests' = [requests EXCEPT ![r].at = "done"]
    /\ UNCHANGED <<signInVars, storage, expired, refreshing, shown, received,
                   signedIn, raced>>

\* clearTokens and AUTH_EXPIRED_EVENT, for the requests of page p in rs.
Eject(p, rs) ==
    /\ storage' = [storage EXCEPT ![BrowserOf[p]] = 0]
    /\ shown' = shown \ {p}
    /\ requests' = [r \in Requests |->
         IF r \in rs THEN [requests[r] EXCEPT !.at = "ejected"] ELSE requests[r]]

Denied(r) == requests[r].at = "sent" /\ ~Accepts(requests[r].pair)

\* attemptRefresh when one is under way: its promise is awaited.
\* (mutant) The request sends the same refresh token for itself, and is refused.
JoinRefreshAlone(r) ==
    LET p == requests[r].page IN
    /\ Denied(r) /\ Outstanding(p) /\ Stored(p) \notin jtis
    /\ Eject(p, {r})
    /\ UNCHANGED <<signInVars, expired, refreshing, received, signedIn, raced>>

JoinRefresh(r) ==
    /\ Denied(r) /\ Outstanding(requests[r].page)
    /\ requests' = [requests EXCEPT ![r].at = "waiting"]
    /\ UNCHANGED <<signInVars, storage, expired, refreshing, shown, received,
                   signedIn, raced>>

\* attemptRefresh that finds a refresh token in localStorage.
\* (mutant) It sends the refresh token of the request's own pair.
SendRefreshOfRequest(r) ==
    LET p == requests[r].page IN
    /\ Denied(r) /\ refreshing[p].at = "idle" /\ Stored(p) # 0
    /\ refreshing' = [refreshing EXCEPT ![p] =
                        [at |-> "sent", old |-> requests[r].pair, new |-> 0]]
    /\ requests' = [requests EXCEPT ![r].at = "waiting"]
    /\ Race(p, \E q \in PagesOf(BrowserOf[p]) : Outstanding(q))
    /\ UNCHANGED <<signInVars, storage, expired, shown, received, signedIn>>

SendRefresh(r) ==
    LET p == requests[r].page IN
    /\ Denied(r) /\ refreshing[p].at = "idle" /\ Stored(p) # 0
    /\ refreshing' = [refreshing EXCEPT ![p] =
                        [at |-> "sent", old |-> Stored(p), new |-> 0]]
    /\ requests' = [requests EXCEPT ![r].at = "waiting"]
    /\ Race(p, \E q \in PagesOf(BrowserOf[p]) : Outstanding(q))
    /\ UNCHANGED <<signInVars, storage, expired, shown, received, signedIn>>

\* attemptRefresh without a refresh token returns before the try whose finally
\* resets `refreshing': from then on every 401 of the page is a forced logout.
NothingToRefresh(r) ==
    LET p == requests[r].page IN
    /\ Denied(r)
    /\ refreshing[p].at = "stuck" \/ (refreshing[p].at = "idle" /\ Stored(p) = 0)
    /\ refreshing' = [refreshing EXCEPT ![p] = [NoRefresh EXCEPT !.at = "stuck"]]
    /\ Eject(p, {r})
    /\ UNCHANGED <<signInVars, expired, received, signedIn, raced>>

\* A call that was sent again is not refreshed again, and any call may fail for
\* a reason of its own; if it was useAuth's fetchMe, the page is signed out.
Fail(r) ==
    LET p == requests[r].page IN
    /\ \/ requests[r].at = "resent" /\ ~Accepts(requests[r].pair) /\ UNCHANGED upsets
       \/ InFlight(r) /\ requests[r].at # "waiting" /\ Upset
    /\ requests' = [requests EXCEPT ![r].at = "failed"]
    /\ \/ /\ storage' = [storage EXCEPT ![BrowserOf[p]] = 0]
          /\ shown' = shown \ {p}
          /\ Race(p, TRUE)
       \/ UNCHANGED <<storage, shown, raced>>
    /\ UNCHANGED <<active, pairs, jtis, states, calls, codes, challenge, enrolling,
                   keys, ticks, logins, expired, refreshing, received, signedIn>>

-----------------------------------------------------------------------------
(* The refresh handler *)

\* consume_refresh_jti: one GETDEL.  (With Redis down it answers as if it had
\* found nothing: the RefreshLost of a token not yet consumed.)
RefreshConsume(p) ==
    /\ refreshing[p].at = "sent"
    /\ jtis' = jtis \ {refreshing[p].old}
    /\ refreshing' = [refreshing EXCEPT ![p].at =
         IF refreshing[p].old \in jtis THEN "consumed" ELSE "refused"]
    /\ UNCHANGED <<active, pairs, states, calls, codes, challenge, enrolling, keys,
                   ticks, logins, upsets, storage, expired, shown, requests,
                   received, signedIn, raced>>

\* The account is read, and a new pair takes the place of the old.
RefreshMint(p, n) ==
    LET old == pairs[refreshing[p].old] IN
    /\ refreshing[p].at = "consumed" /\ active[old.user]
    /\ Issue(old.user, old.login, n)
    /\ refreshing' = [refreshing EXCEPT ![p].at = "answered", ![p].new = n]
    /\ UNCHANGED <<active, states, calls, codes, challenge, enrolling, keys, ticks,
                   logins, storage, expired, shown, requests, received, signedIn,
                   raced>>

RefreshDisabled(p) ==
    /\ refreshing[p].at = "consumed" /\ ~active[pairs[refreshing[p].old].user]
    /\ refreshing' = [refreshing EXCEPT ![p].at = "refused"]
    /\ UNCHANGED <<signInVars, storage, expired, shown, requests, received,
                   signedIn, raced>>

\* The handler dies or the answer is lost, before the token is consumed, between
\* that and the new pair, or after it.
RefreshLost(p) ==
    /\ refreshing[p].at \in {"sent", "consumed", "answered"} /\ Upset
    /\ refreshing' = [refreshing EXCEPT ![p].at = "refused"]
    /\ UNCHANGED <<active, pairs, jtis, states, calls, codes, challenge, enrolling,
                   keys, ticks, logins, storage, expired, shown, requests, received,
                   signedIn, raced>>

\* The requests of the page that await the refresh.
Waiters(p) == {r \in Requests : requests[r].at = "waiting" /\ requests[r].page = p}

\* The answer is stored over whatever localStorage holds by now, and the
\* waiting requests are sent again.
\* (mutant) Only one of the waiting requests goes on.
RefreshDoneWakesOne(p) ==
    LET n == refreshing[p].new IN
    /\ refreshing[p].at = "answered"
    /\ refreshing' = [refreshing EXCEPT ![p] = NoRefresh]
    /\ storage' = [storage EXCEPT ![BrowserOf[p]] = n]
    /\ received' = [received EXCEPT ![n] = @ + 1]
    /\ \E r \in Waiters(p) : requests' = [requests EXCEPT ![r].at = "resent", ![r].pair = n]
    /\ UNCHANGED <<signInVars, expired, shown, signedIn, raced>>

RefreshDone(p) ==
    LET n == refreshing[p].new IN
    /\ refreshing[p].at = "answered"
    /\ refreshing' = [refreshing EXCEPT ![p] = NoRefresh]
    /\ storage' = [storage EXCEPT ![BrowserOf[p]] = n]
    /\ received' = [received EXCEPT ![n] = @ + 1]
    /\ requests' = [r \in Requests |->
         IF r \in Waiters(p) THEN [requests[r] EXCEPT !.at = "resent", !.pair = n]
         ELSE requests[r]]
    /\ UNCHANGED <<signInVars, expired, shown, signedIn, raced>>

RefreshFails(p) ==
    /\ refreshing[p].at = "refused"
    /\ refreshing' = [refreshing EXCEPT ![p] = NoRefresh]
    /\ Eject(p, Waiters(p))
    /\ UNCHANGED <<signInVars, expired, received, signedIn, raced>>

-----------------------------------------------------------------------------
(* Time, and the user's reload button *)

Expire(n) ==
    /\ Issued(n) /\ n \notin expired
    /\ expired' = expired \cup {n}
    /\ UNCHANGED <<signInVars, storage, refreshing, shown, requests, received,
                   signedIn, raced>>

\* The page forgets its calls and its refresh; a refresh token already sent may
\* be consumed by a handler whose answer nobody takes.
Reload(p) ==
    /\ refreshing[p].at # "idle" \/ Busy(p)
    /\ Upset
    /\ jtis' \in {jtis, jtis \ {refreshing[p].old}}
    /\ refreshing' = [refreshing EXCEPT ![p] = NoRefresh]
    /\ requests' = [r \in Requests |->
         IF requests[r].page = p /\ InFlight(r) THEN [requests[r] EXCEPT !.at = "dropped"]
         ELSE requests[r]]
    /\ UNCHANGED <<active, pairs, states, calls, codes, challenge, enrolling, keys,
                   ticks, logins, storage, expired, shown, received, signedIn, raced>>

-----------------------------------------------------------------------------

SessionInit ==
    /\ SignInInit
    /\ storage = [b \in Browsers |-> 0]
    /\ expired = {}
    /\ refreshing = [p \in Pages |-> NoRefresh]
    /\ shown = {}
    /\ requests = [r \in Requests |-> [at |-> "idle", page |-> NoPage, pair |-> 0]]
    /\ received = [n \in Pairs |-> 0]
    /\ signedIn = [b \in Browsers |-> NoLogin]
    /\ raced = {}

RefreshStep(p) ==
    \/ RefreshConsume(p) \/ RefreshDisabled(p) \/ RefreshDone(p) \/ RefreshFails(p)
    \/ \E n \in Pairs : RefreshMint(p, n)

Answer(r) == Succeed(r) \/ JoinRefresh(r) \/ SendRefresh(r) \/ NothingToRefresh(r) \/ Fail(r)

SessionStep ==
    \/ \E p \in Pages :
         \/ RefreshStep(p) \/ RefreshLost(p) \/ Reload(p) \/ SignOut(p)
         \/ \E l \in Logins : SignIn(p, l) \/ SignInSso(p, l)
         \/ \E r \in Requests : Start(r, p)
    \/ \E r \in Requests : Answer(r)
    \/ \E n \in Pairs : Expire(n)

SessionNext ==
    \/ SignInStep /\ UNCHANGED sessionVars
    \/ SessionStep

SessionSpec == SessionInit /\ [][SessionNext]_allVars

\* The server answers every call, and a page handles every answer.
SessionFair ==
    /\ \A p \in Pages : WF_allVars(RefreshStep(p))
    /\ \A r \in Requests : WF_allVars(Answer(r))

SessionFairSpec == SessionSpec /\ SessionFair

-----------------------------------------------------------------------------
(* Properties *)

SessionTypeOK ==
    /\ active \in [Users -> BOOLEAN]
    /\ pairs \in [Pairs -> PairRow]
    /\ jtis \subseteq Pairs /\ expired \subseteq Pairs
    /\ states \subseteq Logins
    /\ calls \in [Logins -> 0..2]
    /\ codes \in [Logins -> 0..MaxPairs]
    /\ challenge \in [Users -> Logins \cup {NoLogin}]
    /\ enrolling \in [Users -> BOOLEAN]
    /\ keys \in [Users -> KeyRow]
    /\ ticks \in [Users -> 0..MaxTicks]
    /\ logins \in [Logins -> Login]
    /\ upsets \in 0..MaxUpsets
    /\ storage \in [Browsers -> 0..MaxPairs]
    /\ refreshing \in [Pages -> Refresh]
    /\ shown \subseteq Pages
    /\ requests \in [Requests -> Request]
    /\ received \in [Pairs -> 0..2]
    /\ signedIn \in [Browsers -> Logins \cup {NoLogin}]
    /\ raced \subseteq Browsers

\* However its calls are repeated or overlap, a login has at most one valid
\* refresh token, and no pair of tokens is handed out twice: the state, the
\* exchange code, the challenge and each refresh token are worth one answer.
LoginIsSingle ==
    /\ \A m, n \in jtis : pairs[m].login = pairs[n].login => m = n
    /\ \A n \in Pairs : received[n] <= 1

\* A request is thrown out of its session only for a failure, an intervention,
\* or a page of the browser that crossed another: the requests of one page
\* never make each other lose the session they share.
ThrownOutForCause ==
    \A r \in Requests :
        requests[r].at = "ejected" => upsets > 0 \/ BrowserOf[requests[r].page] \in raced

\* What localStorage holds belongs to the login the user made last, unless a
\* sign-in or sign-out crossed a refresh.
StoredIsCurrent ==
    \A b \in Browsers :
        storage[b] # 0 => b \in raced \/ pairs[storage[b]].login = signedIn[b]

\* A passkey login gets past its row only with a counter above those of all
\* logins before it and a row that is still there, whatever committed since it
\* was read: a clone that lags behind the authenticator is told from it.  But the
\* counter of a login that was overtaken takes the place of a higher one, so the
\* promise ends with the first of them; and some authenticators do not count.
Overtaken(k) == logins[k].raced /\ logins[k].at \notin {"read", "verified"}

KeyIsCurrent ==
    [][\A l \in Logins :
         logins[l].at = "verified" /\ logins'[l].at = "keyed" /\ logins[l].sign > 0 =>
            /\ keys[logins[l].user].state = "enrolled"
            /\ \/ logins[l].raced
               \/ \E k \in Logins : logins[k].user = logins[l].user /\ Overtaken(k)
               \/ \A k \in Logins \ {l} :
                    /\ logins[k].user = logins[l].user
                    /\ logins[k].at \in {"keyed", "answered", "done"}
                    => logins[l].sign > logins[k].sign]_allVars

\* Every request is answered, fails, or ends with its page: no request waits
\* for a refresh for ever.
RequestSettles ==
    \A r \in Requests : InFlight(r) ~> ~InFlight(r)
===============================================================================
