-------------------------- MODULE GateSessionProofs ---------------------------
(***************************************************************************)
(* What GateSession guarantees for any number of users, logins, browsers,  *)
(* pages, requests and failures.                                           *)
(***************************************************************************)
EXTENDS GateSession, TLAPS

-----------------------------------------------------------------------------
(* The inductive invariant: tokens *)

\* A login whose pair has been minted cannot mint another.
Spent(l) == l \notin states /\ calls[l] = 0 /\ logins[l].at \in {"sso", "answered", "done"}

\* A pair that waits for the browser of login l.
Waits(n, l) == n \in Pairs /\ pairs[n].login = l /\ received[n] = 0

FlowsInv ==
    \A l \in Logins :
        /\ calls[l] <= 1 /\ (l \in states => calls[l] = 0)
        /\ l \in states \/ calls[l] > 0 \/ codes[l] # 0 => logins[l].at = "sso"
        /\ logins[l].at # "idle" => logins[l].user \in Users
        /\ codes[l] # 0 => Waits(codes[l], l)
        /\ logins[l].at = "answered" => Waits(logins[l].pair, l)

PairsInv ==
    \A n \in Pairs :
        IF Issued(n)
        THEN pairs[n].user \in Users /\ pairs[n].login \in Logins /\ Spent(pairs[n].login)
        ELSE n \notin jtis /\ received[n] = 0

\* The chances a login has to get one more pair: a valid refresh token, or one
\* that was consumed and has not been replaced.
ChancesInv ==
    /\ LoginIsSingle
    /\ \A p \in Pages : refreshing[p].at = "consumed" =>
         /\ \A n \in jtis : pairs[n].login # pairs[refreshing[p].old].login
         /\ \A q \in Pages : refreshing[q].at = "consumed"
              /\ pairs[refreshing[q].old].login = pairs[refreshing[p].old].login => q = p

\* An answer of /auth/refresh that nobody has taken yet, under way to one page.
Brings(p, n) ==
    /\ n \in Pairs /\ Issued(n) /\ received[n] = 0
    /\ pairs[n].login = pairs[refreshing[p].old].login
    /\ \A q \in Pages : refreshing[q].at = "answered" /\ refreshing[q].new = n => q = p
    /\ \A l \in Logins : codes[l] # n /\ (logins[l].at = "answered" => logins[l].pair # n)

RefreshesInv ==
    \A p \in Pages :
        /\ IF Outstanding(p) THEN refreshing[p].old \in Pairs /\ received[refreshing[p].old] = 1
           ELSE refreshing[p].old = 0
        /\ refreshing[p].at = "answered" => Brings(p, refreshing[p].new)

\* A pair that was received is in one browser only: in its localStorage, or on
\* its way to be refreshed.
PlacesInv ==
    /\ \A b \in Browsers : storage[b] # 0 =>
         /\ received[storage[b]] = 1
         /\ \A c \in Browsers : storage[c] = storage[b] => c = b
         /\ \A p \in Pages : refreshing[p].old = storage[b] => BrowserOf[p] = b
    /\ \A p, q \in Pages : refreshing[p].old = refreshing[q].old /\ refreshing[p].old # 0 =>
         BrowserOf[p] = BrowserOf[q]

\* A refresh under way in a browser where nothing crossed is of the login that
\* its user made last.
CurrentInv ==
    /\ StoredIsCurrent
    /\ \A p \in Pages : Outstanding(p) /\ BrowserOf[p] \notin raced =>
         pairs[refreshing[p].old].login = signedIn[BrowserOf[p]]

\* Without failures tokens are valid until they are used.
ValidInv ==
    upsets = 0 =>
        /\ \A u \in Users : active[u]
        /\ \A l \in Logins : /\ codes[l] # 0 => codes[l] \in jtis
                             /\ logins[l].at = "answered" => logins[l].pair \in jtis
        /\ \A p \in Pages : refreshing[p].at = "answered" => refreshing[p].new \in jtis

\* Without failures, a browser where nothing crossed has one refresh at a time,
\* with a valid token, and tokens as long as a page shows the user or is busy.
CalmBrowser(b) ==
    /\ \A p, q \in PagesOf(b) : Outstanding(p) /\ Outstanding(q) => p = q
    /\ \A p \in PagesOf(b) :
         /\ refreshing[p].at \notin {"stuck", "refused"}
         /\ p \in shown \/ Busy(p) => storage[b] # 0
         /\ refreshing[p].at = "sent" => refreshing[p].old \in jtis
    /\ storage[b] # 0 => \/ storage[b] \in jtis
                         \/ \E p \in PagesOf(b) : refreshing[p].at \in {"consumed", "answered"}

CalmInv == upsets = 0 => \A b \in Browsers \ raced : CalmBrowser(b)

TokenInv ==
    /\ SessionTypeOK
    /\ FlowsInv /\ PairsInv /\ ChancesInv
    /\ RefreshesInv /\ PlacesInv
    /\ CurrentInv
    /\ \A r \in Requests : requests[r].at # "idle" => requests[r].page \in Pages
    /\ ValidInv /\ CalmInv /\ ThrownOutForCause

-----------------------------------------------------------------------------
(* The inductive invariant: passkeys *)

\* A passkey is enrolled once; the counter a login read is the one it will
\* replace unless it is overtaken, and no committed login of the user has a
\* higher one.
KeyInv ==
    /\ \A u \in Users : enrolling[u] => keys[u].state = "new"
    /\ \A l \in Logins :
         /\ logins[l].at \in {"idle", "sso"} => logins[l].sign = 0
         /\ logins[l].at \in {"idle", "sso", "challenged", "signed"} => ~logins[l].raced
         /\ logins[l].at \in {"challenged", "signed", "read", "verified", "keyed"} \/ logins[l].sign > 0
              => keys[logins[l].user].state # "new"
         /\ logins[l].at \in {"read", "verified"} /\ ~logins[l].raced =>
              logins[l].seen = keys[logins[l].user].count
         /\ logins[l].at = "verified" =>
              logins[l].sign > logins[l].seen \/ (logins[l].sign = 0 /\ logins[l].seen = 0)
         /\ logins[l].at \in {"keyed", "answered", "done"} =>
              \/ logins[l].sign <= keys[logins[l].user].count
              \/ \E k \in Logins : logins[k].user = logins[l].user /\ Overtaken(k)

SessionInv == TokenInv /\ KeyInv

-----------------------------------------------------------------------------
(* Tokens: signing in *)

LEMMA InitialTokens == SessionInit => TokenInv
<1> SUFFICES ASSUME SessionInit PROVE TokenInv
  OBVIOUS
<1> USE DEF SessionInit, SignInInit
<1>1. /\ \A n \in Pairs : pairs[n] = Unissued /\ ~Issued(n) /\ received[n] = 0
      /\ \A p \in Pages : refreshing[p] = NoRefresh /\ refreshing[p].at = "idle"
                         /\ refreshing[p].old = 0 /\ ~Outstanding(p)
      /\ \A r \in Requests : requests[r].at = "idle"
      /\ \A l \in Logins : logins[l].at = "idle" /\ calls[l] = 0 /\ codes[l] = 0
      /\ upsets = 0
  BY DEF Issued, NoRefresh, Outstanding
<1>2. SessionTypeOK
  <2>1. pairs \in [Pairs -> PairRow] /\ received \in [Pairs -> 0..2]
    BY DEF PairRow, Unissued
  <2>2. /\ calls \in [Logins -> 0..2] /\ codes \in [Logins -> 0..MaxPairs]
        /\ storage \in [Browsers -> 0..MaxPairs] /\ upsets \in 0..MaxUpsets
        /\ ticks \in [Users -> 0..MaxTicks]
    BY SignInAssumption
  <2>3. keys \in [Users -> KeyRow] /\ logins \in [Logins -> Login]
    BY SignInAssumption DEF KeyRow, Login
  <2>4. refreshing \in [Pages -> Refresh] /\ requests \in [Requests -> Request]
    BY SignInAssumption DEF Refresh, Request, NoRefresh
  <2>5. active \in [Users -> BOOLEAN] /\ enrolling \in [Users -> BOOLEAN]
    OBVIOUS
  <2>6. challenge \in [Users -> Logins \cup {NoLogin}] /\ signedIn \in [Browsers -> Logins \cup {NoLogin}]
    OBVIOUS
  <2>7. jtis \subseteq Pairs /\ expired \subseteq Pairs /\ states \subseteq Logins
        /\ shown \subseteq Pages /\ raced \subseteq Browsers
    OBVIOUS
  <2> QED BY <2>1, <2>2, <2>3, <2>4, <2>5, <2>6, <2>7 DEF SessionTypeOK
<1>3. FlowsInv /\ PairsInv
  BY <1>1 DEF FlowsInv, PairsInv
<1>4. ChancesInv /\ RefreshesInv
  BY <1>1 DEF ChancesInv, RefreshesInv, LoginIsSingle
<1>5. PlacesInv /\ CurrentInv /\ ValidInv
  BY <1>1 DEF PlacesInv, CurrentInv, StoredIsCurrent, ValidInv
<1>6. CalmInv
  <2>1. \A p \in Pages : ~Busy(p) /\ p \notin shown
    BY <1>1 DEF Busy, InFlight
  <2> QED BY <1>1, <2>1 DEF CalmInv, CalmBrowser, PagesOf
<1> QED BY <1>1, <1>2, <1>3, <1>4, <1>5, <1>6 DEF TokenInv, ThrownOutForCause

\* What the steps change as seen from the tokens.
tokenVars == <<active, pairs, jtis, states, calls, codes, upsets, storage, refreshing, shown,
               requests, received, signedIn, raced>>

\* A passkey login that is not answered leaves the tokens alone.
LEMMA FlowKeeps ==
    ASSUME TokenInv, SessionTypeOK', UNCHANGED tokenVars,
           \A l \in Logins :
              \/ /\ logins'[l].at = logins[l].at /\ logins'[l].user = logins[l].user
                 /\ logins'[l].pair = logins[l].pair
              \/ /\ logins[l].at \notin {"sso", "answered", "done"}
                 /\ logins'[l].at \notin {"idle", "sso", "answered", "done"}
                 /\ logins'[l].user \in Users
    PROVE  TokenInv'
<1> USE DEF tokenVars
<1>1. FlowsInv'
  BY DEF TokenInv, FlowsInv, Waits
<1>2. PairsInv'
  BY DEF TokenInv, PairsInv, Issued, Spent
<1>3. ChancesInv'
  BY DEF TokenInv, ChancesInv, LoginIsSingle
<1>4. RefreshesInv'
  BY DEF TokenInv, RefreshesInv, Brings, Issued, Outstanding
<1>5. PlacesInv' /\ CurrentInv'
  BY DEF TokenInv, PlacesInv, CurrentInv, StoredIsCurrent, Outstanding
<1>6. ValidInv'
  BY DEF TokenInv, ValidInv
<1>7. CalmInv' /\ ThrownOutForCause'
  BY DEF TokenInv, CalmInv, CalmBrowser, PagesOf, Outstanding, Busy, InFlight, ThrownOutForCause
<1> QED
  BY <1>1, <1>2, <1>3, <1>4, <1>5, <1>6, <1>7 DEF TokenInv

\* A login that has no pair yet gets its first, which waits for the browser under
\* a code, or in the answer.
LEMMA MintKeeps ==
    ASSUME TokenInv, SessionTypeOK', NEW l \in Logins, NEW u \in Users, NEW n \in Pairs,
           Issue(u, l, n), ~Spent(l),
           UNCHANGED <<active, states, storage, refreshing, shown, requests, received,
                       signedIn, raced>>,
           \A k \in Logins \ {l} : logins'[k] = logins[k] /\ calls'[k] = calls[k] /\ codes'[k] = codes[k],
           l \notin states, calls'[l] = 0,
           \/ /\ logins'[l].at = "answered" /\ logins'[l].user \in Users /\ logins'[l].pair = n
              /\ codes'[l] = 0
           \/ logins'[l] = logins[l] /\ logins[l].at = "sso" /\ codes'[l] = n
    PROVE  TokenInv'
<1>1. /\ ~Issued(n) /\ n \notin jtis /\ received[n] = 0 /\ \A m \in jtis : m \in Pairs
  BY DEF Issue, Fresh, TokenInv, PairsInv, SessionTypeOK
<1>2. /\ pairs'[n] = [user |-> u, login |-> l]
      /\ \A m \in Pairs \ {n} : pairs'[m] = pairs[m]
  BY DEF Issue, TokenInv, SessionTypeOK
<1>3. /\ Issued(n)' /\ pairs'[n].user = u /\ pairs'[n].login = l
      /\ \A m \in Pairs \ {n} : Issued(m)' = Issued(m)
  BY <1>2, SignInAssumption DEF Issued, Unissued
<1>4. /\ jtis \subseteq jtis' /\ jtis' \subseteq jtis \cup {n}
      /\ upsets' = 0 => upsets = 0 /\ n \in jtis'
  BY DEF Issue, Upset, TokenInv, SessionTypeOK
<1>5. \A m \in Pairs : Issued(m) => pairs[m].login # l /\ m # n
  BY <1>1 DEF TokenInv, PairsInv
<1>6. \A m \in jtis : Issued(m) /\ m \in Pairs
  BY <1>1 DEF TokenInv, PairsInv
<1>7. \A p \in Pages : Outstanding(p) => refreshing[p].old \in Pairs /\ Issued(refreshing[p].old)
  BY DEF TokenInv, RefreshesInv, PairsInv
<1>8. \A b \in Browsers : storage[b] # 0 => storage[b] \in Pairs /\ Issued(storage[b])
  BY SignInAssumption DEF TokenInv, PlacesInv, PairsInv, SessionTypeOK, Pairs
<1>9. \A k \in Logins : /\ codes[k] # 0 => codes[k] \in Pairs /\ Issued(codes[k])
                        /\ logins[k].at = "answered" => logins[k].pair \in Pairs /\ Issued(logins[k].pair)
  BY SignInAssumption DEF TokenInv, FlowsInv, Waits, Issued, Unissued
<1>10. \A m \in Pairs : Issued(m) => pairs'[m] = pairs[m] /\ Issued(m)'
  BY <1>2, <1>3, <1>5
<1>11. FlowsInv'
  <2>1. ASSUME NEW k \in Logins, k # l
        PROVE  /\ calls'[k] <= 1 /\ (k \in states' => calls'[k] = 0)
               /\ k \in states' \/ calls'[k] > 0 \/ codes'[k] # 0 => logins'[k].at = "sso"
               /\ logins'[k].at # "idle" => logins'[k].user \in Users
               /\ codes'[k] # 0 => Waits(codes[k], k)'
               /\ logins'[k].at = "answered" => Waits(logins[k].pair, k)'
    BY <1>9, <1>10, <2>1 DEF TokenInv, FlowsInv, Waits
  <2>2. Waits(n, l)'
    BY <1>1, <1>3 DEF Waits
  <2> QED BY <1>1, <2>1, <2>2 DEF FlowsInv, TokenInv
<1>12. PairsInv'
  <2>1. Spent(l)'
    BY DEF Spent
  <2>2. ASSUME NEW m \in Pairs, m # n, Issued(m)
        PROVE  pairs[m].user \in Users /\ pairs[m].login \in Logins /\ Spent(pairs[m].login)'
    <3>1. /\ pairs[m].user \in Users /\ pairs[m].login \in Logins \ {l}
          /\ Spent(pairs[m].login)
      BY <1>5, <2>2 DEF TokenInv, PairsInv
    <3>2. ASSUME NEW k \in Logins \ {l}, Spent(k) PROVE Spent(k)'
      BY <3>2 DEF Spent
    <3>3. pairs'[m] = pairs[m]
      BY <1>2, <2>2
    <3> QED BY <3>1, <3>2, <3>3
  <2>3. ASSUME NEW m \in Pairs, m # n, ~Issued(m) PROVE m \notin jtis' /\ received'[m] = 0
    BY <1>4, <2>3 DEF TokenInv, PairsInv
  <2> QED BY <1>2, <1>3, <2>1, <2>2, <2>3 DEF PairsInv
<1>13. ChancesInv'
  <2>1. \A m, k \in jtis' : pairs'[m].login = pairs'[k].login => m = k
    <3>1. \A m \in jtis : pairs'[m] = pairs[m] /\ pairs[m].login # l
      BY <1>5, <1>6, <1>10
    <3> QED BY <1>3, <1>4, <3>1 DEF TokenInv, ChancesInv, LoginIsSingle
  <2>2. ASSUME NEW p \in Pages, refreshing[p].at = "consumed"
        PROVE  /\ pairs'[refreshing[p].old] = pairs[refreshing[p].old]
               /\ pairs[refreshing[p].old].login # l
    BY <1>5, <1>7, <1>10, <2>2 DEF Outstanding
  <2>3. ASSUME NEW p \in Pages, refreshing[p].at = "consumed", NEW m \in jtis'
        PROVE  pairs'[m].login # pairs'[refreshing[p].old].login
    BY <1>3, <1>4, <1>6, <1>10, <2>2, <2>3 DEF TokenInv, ChancesInv
  <2>4. ASSUME NEW p \in Pages, NEW q \in Pages,
               refreshing[p].at = "consumed", refreshing[q].at = "consumed",
               pairs'[refreshing[q].old].login = pairs'[refreshing[p].old].login
        PROVE  q = p
    BY <2>2, <2>4 DEF TokenInv, ChancesInv
  <2> QED BY <2>1, <2>3, <2>4 DEF ChancesInv, LoginIsSingle, TokenInv
<1>14. RefreshesInv'
  <2>1. ASSUME NEW p \in Pages, refreshing[p].at = "answered" PROVE Brings(p, refreshing[p].new)'
    <3>1. Brings(p, refreshing[p].new) /\ refreshing[p].new # n
      BY <1>1, <2>1 DEF TokenInv, RefreshesInv, Brings
    <3>2. /\ pairs'[refreshing[p].old] = pairs[refreshing[p].old]
          /\ pairs'[refreshing[p].new] = pairs[refreshing[p].new]
          /\ Issued(refreshing[p].new)'
      BY <1>7, <1>10, <2>1, <3>1 DEF Outstanding, Brings
    <3>3. \A k \in Logins : codes'[k] # refreshing[p].new
                           /\ (logins'[k].at = "answered" => logins'[k].pair # refreshing[p].new)
      BY <3>1, SignInAssumption DEF Brings, Pairs
    <3> QED BY <3>1, <3>2, <3>3 DEF Brings
  <2> QED BY <2>1 DEF TokenInv, RefreshesInv, Outstanding
<1>15. PlacesInv'
  BY DEF TokenInv, PlacesInv
<1>16. CurrentInv'
  <2>1. \A b \in Browsers : storage[b] # 0 => pairs'[storage[b]] = pairs[storage[b]]
    BY <1>8, <1>10
  <2>2. \A p \in Pages : Outstanding(p) => pairs'[refreshing[p].old] = pairs[refreshing[p].old]
    BY <1>7, <1>10
  <2> QED BY <2>1, <2>2 DEF TokenInv, CurrentInv, StoredIsCurrent, Outstanding
<1>17. ValidInv'
  BY <1>4 DEF TokenInv, ValidInv
<1>18. CalmInv'
  <2> SUFFICES ASSUME upsets' = 0, NEW b \in Browsers \ raced PROVE CalmBrowser(b)'
    BY DEF CalmInv
  <2>1. CalmBrowser(b)
    BY <1>4 DEF TokenInv, CalmInv
  <2>2. \A p \in Pages : Busy(p)' = Busy(p) /\ Outstanding(p)' = Outstanding(p)
    BY DEF Busy, Outstanding, InFlight
  <2> QED BY <1>4, <2>1, <2>2 DEF CalmBrowser, PagesOf
<1>19. ThrownOutForCause'
  <2>1. upsets > 0 => upsets' > 0
    BY DEF Issue, Upset, TokenInv, SessionTypeOK
  <2> QED BY <2>1 DEF TokenInv, ThrownOutForCause
<1> QED
  BY <1>11, <1>12, <1>13, <1>14, <1>15, <1>16, <1>17, <1>18, <1>19 DEF TokenInv

LEMMA IssueTypes ==
    ASSUME SessionTypeOK, NEW u \in Users, NEW l \in Logins, NEW n \in Pairs, Issue(u, l, n)
    PROVE  pairs' \in [Pairs -> PairRow] /\ jtis' \subseteq Pairs /\ upsets' \in 0..MaxUpsets
<1>1. pairs' \in [Pairs -> PairRow]
  BY DEF Issue, SessionTypeOK, PairRow
<1>2. jtis' \subseteq Pairs
  BY DEF Issue, SessionTypeOK
<1>3. upsets' \in 0..MaxUpsets
  BY SignInAssumption DEF Issue, Upset, SessionTypeOK
<1> QED BY <1>1, <1>2, <1>3

LEMMA UpsetType == ASSUME SessionTypeOK, Upset PROVE upsets' \in 0..MaxUpsets /\ upsets' > 0
BY SignInAssumption DEF Upset, SessionTypeOK

\* The handlers of password and single sign-on, and the interventions.
LEMMA TokenSteps ==
    ASSUME TokenInv, UNCHANGED sessionVars, NEW l, NEW u, NEW n,
           \/ l \in Logins /\ u \in Users /\ n \in Pairs /\ PasswordLogin(l, u, n)
           \/ l \in Logins /\ u \in Users /\ SsoAuthorize(l, u)
           \/ l \in Logins /\ (SsoCallback(l) \/ SsoRefused(l) \/ SsoLapses(l))
           \/ l \in Logins /\ n \in Pairs /\ (SsoMint(l, n) \/ KeyMint(l, n))
           \/ u \in Users /\ Deactivate(u)
           \/ n \in Pairs /\ RevokeJti(n)
    PROVE  TokenInv'
<1>1. /\ l \in Logins => logins[l] \in Login /\ calls[l] \in 0..2
      /\ logins \in [Logins -> Login]
      /\ calls \in [Logins -> 0..2] /\ codes \in [Logins -> 0..MaxPairs]
      /\ jtis \subseteq Pairs /\ SessionTypeOK
  BY DEF TokenInv, SessionTypeOK
<1>2. /\ UNCHANGED <<storage, refreshing, shown, requests, received, signedIn, raced, expired>>
      /\ n \in Pairs => n \in 0..MaxPairs
  BY SignInAssumption DEF sessionVars, Pairs
<1>4. CASE l \in Logins /\ u \in Users /\ n \in Pairs /\ PasswordLogin(l, u, n)
  <2>1. /\ logins' = [logins EXCEPT ![l] = [logins[l] EXCEPT !.at = "answered", !.user = u, !.pair = n]]
        /\ logins[l].at = "idle" /\ Issue(u, l, n)
        /\ UNCHANGED <<active, states, calls, codes, challenge, enrolling, keys, ticks>>
    BY <1>1, <1>4 DEF PasswordLogin
  <2>2. [logins[l] EXCEPT !.at = "answered", !.user = u, !.pair = n] \in Login
    BY <1>4, <1>1, <1>2 DEF Login
  <2>3. SessionTypeOK'
    BY <1>4, <1>1, <1>2, <2>1, <2>2, IssueTypes DEF SessionTypeOK
  <2>4. /\ logins'[l].at = "answered" /\ logins'[l].user \in Users /\ logins'[l].pair = n
        /\ \A k \in Logins \ {l} : logins'[k] = logins[k]
    BY <1>4, <1>1, <2>1 DEF Login
  <2>5. ~Spent(l) /\ l \notin states /\ calls[l] = 0 /\ codes[l] = 0
    BY <1>4, <1>1, <2>1 DEF Spent, TokenInv, FlowsInv
  <2> QED BY <1>4, <1>2, <2>1, <2>3, <2>4, <2>5, MintKeeps
<1>5. CASE l \in Logins /\ n \in Pairs /\ KeyMint(l, n)
  <2>1. /\ logins' = [logins EXCEPT ![l] = [logins[l] EXCEPT !.at = "answered", !.pair = n]]
        /\ logins[l].at = "keyed" /\ Issue(logins[l].user, l, n)
        /\ UNCHANGED <<active, states, calls, codes, challenge, enrolling, keys, ticks>>
    BY <1>1, <1>5 DEF KeyMint
  <2>2. [logins[l] EXCEPT !.at = "answered", !.pair = n] \in Login
    BY <1>5, <1>1, <1>2 DEF Login
  <2>3. logins[l].user \in Users
    BY <1>5, <2>1 DEF TokenInv, FlowsInv
  <2>4. SessionTypeOK'
    BY <1>5, <1>1, <1>2, <2>1, <2>2, <2>3, IssueTypes DEF SessionTypeOK
  <2>5. /\ logins'[l].at = "answered" /\ logins'[l].user \in Users /\ logins'[l].pair = n
        /\ \A k \in Logins \ {l} : logins'[k] = logins[k]
    BY <1>5, <1>1, <2>1, <2>3 DEF Login
  <2>6. ~Spent(l) /\ l \notin states /\ calls[l] = 0 /\ codes[l] = 0
    BY <1>5, <1>1, <2>1 DEF Spent, TokenInv, FlowsInv
  <2> QED BY <1>5, <1>2, <2>1, <2>3, <2>4, <2>5, <2>6, MintKeeps
<1>6. CASE l \in Logins /\ n \in Pairs /\ SsoMint(l, n)
  <2>1. /\ calls[l] > 0 /\ Issue(logins[l].user, l, n)
        /\ calls' = [calls EXCEPT ![l] = calls[l] - 1] /\ codes' = [codes EXCEPT ![l] = n]
        /\ UNCHANGED <<active, states, challenge, enrolling, keys, ticks, logins>>
    BY <1>6 DEF SsoMint
  <2>2. logins[l].at = "sso" /\ logins[l].user \in Users /\ calls[l] = 1 /\ l \notin states
    BY <1>6, <1>1, <2>1 DEF TokenInv, FlowsInv
  <2>3. SessionTypeOK'
    BY <1>6, <1>1, <1>2, <2>1, <2>2, IssueTypes DEF SessionTypeOK
  <2>4. /\ codes'[l] = n /\ calls'[l] = 0
        /\ \A k \in Logins \ {l} : calls'[k] = calls[k] /\ codes'[k] = codes[k] /\ logins'[k] = logins[k]
    BY <1>6, <1>1, <2>1, <2>2
  <2>5. ~Spent(l) /\ logins'[l] = logins[l]
    BY <1>6, <2>1, <2>2 DEF Spent
  <2> QED BY <1>6, <1>2, <2>1, <2>2, <2>3, <2>4, <2>5, MintKeeps
<1>7. CASE l \in Logins /\ u \in Users /\ SsoAuthorize(l, u)
  <2>1. /\ logins' = [logins EXCEPT ![l] = [logins[l] EXCEPT !.at = "sso", !.user = u]]
        /\ logins[l].at = "idle" /\ states' = states \cup {l}
        /\ UNCHANGED <<active, pairs, jtis, calls, codes, challenge, enrolling, keys, ticks, upsets>>
    BY <1>1, <1>7 DEF SsoAuthorize
  <2>2. [logins[l] EXCEPT !.at = "sso", !.user = u] \in Login
    BY <1>7, <1>1 DEF Login
  <2>3. SessionTypeOK'
    BY <1>7, <1>1, <1>2, <2>1, <2>2 DEF SessionTypeOK
  <2>4. /\ logins'[l].at = "sso" /\ logins'[l].user \in Users
        /\ \A k \in Logins \ {l} : logins'[k] = logins[k]
    BY <1>7, <1>1, <2>1 DEF Login
  <2>5. FlowsInv'
    BY <1>7, <1>1, <1>2, <2>1, <2>4 DEF TokenInv, FlowsInv, Waits
  <2>6. \A k \in Logins : Spent(k) => Spent(k)'
    BY <1>7, <2>1, <2>4 DEF Spent
  <2>7. PairsInv'
    BY <1>7, <1>2, <2>1, <2>6 DEF TokenInv, PairsInv, Issued
  <2>8. ChancesInv' /\ PlacesInv' /\ CurrentInv'
    BY <1>7, <1>2, <2>1 DEF TokenInv, ChancesInv, LoginIsSingle, PlacesInv, CurrentInv, StoredIsCurrent, Outstanding
  <2>9. RefreshesInv'
    BY <1>7, <1>2, <2>1, <2>4 DEF TokenInv, RefreshesInv, Brings, Issued, Outstanding
  <2>10. ValidInv'
    BY <1>7, <1>2, <2>1, <2>4 DEF TokenInv, ValidInv
  <2>11. CalmInv' /\ ThrownOutForCause'
    BY <1>7, <1>2, <2>1 DEF TokenInv, CalmInv, CalmBrowser, PagesOf, Outstanding, Busy, InFlight, ThrownOutForCause
  <2> QED BY <1>7, <1>2, <2>3, <2>5, <2>7, <2>8, <2>9, <2>10, <2>11 DEF TokenInv
<1>8. CASE l \in Logins /\ (SsoCallback(l) \/ SsoRefused(l) \/ SsoLapses(l))
  <2>1. /\ UNCHANGED <<active, pairs, jtis, challenge, enrolling, keys, ticks, logins, upsets>>
        /\ states' \subseteq states
        /\ calls' \in [Logins -> 0..2] /\ codes' \in [Logins -> 0..MaxPairs]
        /\ \A k \in Logins : codes'[k] # 0 => codes'[k] = codes[k]
    BY <1>1, <1>8, SignInAssumption DEF SsoCallback, SsoRefused, SsoLapses, TokenInv, FlowsInv
  <2>2. \A k \in Logins : /\ calls'[k] <= 1 /\ (k \in states' => calls'[k] = 0)
                          /\ calls'[k] > 0 => calls[k] > 0 \/ k \in states
    BY <1>1, <1>8 DEF SsoCallback, SsoRefused, SsoLapses, TokenInv, FlowsInv
  <2>3. SessionTypeOK'
    BY <1>1, <1>2, <2>1 DEF SessionTypeOK
  <2>4. FlowsInv'
    <3> SUFFICES ASSUME NEW k \in Logins
                 PROVE  /\ calls'[k] <= 1 /\ (k \in states' => calls'[k] = 0)
                        /\ k \in states' \/ calls'[k] > 0 \/ codes'[k] # 0 => logins[k].at = "sso"
                        /\ logins[k].at # "idle" => logins[k].user \in Users
                        /\ codes'[k] # 0 => Waits(codes[k], k)'
                        /\ logins[k].at = "answered" => Waits(logins[k].pair, k)'
      BY <2>1 DEF FlowsInv
    <3>1. codes'[k] # 0 => Waits(codes[k], k)'
      BY <1>2, <2>1 DEF TokenInv, FlowsInv, Waits
    <3>2. logins[k].at = "answered" => Waits(logins[k].pair, k)'
      BY <1>2, <2>1 DEF TokenInv, FlowsInv, Waits
    <3>3. k \in states' \/ calls'[k] > 0 \/ codes'[k] # 0 => logins[k].at = "sso"
      BY <2>1, <2>2 DEF TokenInv, FlowsInv
    <3> QED BY <2>2, <3>1, <3>2, <3>3 DEF TokenInv, FlowsInv
  <2>5. ASSUME NEW k \in Logins, Spent(k) PROVE Spent(k)'
    <3>1. calls'[k] \in 0..2 /\ k \notin states /\ calls[k] = 0
      BY <2>1, <2>5 DEF Spent
    <3>2. calls'[k] = 0
      BY <2>2, <3>1
    <3> QED BY <2>1, <2>5, <3>1, <3>2 DEF Spent
  <2>6. PairsInv'
    BY <1>2, <2>1, <2>5 DEF TokenInv, PairsInv, Issued
  <2>7. ChancesInv' /\ PlacesInv' /\ CurrentInv'
    BY <1>2, <2>1 DEF TokenInv, ChancesInv, LoginIsSingle, PlacesInv, CurrentInv, StoredIsCurrent, Outstanding
  <2>8. RefreshesInv'
    <3>1. ASSUME NEW p \in Pages, Brings(p, refreshing[p].new) PROVE Brings(p, refreshing[p].new)'
      <4>1. refreshing[p].new # 0
        BY <3>1, SignInAssumption DEF Brings, Pairs
      <4> QED BY <1>2, <2>1, <3>1, <4>1 DEF Brings, Issued
    <3> QED BY <1>2, <3>1 DEF TokenInv, RefreshesInv, Outstanding
  <2>9. ValidInv'
    BY <1>2, <2>1 DEF TokenInv, ValidInv
  <2>10. CalmInv' /\ ThrownOutForCause'
    BY <1>2, <2>1 DEF TokenInv, CalmInv, CalmBrowser, PagesOf, Outstanding, Busy, InFlight, ThrownOutForCause
  <2> QED BY <1>2, <2>3, <2>4, <2>6, <2>7, <2>8, <2>9, <2>10 DEF TokenInv
<1>9. CASE (u \in Users /\ Deactivate(u)) \/ (n \in Pairs /\ RevokeJti(n))
  <2>1. /\ UNCHANGED <<pairs, states, calls, codes, challenge, enrolling, keys, ticks, logins>>
        /\ jtis' \subseteq jtis /\ Upset /\ active' \in [Users -> BOOLEAN]
    BY <1>1, <1>9 DEF Deactivate, RevokeJti, SessionTypeOK
  <2>2. SessionTypeOK' /\ upsets' > 0
    BY <1>1, <1>2, <2>1, UpsetType DEF SessionTypeOK
  <2>3. FlowsInv' /\ PairsInv'
    BY <1>2, <2>1 DEF TokenInv, FlowsInv, Waits, PairsInv, Issued, Spent
  <2>4. ChancesInv' /\ PlacesInv' /\ CurrentInv'
    BY <1>2, <2>1 DEF TokenInv, ChancesInv, LoginIsSingle, PlacesInv, CurrentInv, StoredIsCurrent, Outstanding
  <2>5. RefreshesInv'
    BY <1>2, <2>1 DEF TokenInv, RefreshesInv, Brings, Issued, Outstanding
  <2> QED BY <1>2, <2>2, <2>3, <2>4, <2>5 DEF TokenInv, ValidInv, CalmInv, ThrownOutForCause
<1> QED BY <1>4, <1>5, <1>6, <1>7, <1>8, <1>9

-----------------------------------------------------------------------------
(* Passkeys *)

LEMMA InitialKeys == SessionInit => KeyInv
BY SignInAssumption DEF SessionInit, SignInInit, KeyInv

\* Steps that are not about passkeys leave the counters alone.
LEMMA KeysRest ==
    ASSUME SessionTypeOK, KeyInv, UNCHANGED <<keys, enrolling>>,
           \A l \in Logins :
              /\ logins'[l].sign = logins[l].sign /\ logins'[l].seen = logins[l].seen
              /\ logins'[l].raced = logins[l].raced
              /\ \/ logins'[l].at = logins[l].at /\ logins'[l].user = logins[l].user
                 \/ logins[l].at = "idle" /\ logins'[l].at \in {"sso", "answered"}
                       /\ logins'[l].user \in Users
                 \/ logins[l].at \in {"keyed", "answered"} /\ logins'[l].at \in {"answered", "done"}
                       /\ logins'[l].user = logins[l].user
    PROVE  KeyInv'
<1>1. \A k \in Logins : Overtaken(k) => Overtaken(k)' /\ logins'[k].user = logins[k].user
  BY DEF Overtaken, KeyInv
<1>2. \A u \in Users : keys[u].count \in Nat
  BY DEF SessionTypeOK, KeyRow
<1>3. ASSUME NEW l \in Logins, logins'[l].at \in {"keyed", "answered", "done"}
      PROVE  \/ logins'[l].sign <= keys[logins'[l].user].count
             \/ \E k \in Logins : logins'[k].user = logins'[l].user /\ Overtaken(k)'
  <2>1. CASE logins[l].at = "idle"
    BY <1>2, <1>3, <2>1 DEF KeyInv
  <2>2. CASE logins[l].at # "idle"
    <3>1. logins[l].at \in {"keyed", "answered", "done"} /\ logins'[l].user = logins[l].user
      BY <1>3, <2>2
    <3> QED BY <1>1, <3>1 DEF KeyInv
  <2> QED BY <2>1, <2>2
<1>4. \A l \in Logins :
        /\ logins'[l].at \in {"idle", "sso"} => logins'[l].sign = 0
        /\ logins'[l].at \in {"idle", "sso", "challenged", "signed"} => ~logins'[l].raced
        /\ logins'[l].at \in {"challenged", "signed", "read", "verified", "keyed"} \/ logins'[l].sign > 0
              => keys[logins'[l].user].state # "new"
        /\ logins'[l].at \in {"read", "verified"} /\ ~logins'[l].raced =>
              logins'[l].seen = keys[logins'[l].user].count
        /\ logins'[l].at = "verified" =>
              logins'[l].sign > logins'[l].seen \/ (logins'[l].sign = 0 /\ logins'[l].seen = 0)
  BY DEF KeyInv
<1> QED BY <1>3, <1>4 DEF KeyInv

\* The steps of passkey logins up to the tokens.
LEMMA KeySteps ==
    ASSUME TokenInv, KeyInv, UNCHANGED sessionVars, NEW l \in Logins, NEW u \in Users,
           \/ KeyBegin(l, u) \/ KeySign(l) \/ KeyRead(l) \/ KeyVerify(l) \/ KeyCommit(l)
           \/ KeyAccountDisabled(l)
    PROVE  TokenInv' /\ KeyInv'
<1>1. /\ logins[l] \in Login /\ logins \in [Logins -> Login] /\ ticks \in [Users -> 0..MaxTicks]
      /\ keys \in [Users -> KeyRow] /\ SessionTypeOK
      /\ challenge \in [Users -> Logins \cup {NoLogin}]
  BY DEF TokenInv, SessionTypeOK
<1>2. /\ UNCHANGED <<storage, refreshing, shown, requests, received, signedIn, raced, expired>>
      /\ UNCHANGED <<active, pairs, jtis, states, calls, codes, enrolling, upsets>>
  BY DEF sessionVars, KeyBegin, KeySign, KeyRead, KeyVerify, KeyCommit, KeyAccountDisabled
<1>3. \A k \in Logins : logins[k].at # "idle" => logins[k].user \in Users
  BY DEF TokenInv, FlowsInv
\* What is left to show of a step that moves l alone.
<1>4. ASSUME NEW q \in Login, logins' = [logins EXCEPT ![l] = q],
             logins[l].at \notin {"sso", "answered", "done"},
             q.at \notin {"idle", "sso", "answered", "done"}, q.user \in Users,
             keys' = keys, ticks' \in [Users -> 0..MaxTicks],
             challenge' \in [Users -> Logins \cup {NoLogin}],
             logins[l].at = "idle" \/ q.user = logins[l].user,
             q.at \in {"challenged", "signed", "read", "verified", "refused"},
             logins[l].at \notin {"read", "verified"} => q.sign = 0 \/ keys[q.user].state # "new",
             logins[l].at \in {"read", "verified"} => q.sign = logins[l].sign,
             q.raced = logins[l].raced,
             q.at \in {"challenged", "signed"} => logins[l].at \in {"idle", "challenged"},
             q.at \in {"read", "verified"} => logins[l].at \in {"signed", "read"},
             q.at # "refused" => keys[q.user].state # "new",
             q.at \in {"read", "verified"} /\ ~q.raced => q.seen = keys[q.user].count,
             q.at = "verified" => q.sign > q.seen \/ (q.sign = 0 /\ q.seen = 0)
      PROVE  TokenInv' /\ KeyInv'
  <2>1. logins'[l] = q /\ \A k \in Logins \ {l} : logins'[k] = logins[k]
    BY <1>1, <1>4
  <2>2. SessionTypeOK'
    BY <1>1, <1>2, <1>4 DEF SessionTypeOK
  <2>3. TokenInv'
    BY <1>2, <1>4, <2>1, <2>2, FlowKeeps DEF tokenVars
  <2>4. \A k \in Logins : Overtaken(k) => Overtaken(k)' /\ logins'[k].user = logins[k].user
    BY <1>4, <2>1 DEF Overtaken, KeyInv
  <2>5. KeyInv'
    <3>1. ASSUME NEW k \in Logins \ {l}, logins[k].at \in {"keyed", "answered", "done"}
          PROVE  \/ logins[k].sign <= keys[logins[k].user].count
                 \/ \E j \in Logins : logins'[j].user = logins[k].user /\ Overtaken(j)'
      BY <2>4, <3>1 DEF KeyInv
    <3>2. q.sign > 0 => keys[q.user].state # "new"
      BY <1>1, <1>4 DEF KeyInv, Login
    <3> QED BY <1>2, <1>4, <2>1, <3>1, <3>2 DEF KeyInv
  <2> QED BY <2>3, <2>5
<1>5. CASE KeyBegin(l, u)
  <2> DEFINE q == [logins[l] EXCEPT !.at = "challenged", !.user = u]
  <2>1. /\ logins[l].at = "idle" /\ keys[u].state = "enrolled" /\ keys' = keys /\ ticks' = ticks
        /\ logins' = [logins EXCEPT ![l] = q]
        /\ challenge' \in [Users -> Logins \cup {NoLogin}]
    BY <1>1, <1>5 DEF KeyBegin
  <2>2. q \in Login /\ q.at = "challenged" /\ q.user = u /\ q.sign = logins[l].sign /\ q.raced = logins[l].raced
    BY <1>1 DEF Login
  <2>3. q.sign = 0
    BY <2>1, <2>2 DEF KeyInv
  <2> HIDE DEF q
  <2> QED BY <1>1, <1>4, <2>1, <2>2, <2>3
<1>6. CASE KeySign(l)
  <2>1. PICK c \in 0..MaxTicks :
          /\ logins' = [logins EXCEPT ![l] = [logins[l] EXCEPT !.at = "signed", !.sign = c]]
          /\ ticks' \in [Users -> 0..MaxTicks]
    <3>1. logins[l].user \in Users
      BY <1>3, <1>6 DEF KeySign
    <3>2. ticks[logins[l].user] \in 0..MaxTicks
      BY <1>1, <3>1
    <3>3. CASE /\ ticks[logins[l].user] < MaxTicks
               /\ ticks' = [ticks EXCEPT ![logins[l].user] = ticks[logins[l].user] + 1]
               /\ logins' = [logins EXCEPT ![l] =
                              [logins[l] EXCEPT !.at = "signed", !.sign = ticks[logins[l].user] + 1]]
      <4>1. ticks[logins[l].user] + 1 \in 0..MaxTicks
        BY <3>2, <3>3, SignInAssumption
      <4> QED BY <1>1, <3>3, <4>1
    <3>4. CASE \E c \in (IF ticks[logins[l].user] = 0 THEN {0} ELSE 1..ticks[logins[l].user]) :
               /\ logins' = [logins EXCEPT ![l] = [logins[l] EXCEPT !.at = "signed", !.sign = c]]
               /\ ticks' = ticks
      <4>1. \A c \in (IF ticks[logins[l].user] = 0 THEN {0} ELSE 1..ticks[logins[l].user]) :
              c \in 0..MaxTicks
        BY <3>2, SignInAssumption
      <4> QED BY <1>1, <3>4, <4>1
    <3> QED BY <1>1, <1>6, <3>3, <3>4 DEF KeySign
  <2> DEFINE q == [logins[l] EXCEPT !.at = "signed", !.sign = c]
  <2>2. /\ logins[l].at = "challenged" /\ keys' = keys /\ challenge' = challenge
        /\ logins[l].user \in Users
    BY <1>3, <1>6 DEF KeySign
  <2>3. q \in Login /\ q.at = "signed" /\ q.user = logins[l].user /\ q.raced = logins[l].raced
    BY <1>1 DEF Login
  <2>4. keys[q.user].state # "new" /\ logins' = [logins EXCEPT ![l] = q]
    BY <2>1, <2>2, <2>3 DEF KeyInv
  <2> HIDE DEF q
  <2> QED BY <1>1, <1>4, <2>1, <2>2, <2>3, <2>4
<1>7. CASE KeyRead(l)
  <2>1. /\ logins[l].at = "signed" /\ keys' = keys /\ challenge' = challenge /\ ticks' = ticks
        /\ logins[l].user \in Users /\ keys[logins[l].user].count \in 0..MaxTicks
        /\ keys[logins[l].user].state # "new"
    BY <1>1, <1>3, <1>7 DEF KeyRead, KeyRow, KeyInv
  <2>2. CASE keys[logins[l].user].state = "enrolled"
    <3> DEFINE q == [logins[l] EXCEPT !.at = "read", !.seen = keys[logins[l].user].count]
    <3>1. logins' = [logins EXCEPT ![l] = q]
      BY <1>1, <1>7, <2>2 DEF KeyRead
    <3>2. /\ q \in Login /\ q.at = "read" /\ q.user = logins[l].user /\ q.raced = logins[l].raced
          /\ q.seen = keys[logins[l].user].count
      BY <1>1, <2>1 DEF Login
    <3> HIDE DEF q
    <3> QED BY <1>1, <1>4, <2>1, <3>1, <3>2
  <2>3. CASE keys[logins[l].user].state # "enrolled"
    <3> DEFINE q == [logins[l] EXCEPT !.at = "refused"]
    <3>1. logins' = [logins EXCEPT ![l] = q]
      BY <1>1, <1>7, <2>3 DEF KeyRead
    <3>2. q \in Login /\ q.at = "refused" /\ q.user = logins[l].user /\ q.raced = logins[l].raced
      BY <1>1, <2>1 DEF Login
    <3> HIDE DEF q
    <3> QED BY <1>1, <1>4, <2>1, <3>1, <3>2
  <2> QED BY <2>2, <2>3
<1>8. CASE KeyVerify(l)
  <2> DEFINE q == [logins[l] EXCEPT !.at = IF Verifies(l) THEN "verified" ELSE "refused"]
  <2>1. /\ logins[l].at = "read" /\ keys' = keys /\ ticks' = ticks
        /\ challenge' \in [Users -> Logins \cup {NoLogin}]
        /\ logins[l].user \in Users /\ keys[logins[l].user].state # "new"
        /\ logins' = [logins EXCEPT ![l] = q]
    BY <1>1, <1>3, <1>8 DEF KeyVerify, KeyInv, At
  <2>2. /\ q \in Login /\ q.at = (IF Verifies(l) THEN "verified" ELSE "refused")
        /\ q.user = logins[l].user /\ q.raced = logins[l].raced
        /\ q.seen = logins[l].seen /\ q.sign = logins[l].sign
    BY <1>1, <2>1 DEF Login
  <2>3. q.at = "verified" => q.sign > q.seen \/ (q.sign = 0 /\ q.seen = 0)
    BY <2>2 DEF Verifies
  <2>4. q.at = "verified" /\ ~q.raced => q.seen = keys[q.user].count
    BY <2>1, <2>2 DEF KeyInv
  <2> HIDE DEF q
  <2>5. q.at \in {"verified", "refused"}
    BY <2>2
  <2> QED BY <1>1, <1>4, <2>1, <2>2, <2>3, <2>4, <2>5
<1>9. CASE KeyAccountDisabled(l)
  <2> DEFINE q == [logins[l] EXCEPT !.at = "refused"]
  <2>1. /\ logins[l].at = "keyed" /\ keys' = keys /\ ticks' = ticks /\ challenge' = challenge
        /\ logins[l].user \in Users /\ logins' = [logins EXCEPT ![l] = q]
    BY <1>1, <1>3, <1>9 DEF KeyAccountDisabled, At
  <2>2. /\ q \in Login /\ q.at = "refused" /\ q.user = logins[l].user /\ q.raced = logins[l].raced
        /\ q.sign = logins[l].sign
    BY <1>1, <2>1 DEF Login
  <2> HIDE DEF q
  <2>3. logins'[l] = q /\ \A k \in Logins \ {l} : logins'[k] = logins[k]
    BY <1>1, <2>1
  <2>4. SessionTypeOK'
    BY <1>1, <1>2, <2>1, <2>2 DEF SessionTypeOK
  <2>5. TokenInv'
    BY <1>2, <2>1, <2>2, <2>3, <2>4, FlowKeeps DEF tokenVars
  <2>6. \A k \in Logins : Overtaken(k) => Overtaken(k)' /\ logins'[k].user = logins[k].user
    BY <2>1, <2>2, <2>3 DEF Overtaken
  <2>7. ASSUME NEW k \in Logins \ {l}, logins[k].at \in {"keyed", "answered", "done"}
        PROVE  \/ logins[k].sign <= keys[logins[k].user].count
               \/ \E j \in Logins : logins'[j].user = logins[k].user /\ Overtaken(j)'
    BY <2>6, <2>7 DEF KeyInv
  <2>8. KeyInv'
    BY <1>2, <2>1, <2>2, <2>3, <2>7 DEF KeyInv
  <2> QED BY <2>5, <2>8
<1>10. CASE KeyCommit(l) /\ keys[logins[l].user].state = "deleted" /\ logins[l].sign # logins[l].seen
  <2> DEFINE q == [logins[l] EXCEPT !.at = "refused"]
  <2>1. /\ logins[l].at = "verified" /\ keys' = keys /\ ticks' = ticks /\ challenge' = challenge
        /\ logins[l].user \in Users /\ logins' = [logins EXCEPT ![l] = q]
    BY <1>1, <1>3, <1>10 DEF KeyCommit, At
  <2>2. /\ q \in Login /\ q.at = "refused" /\ q.user = logins[l].user /\ q.raced = logins[l].raced
        /\ q.sign = logins[l].sign
    BY <1>1, <2>1 DEF Login
  <2> HIDE DEF q
  <2> QED BY <1>1, <1>4, <2>1, <2>2
<1>11. CASE KeyCommit(l) /\ ~(keys[logins[l].user].state = "deleted" /\ logins[l].sign # logins[l].seen)
  <2> DEFINE w == logins[l].user
  <2>1. /\ logins[l].at = "verified" /\ ticks' = ticks /\ challenge' = challenge
        /\ w \in Users /\ logins[l].sign \in 0..MaxTicks
        /\ keys' = [keys EXCEPT ![w] = [keys[w] EXCEPT !.count = logins[l].sign]]
        /\ logins' = [k \in Logins |->
                 IF k = l THEN [logins[k] EXCEPT !.at = "keyed"]
                 ELSE IF logins[k].user = w /\ logins[k].at \in {"read", "verified"}
                      THEN [logins[k] EXCEPT !.raced = TRUE]
                      ELSE logins[k]]
    BY <1>1, <1>3, <1>11 DEF KeyCommit, Login
  <2>2. /\ keys' \in [Users -> KeyRow]
        /\ keys'[w].count = logins[l].sign
        /\ \A v \in Users \ {w} : keys'[v] = keys[v]
        /\ \A v \in Users : keys'[v].state = keys[v].state
    BY <1>1, <2>1 DEF KeyRow
  <2>3. ASSUME NEW k \in Logins
        PROVE  /\ logins'[k] \in Login
               /\ logins'[k].user = logins[k].user /\ logins'[k].pair = logins[k].pair
               /\ logins'[k].seen = logins[k].seen /\ logins'[k].sign = logins[k].sign
               /\ logins'[k].at = IF k = l THEN "keyed" ELSE logins[k].at
               /\ logins'[k].raced = \/ logins[k].raced
                                     \/ /\ k # l /\ logins[k].user = w
                                        /\ logins[k].at \in {"read", "verified"}
    <3>1. logins[k] \in Login
      BY <1>1
    <3>2. /\ [logins[k] EXCEPT !.at = "keyed"] \in Login
          /\ [logins[k] EXCEPT !.raced = TRUE] \in Login
      BY <3>1 DEF Login
    <3>3. CASE k = l
      BY <2>1, <3>1, <3>2, <3>3 DEF Login
    <3>4. CASE k # l /\ logins[k].user = w /\ logins[k].at \in {"read", "verified"}
      <4>1. logins'[k] = [logins[k] EXCEPT !.raced = TRUE]
        BY <2>1, <3>4
      <4> QED BY <3>1, <3>2, <3>4, <4>1 DEF Login
    <3>5. CASE k # l /\ ~(logins[k].user = w /\ logins[k].at \in {"read", "verified"})
      <4>1. logins'[k] = logins[k]
        BY <2>1, <3>5
      <4> QED BY <3>1, <3>5, <4>1 DEF Login
    <3> QED BY <3>3, <3>4, <3>5
  <2> HIDE DEF w
  <2>4. logins' \in [Logins -> Login]
    BY <2>1, <2>3
  <2>5. SessionTypeOK'
    BY <1>1, <1>2, <2>1, <2>2, <2>4 DEF SessionTypeOK
  <2>6. TokenInv'
    <3>1. \A k \in Logins :
              \/ /\ logins'[k].at = logins[k].at /\ logins'[k].user = logins[k].user
                 /\ logins'[k].pair = logins[k].pair
              \/ /\ logins[k].at \notin {"sso", "answered", "done"}
                 /\ logins'[k].at \notin {"idle", "sso", "answered", "done"}
                 /\ logins'[k].user \in Users
      BY <2>1, <2>3 DEF w
    <3> QED BY <1>2, <2>5, <3>1, FlowKeeps DEF tokenVars
  <2>7. \A k \in Logins : Overtaken(k) => Overtaken(k)' /\ logins'[k].user = logins[k].user
    BY <2>1, <2>3 DEF Overtaken
  <2>8. logins[l].raced => Overtaken(l)' /\ logins'[l].user = w
    BY <2>3 DEF Overtaken, w
  <2>9. ~logins[l].raced => keys[w].count <= logins[l].sign
    <3>1. ~logins[l].raced => logins[l].seen = keys[w].count
      BY <2>1 DEF KeyInv, w
    <3>2. logins[l].sign > logins[l].seen \/ (logins[l].sign = 0 /\ logins[l].seen = 0)
      BY <2>1 DEF KeyInv
    <3> QED BY <2>1, <1>1, <3>1, <3>2 DEF KeyRow, Login
  <2>10. ASSUME NEW k \in Logins, logins'[k].at \in {"keyed", "answered", "done"}
         PROVE  \/ logins'[k].sign <= keys'[logins'[k].user].count
                \/ \E j \in Logins : logins'[j].user = logins'[k].user /\ Overtaken(j)'
    <3>1. CASE k = l
      <4>1. logins'[l].sign = keys'[w].count /\ logins'[l].user = w /\ keys'[w].count \in 0..MaxTicks
        BY <2>1, <2>2, <2>3 DEF w
      <4> QED BY <3>1, <4>1
    <3>2. CASE k # l /\ logins[k].user # w
      <4>1. keys'[logins[k].user] = keys[logins[k].user]
        BY <1>3, <2>2, <2>3, <2>10, <3>2
      <4>2. /\ logins'[k].sign = logins[k].sign /\ logins'[k].user = logins[k].user
            /\ logins[k].at \in {"keyed", "answered", "done"}
        BY <2>3, <2>10, <3>2
      <4>3. \/ logins[k].sign <= keys[logins[k].user].count
            \/ \E j \in Logins : logins[j].user = logins[k].user /\ Overtaken(j)
        BY <4>2 DEF KeyInv
      <4> QED BY <2>7, <4>1, <4>2, <4>3
    <3>3. CASE k # l /\ logins[k].user = w
      <4>1. \/ logins[k].sign <= keys[w].count
            \/ \E j \in Logins : logins[j].user = w /\ Overtaken(j)
        BY <2>3, <2>10, <3>3 DEF KeyInv
      <4>2. CASE logins[k].sign <= keys[w].count
        <5>1. logins[k].sign \in Nat /\ keys[w].count \in Nat /\ logins[l].sign \in Nat
          BY <1>1, <2>1 DEF Login, KeyRow
        <5>2. CASE ~logins[l].raced
          <6>1. logins'[k].sign = logins[k].sign /\ logins'[k].user = w
            BY <2>3, <3>3
          <6> QED BY <2>2, <2>9, <4>2, <5>1, <5>2, <6>1
        <5>3. CASE logins[l].raced
          BY <2>3, <2>8, <3>3, <5>3
        <5> QED BY <5>2, <5>3
      <4>3. CASE \E j \in Logins : logins[j].user = w /\ Overtaken(j)
        BY <2>3, <2>7, <3>3, <4>3
      <4> QED BY <4>1, <4>2, <4>3
    <3> QED BY <3>1, <3>2, <3>3
  <2>11. \A v \in Users : enrolling'[v] => keys'[v].state = "new"
    BY <1>2, <2>2 DEF KeyInv
  <2>12. ASSUME NEW k \in Logins
         PROVE  /\ logins'[k].at \in {"idle", "sso"} => logins'[k].sign = 0
                /\ logins'[k].at \in {"idle", "sso", "challenged", "signed"} => ~logins'[k].raced
                /\ logins'[k].at = "verified" =>
                     logins'[k].sign > logins'[k].seen \/ (logins'[k].sign = 0 /\ logins'[k].seen = 0)
    BY <2>3 DEF KeyInv
  <2>13. ASSUME NEW k \in Logins,
                logins'[k].at \in {"challenged", "signed", "read", "verified", "keyed"} \/ logins'[k].sign > 0
         PROVE  keys'[logins'[k].user].state # "new"
    <3>1. keys[logins[k].user].state # "new" /\ logins[k].at # "idle"
      BY <1>1, <2>1, <2>3, <2>13 DEF KeyInv, Login
    <3> QED BY <1>3, <2>2, <2>3, <3>1
  <2>14. ASSUME NEW k \in Logins, logins'[k].at \in {"read", "verified"}, ~logins'[k].raced
         PROVE  logins'[k].seen = keys'[logins'[k].user].count
    <3>1. k # l /\ logins[k].user # w /\ logins[k].at \in {"read", "verified"} /\ ~logins[k].raced
      BY <2>3, <2>14
    <3>2. keys'[logins[k].user] = keys[logins[k].user]
      BY <1>3, <2>2, <3>1
    <3>3. logins[k].seen = keys[logins[k].user].count
      BY <3>1 DEF KeyInv
    <3> QED BY <2>3, <3>2, <3>3
  <2>15. KeyInv'
    BY <2>10, <2>11, <2>12, <2>13, <2>14 DEF KeyInv
  <2> QED BY <2>6, <2>15
<1> QED BY <1>5, <1>6, <1>7, <1>8, <1>9, <1>10, <1>11

\* Enrolment, deletion, and challenges that lapse.
LEMMA KeyRowSteps ==
    ASSUME TokenInv, KeyInv, UNCHANGED sessionVars, NEW u \in Users,
           KeyRegisterBegin(u) \/ KeyRegisterComplete(u) \/ KeyDelete(u) \/ ChallengeLapses(u)
    PROVE  TokenInv' /\ KeyInv'
<1>1. /\ keys \in [Users -> KeyRow] /\ enrolling \in [Users -> BOOLEAN] /\ SessionTypeOK
      /\ ticks \in [Users -> 0..MaxTicks] /\ challenge \in [Users -> Logins \cup {NoLogin}]
      /\ logins \in [Logins -> Login]
  BY DEF TokenInv, SessionTypeOK
<1>2. /\ UNCHANGED <<active, pairs, jtis, states, calls, codes, upsets, logins, ticks>>
      /\ UNCHANGED <<storage, refreshing, shown, requests, received, signedIn, raced, expired>>
  BY DEF sessionVars, KeyRegisterBegin, KeyRegisterComplete, KeyDelete, ChallengeLapses
<1>3. /\ keys' \in [Users -> KeyRow] /\ enrolling' \in [Users -> BOOLEAN]
      /\ challenge' \in [Users -> Logins \cup {NoLogin}]
  <2>1. CASE KeyRegisterBegin(u) \/ ChallengeLapses(u)
    BY <1>1, <2>1 DEF KeyRegisterBegin, ChallengeLapses
  <2>2. CASE KeyRegisterComplete(u)
    <3>1. [state |-> "enrolled", count |-> ticks[u]] \in KeyRow
      BY <1>1 DEF KeyRow
    <3> QED BY <1>1, <2>2, <3>1 DEF KeyRegisterComplete
  <2>3. CASE KeyDelete(u)
    <3>1. keys' = [keys EXCEPT ![u] = [keys[u] EXCEPT !.state = "deleted"]]
      BY <1>1, <2>3 DEF KeyDelete
    <3>2. [keys[u] EXCEPT !.state = "deleted"] \in KeyRow
      BY <1>1 DEF KeyRow
    <3> QED BY <1>1, <2>3, <3>1, <3>2 DEF KeyDelete
  <2> QED BY <2>1, <2>2, <2>3
<1>4. SessionTypeOK'
  BY <1>1, <1>2, <1>3 DEF SessionTypeOK
<1>5. TokenInv'
  BY <1>2, <1>4, FlowKeeps DEF tokenVars
<1>6. \A v \in Users : enrolling'[v] => keys'[v].state = "new"
  BY <1>1 DEF KeyInv, KeyRegisterBegin, KeyRegisterComplete, KeyDelete, ChallengeLapses
<1>7. \A v \in Users : /\ keys[v].state # "new" => keys'[v].state # "new" /\ keys'[v].count = keys[v].count
                       /\ keys'[v].count \in Nat
  BY <1>1, <1>3, SignInAssumption
     DEF KeyInv, KeyRegisterBegin, KeyRegisterComplete, KeyDelete, ChallengeLapses, KeyRow
<1>8. \A k \in Logins : logins[k].at # "idle" => logins[k].user \in Users
  BY DEF TokenInv, FlowsInv
<1>9. ASSUME NEW k \in Logins
      PROVE  /\ logins[k].at \in {"challenged", "signed", "read", "verified", "keyed"} \/ logins[k].sign > 0
                  => keys'[logins[k].user].state # "new"
             /\ logins[k].at \in {"read", "verified"} /\ ~logins[k].raced =>
                  logins[k].seen = keys'[logins[k].user].count
  BY <1>1, <1>7, <1>8 DEF KeyInv, Login
<1>10. ASSUME NEW k \in Logins, logins[k].at \in {"keyed", "answered", "done"}
       PROVE  \/ logins[k].sign <= keys'[logins[k].user].count
              \/ \E j \in Logins : logins'[j].user = logins[k].user /\ Overtaken(j)'
  <2>1. CASE logins[k].sign > 0
    <3>1. keys'[logins[k].user].count = keys[logins[k].user].count
      BY <1>7, <1>8, <1>10, <2>1 DEF KeyInv
    <3> QED BY <1>2, <1>10, <3>1 DEF KeyInv, Overtaken
  <2>2. CASE logins[k].sign = 0
    BY <1>7, <1>8, <1>10, <2>2
  <2> QED BY <1>1, <2>1, <2>2 DEF Login
<1>11. KeyInv'
  BY <1>2, <1>6, <1>9, <1>10 DEF KeyInv
<1> QED BY <1>5, <1>11

-----------------------------------------------------------------------------
(* Tokens: sessions *)

\* A page signs a user in with a pair that waited for it.
LEMMA StoreKeeps ==
    ASSUME TokenInv, SessionTypeOK', NEW p \in Pages, NEW l \in Logins, NEW n \in Pairs,
           Waits(n, l), StoreTokens(p, l, n),
           UNCHANGED <<active, pairs, jtis, states, calls, upsets, refreshing, requests>>,
           \A k \in Logins \ {l} : logins'[k] = logins[k] /\ codes'[k] = codes[k],
           \/ /\ logins[l].at = "answered" /\ logins[l].pair = n
              /\ logins'[l].at = "done" /\ logins'[l].user = logins[l].user /\ codes'[l] = 0
           \/ codes[l] = n /\ codes'[l] = 0 /\ logins'[l] = logins[l]
    PROVE  TokenInv'
<1> DEFINE b == BrowserOf[p]
<1>1. /\ b \in Browsers /\ n # 0 /\ n \in Pairs
      /\ storage \in [Browsers -> 0..MaxPairs] /\ received \in [Pairs -> 0..2]
      /\ signedIn \in [Browsers -> Logins \cup {NoLogin}]
  BY SessionAssumption, SignInAssumption DEF TokenInv, SessionTypeOK, Pairs
<1>2. /\ storage'[b] = n /\ \A c \in Browsers \ {b} : storage'[c] = storage[c]
      /\ received'[n] = 1 /\ \A m \in Pairs \ {n} : received'[m] = received[m]
      /\ signedIn'[b] = l /\ \A c \in Browsers \ {b} : signedIn'[c] = signedIn[c]
      /\ shown' = shown \cup {p}
      /\ raced \subseteq raced' /\ raced' \subseteq raced \cup {b}
      /\ \A q \in Pages : BrowserOf[q] = b /\ Outstanding(q) => b \in raced'
  BY <1>1 DEF StoreTokens, Waits, Race, PagesOf
<1> HIDE DEF b
<1>3. received[n] = 0 /\ pairs[n].login = l /\ Issued(n)
  BY SignInAssumption DEF Waits, Issued, Unissued
<1>4. \A k \in Logins \ {l} : /\ codes[k] # 0 => codes[k] # n
                              /\ logins[k].at = "answered" => logins[k].pair # n
  BY <1>3 DEF TokenInv, FlowsInv, Waits
<1>5. \A q \in Pages : refreshing[q].old # n
  BY <1>1, <1>3 DEF TokenInv, RefreshesInv
<1>6. \A q \in Pages : refreshing[q].at = "answered" => refreshing[q].new # n
  BY DEF TokenInv, RefreshesInv, Brings
<1>7. \A c \in Browsers : storage[c] # n
  BY <1>1, <1>3 DEF TokenInv, PlacesInv
<1>8. FlowsInv'
  <2>1. ASSUME NEW k \in Logins \ {l}
        PROVE  /\ codes[k] # 0 => Waits(codes[k], k)'
               /\ logins[k].at = "answered" => Waits(logins[k].pair, k)'
    <3>1. CASE codes[k] # 0
      <4>1. codes[k] # n
        BY <1>4, <3>1
      <4>2. Waits(codes[k], k) /\ logins[k].at # "answered"
        BY <3>1 DEF TokenInv, FlowsInv
      <4> QED BY <1>2, <3>1, <4>1, <4>2 DEF Waits
    <3>2. CASE logins[k].at = "answered"
      <4>1. Waits(logins[k].pair, k) /\ logins[k].pair # n
        BY <1>4, <3>2 DEF TokenInv, FlowsInv
      <4>2. codes[k] = 0
        BY <3>2 DEF TokenInv, FlowsInv
      <4> QED BY <1>2, <4>1, <4>2 DEF Waits
    <3> QED BY <3>1, <3>2
  <2>2. logins'[l].at # "answered" /\ codes'[l] = 0 /\ logins[l].at # "idle"
    BY <1>1 DEF TokenInv, FlowsInv
  <2>3. l \in states \/ calls[l] > 0 => logins'[l].at = "sso"
    BY DEF TokenInv, FlowsInv
  <2> QED BY <2>1, <2>2, <2>3 DEF TokenInv, FlowsInv
<1>9. PairsInv'
  <2>1. \A k \in Logins : Spent(k) => Spent(k)'
    BY DEF Spent
  <2> QED BY <1>2, <1>3, <2>1 DEF TokenInv, PairsInv, Issued
<1>10. ChancesInv'
  BY <1>2 DEF TokenInv, ChancesInv, LoginIsSingle
<1>11. RefreshesInv'
  <2>1. ASSUME NEW q \in Pages, refreshing[q].at = "answered" PROVE Brings(q, refreshing[q].new)'
    <3>1. Brings(q, refreshing[q].new) /\ refreshing[q].new # n
      BY <1>6, <2>1 DEF TokenInv, RefreshesInv
    <3>2. \A k \in Logins : /\ codes'[k] = 0 \/ codes'[k] = codes[k]
                            /\ logins'[k].at = "answered" => logins'[k] = logins[k]
      OBVIOUS
    <3>3. refreshing[q].new # 0
      BY <3>1, SignInAssumption DEF Brings, Pairs
    <3> QED BY <1>2, <3>1, <3>2, <3>3 DEF Brings, Issued
  <2>2. ASSUME NEW q \in Pages, Outstanding(q) PROVE received'[refreshing[q].old] = 1
    BY <1>2, <1>5, <2>2 DEF TokenInv, RefreshesInv
  <2> QED BY <2>1, <2>2 DEF TokenInv, RefreshesInv, Outstanding
<1>12. PlacesInv'
  <2>1. ASSUME NEW c \in Browsers, storage'[c] # 0
        PROVE  /\ received'[storage'[c]] = 1
               /\ \A d \in Browsers : storage'[d] = storage'[c] => d = c
               /\ \A q \in Pages : refreshing[q].old = storage'[c] => BrowserOf[q] = c
    <3>1. CASE c = b
      BY <1>2, <1>5, <1>7, <3>1
    <3>2. CASE c # b
      <4>1. storage'[c] = storage[c] /\ storage[c] # n /\ storage[c] \in Pairs
        BY <1>1, <1>2, <1>7, <2>1, <3>2, SignInAssumption DEF Pairs
      <4> QED BY <1>2, <2>1, <3>2, <4>1 DEF TokenInv, PlacesInv
    <3> QED BY <3>1, <3>2
  <2> QED BY <2>1 DEF TokenInv, PlacesInv
<1>13. CurrentInv'
  <2>1. ASSUME NEW q \in Pages, Outstanding(q), BrowserOf[q] \notin raced'
        PROVE  pairs[refreshing[q].old].login = signedIn'[BrowserOf[q]]
    <3>1. BrowserOf[q] \in Browsers \ {b}
      BY <1>2, <2>1, SessionAssumption
    <3> QED BY <1>2, <2>1, <3>1 DEF TokenInv, CurrentInv
  <2>2. StoredIsCurrent'
    BY <1>2, <1>3 DEF TokenInv, CurrentInv, StoredIsCurrent
  <2> QED BY <2>1, <2>2 DEF CurrentInv, Outstanding
<1>14. ValidInv'
  BY DEF TokenInv, ValidInv
<1>15. CalmInv'
  <2> SUFFICES ASSUME upsets' = 0, NEW c \in Browsers \ raced' PROVE CalmBrowser(c)'
    BY DEF CalmInv
  <2>1. CalmBrowser(c) /\ upsets = 0
    BY <1>2 DEF TokenInv, CalmInv
  <2>2. \A q \in Pages : Busy(q)' = Busy(q) /\ Outstanding(q)' = Outstanding(q)
    BY DEF Busy, Outstanding, InFlight
  <2>3. CASE c # b
    <3>1. p \notin PagesOf(c) /\ storage'[c] = storage[c]
      BY <1>2, <2>3 DEF PagesOf, b
    <3> QED BY <1>2, <2>1, <2>2, <3>1 DEF CalmBrowser, PagesOf
  <2>4. CASE c = b
    <3>1. n \in jtis
      BY <1>1, <2>1 DEF TokenInv, ValidInv
    <3>2. \A q \in PagesOf(c) : ~Outstanding(q)
      BY <1>2, <2>4 DEF PagesOf
    <3> QED BY <1>1, <1>2, <2>1, <2>2, <2>4, <3>1, <3>2 DEF CalmBrowser, PagesOf, Outstanding
  <2> QED BY <2>3, <2>4
<1>16. ThrownOutForCause'
  BY <1>2 DEF TokenInv, ThrownOutForCause
<1> QED
  BY <1>8, <1>9, <1>10, <1>11, <1>12, <1>13, <1>14, <1>15, <1>16 DEF TokenInv

\* Signing in and out.
LEMMA SignSteps ==
    ASSUME TokenInv, NEW p \in Pages, NEW l,
           (l \in Logins /\ (SignIn(p, l) \/ SignInSso(p, l))) \/ SignOut(p)
    PROVE  TokenInv'
<1>1. /\ SessionTypeOK /\ logins \in [Logins -> Login] /\ codes \in [Logins -> 0..MaxPairs]
      /\ storage \in [Browsers -> 0..MaxPairs] /\ received \in [Pairs -> 0..2]
      /\ signedIn \in [Browsers -> Logins \cup {NoLogin}] /\ shown \subseteq Pages
      /\ raced \subseteq Browsers /\ BrowserOf[p] \in Browsers
  BY SessionAssumption DEF TokenInv, SessionTypeOK
\* The types of what StoreTokens changes.
<1>2. ASSUME l \in Logins, NEW n \in Pairs, Waits(n, l), StoreTokens(p, l, n)
      PROVE  /\ storage' \in [Browsers -> 0..MaxPairs] /\ received' \in [Pairs -> 0..2]
             /\ signedIn' \in [Browsers -> Logins \cup {NoLogin}] /\ shown' \subseteq Pages
             /\ raced' \subseteq Browsers
  <2>1. n \in 0..MaxPairs
    BY SignInAssumption DEF Pairs
  <2>2. received[n] + 1 \in 0..2
    BY <1>2 DEF Waits
  <2> QED BY <1>1, <1>2, <2>1, <2>2 DEF StoreTokens, Race
<1>3. CASE l \in Logins /\ SignIn(p, l)
  <2> DEFINE n == logins[l].pair
  <2>1. /\ logins[l].at = "answered" /\ StoreTokens(p, l, n)
        /\ logins' = [logins EXCEPT ![l] = [logins[l] EXCEPT !.at = "done"]]
        /\ UNCHANGED <<active, pairs, jtis, states, calls, codes, challenge, enrolling,
                       keys, ticks, upsets, expired, refreshing, requests>>
    BY <1>1, <1>3 DEF SignIn, At
  <2>2. Waits(n, l) /\ n \in Pairs /\ codes[l] = 0
    BY <1>3, <2>1 DEF TokenInv, FlowsInv, Waits
  <2>3. /\ [logins[l] EXCEPT !.at = "done"] \in Login
        /\ logins'[l].at = "done" /\ logins'[l].user = logins[l].user
        /\ \A k \in Logins \ {l} : logins'[k] = logins[k]
    BY <1>3, <1>1, <2>1 DEF Login
  <2> HIDE DEF n
  <2>4. SessionTypeOK'
    BY <1>3, <1>1, <1>2, <2>1, <2>2, <2>3 DEF SessionTypeOK
  <2> QED BY <1>3, <2>1, <2>2, <2>3, <2>4, StoreKeeps DEF n
<1>4. CASE l \in Logins /\ SignInSso(p, l)
  <2> DEFINE n == codes[l]
  <2>1. /\ n # 0 /\ StoreTokens(p, l, n)
        /\ codes' = [codes EXCEPT ![l] = 0]
        /\ UNCHANGED <<active, pairs, jtis, states, calls, challenge, enrolling, keys,
                       ticks, logins, upsets, expired, refreshing, requests>>
    BY <1>1, <1>4 DEF SignInSso, SsoExchange
  <2>2. Waits(n, l) /\ n \in Pairs
    BY <1>4, <2>1 DEF TokenInv, FlowsInv, Waits
  <2>3. /\ codes' \in [Logins -> 0..MaxPairs] /\ codes'[l] = 0
        /\ \A k \in Logins \ {l} : codes'[k] = codes[k]
    BY <1>4, <1>1, <2>1, SignInAssumption
  <2> HIDE DEF n
  <2>4. SessionTypeOK'
    BY <1>4, <1>1, <1>2, <2>1, <2>2, <2>3 DEF SessionTypeOK
  <2> QED BY <1>4, <2>1, <2>2, <2>3, <2>4, StoreKeeps DEF n
<1>5. CASE SignOut(p)
  <2> DEFINE b == BrowserOf[p]
  <2>1. /\ UNCHANGED signInVars /\ UNCHANGED <<expired, refreshing, requests, received>>
        /\ storage' \in [Browsers -> 0..MaxPairs] /\ storage'[b] = 0
        /\ \A c \in Browsers \ {b} : storage'[c] = storage[c]
        /\ signedIn' \in [Browsers -> Logins \cup {NoLogin}]
        /\ \A c \in Browsers \ {b} : signedIn'[c] = signedIn[c]
        /\ shown' = shown \ {p}
        /\ raced \subseteq raced' /\ raced' \subseteq raced \cup {b}
        /\ \A q \in Pages : BrowserOf[q] = b /\ (Busy(q) \/ (q # p /\ q \in shown)) => b \in raced'
    BY <1>1, <1>5, SignInAssumption DEF SignOut, Race, PagesOf
  <2> HIDE DEF b
  <2>2. UNCHANGED <<active, pairs, jtis, states, calls, codes, challenge, enrolling, keys,
                    ticks, logins, upsets>>
    BY <2>1 DEF signInVars
  <2>3. SessionTypeOK'
    BY <1>1, <2>1, <2>2 DEF SessionTypeOK, b
  <2>4. FlowsInv' /\ PairsInv' /\ ChancesInv'
    BY <2>1, <2>2 DEF TokenInv, FlowsInv, Waits, PairsInv, Issued, Spent, ChancesInv, LoginIsSingle
  <2>5. RefreshesInv'
    BY <2>1, <2>2 DEF TokenInv, RefreshesInv, Brings, Issued, Outstanding
  <2>6. \A c \in Browsers : storage'[c] # 0 => c # b /\ storage'[c] = storage[c]
    BY <2>1
  <2>7. PlacesInv'
    BY <2>1, <2>6 DEF TokenInv, PlacesInv
  <2>8. StoredIsCurrent'
    BY <2>1, <2>2, <2>6 DEF TokenInv, CurrentInv, StoredIsCurrent
  <2>9. CurrentInv'
    <3>1. ASSUME NEW q \in Pages, Outstanding(q), BrowserOf[q] \notin raced'
          PROVE  pairs[refreshing[q].old].login = signedIn'[BrowserOf[q]]
      <4>1. BrowserOf[q] \in Browsers \ {b}
        BY <2>1, <3>1, SessionAssumption DEF Busy
      <4> QED BY <2>1, <3>1, <4>1 DEF TokenInv, CurrentInv
    <3> QED BY <2>1, <2>2, <2>8, <3>1 DEF CurrentInv, Outstanding
  <2>10. ValidInv' /\ ThrownOutForCause'
    BY <2>1, <2>2 DEF TokenInv, ValidInv, ThrownOutForCause
  <2>11. CalmInv'
    <3> SUFFICES ASSUME upsets' = 0, NEW c \in Browsers \ raced' PROVE CalmBrowser(c)'
      BY DEF CalmInv
    <3>1. CalmBrowser(c)
      BY <2>1, <2>2 DEF TokenInv, CalmInv
    <3>2. \A q \in Pages : Busy(q)' = Busy(q) /\ Outstanding(q)' = Outstanding(q)
      BY <2>1 DEF Busy, Outstanding, InFlight
    <3>3. CASE c # b
      BY <2>1, <2>2, <3>1, <3>2, <3>3 DEF CalmBrowser, PagesOf
    <3>4. CASE c = b
      BY <2>1, <2>2, <3>1, <3>2, <3>4 DEF CalmBrowser, PagesOf, Busy
    <3> QED BY <3>3, <3>4
  <2> QED BY <2>1, <2>2, <2>3, <2>4, <2>5, <2>7, <2>9, <2>10, <2>11 DEF TokenInv
<1> QED BY <1>3, <1>4, <1>5

\* A step of a request that moves no token.
LEMMA RequestKeeps ==
    ASSUME TokenInv, NEW r \in Requests,
           UNCHANGED <<signInVars, storage, expired, refreshing, received, signedIn, raced>>,
           \E p \in Pages : Start(r, p) \/ Succeed(r) \/ JoinRefresh(r)
    PROVE  TokenInv'
<1> DEFINE q == requests'[r]
<1>1. /\ SessionTypeOK /\ requests \in [Requests -> Request] /\ storage \in [Browsers -> 0..MaxPairs]
      /\ UNCHANGED <<active, pairs, jtis, states, calls, codes, challenge, enrolling, keys,
                     ticks, logins, upsets>>
      /\ UNCHANGED <<storage, expired, refreshing, received, signedIn, raced>>
  BY DEF TokenInv, SessionTypeOK, signInVars
<1>2. /\ requests' \in [Requests -> Request] /\ q.page \in Pages
      /\ q.at \in {"sent", "waiting", "done"}
      /\ \A s \in Requests \ {r} : requests'[s] = requests[s]
      /\ \/ /\ requests[r].at = "idle" /\ shown' = shown \cup {q.page}
            /\ q.page \in shown \/ Stored(q.page) # 0
         \/ InFlight(r) /\ requests[r].page = q.page /\ shown' = shown
  <2>1. CASE \E p \in Pages : Start(r, p)
    <3>1. PICK p \in Pages : Start(r, p)
      BY <2>1
    <3>2. BrowserOf[p] \in Browsers /\ Stored(p) \in 0..MaxPairs
      BY <1>1, SessionAssumption DEF Stored
    <3>3. [at |-> "sent", page |-> p, pair |-> Stored(p)] \in Request
      BY <3>2 DEF Request
    <3> QED BY <1>1, <3>1, <3>3 DEF Start
  <2>2. CASE Succeed(r) \/ JoinRefresh(r)
    <3>1. requests[r].page \in Pages /\ InFlight(r) /\ shown' = shown
      BY <1>1, <2>2 DEF TokenInv, Succeed, JoinRefresh, Denied, InFlight
    <3>2. PICK a \in {"waiting", "done"} : requests' = [requests EXCEPT ![r] = [requests[r] EXCEPT !.at = a]]
      BY <1>1, <2>2 DEF Succeed, JoinRefresh
    <3>3. requests[r] \in Request
      BY <1>1
    <3>4. [requests[r] EXCEPT !.at = a] \in Request /\ [requests[r] EXCEPT !.at = a].at = a
          /\ [requests[r] EXCEPT !.at = a].page = requests[r].page
      BY <3>3 DEF Request
    <3> QED BY <1>1, <3>1, <3>2, <3>4
  <2> QED BY <2>1, <2>2
<1> HIDE DEF q
<1>3. SessionTypeOK'
  BY <1>1, <1>2 DEF SessionTypeOK
<1>4. FlowsInv' /\ PairsInv' /\ ChancesInv'
  BY <1>1 DEF TokenInv, FlowsInv, Waits, PairsInv, Issued, Spent, ChancesInv, LoginIsSingle
<1>5. RefreshesInv' /\ PlacesInv'
  BY <1>1 DEF TokenInv, RefreshesInv, Brings, Issued, Outstanding, PlacesInv
<1>6. CurrentInv' /\ ValidInv'
  BY <1>1 DEF TokenInv, CurrentInv, StoredIsCurrent, Outstanding, ValidInv
<1>7. \A s \in Requests : requests'[s].at # "idle" => requests'[s].page \in Pages
  BY <1>2 DEF TokenInv, q
<1>8. ThrownOutForCause'
  BY <1>1, <1>2 DEF TokenInv, ThrownOutForCause, q
<1>9. CalmInv'
  <2> SUFFICES ASSUME upsets' = 0, NEW b \in Browsers \ raced' PROVE CalmBrowser(b)'
    BY DEF CalmInv
  <2>1. CalmBrowser(b)
    BY <1>1 DEF TokenInv, CalmInv
  <2>2. \A p \in Pages : Outstanding(p)' = Outstanding(p)
    BY <1>1 DEF Outstanding
  <2>3. ASSUME NEW p \in PagesOf(b), p \in shown' \/ Busy(p)' PROVE storage[b] # 0
    <3>1. CASE p \in shown \/ Busy(p)
      BY <2>1, <3>1 DEF CalmBrowser
    <3>2. CASE ~(p \in shown \/ Busy(p))
      <4>1. p = q.page
        BY <1>2, <2>2, <2>3, <3>2 DEF Busy, InFlight, PagesOf, q
      <4>2. Stored(p) # 0
        BY <1>2, <2>3, <3>2, <4>1 DEF Busy
      <4> QED BY <4>2 DEF Stored, PagesOf
    <3> QED BY <3>1, <3>2
  <2> QED BY <1>1, <2>1, <2>2, <2>3 DEF CalmBrowser, PagesOf
<1> QED
  BY <1>3, <1>4, <1>5, <1>6, <1>7, <1>8, <1>9 DEF TokenInv

\* A request sends the refresh token of its browser.
LEMMA SendKeeps ==
    ASSUME TokenInv, NEW r \in Requests, SendRefresh(r), NEW p \in Pages, requests[r].page = p
    PROVE  TokenInv'
<1> DEFINE b == BrowserOf[p]
<1>1. /\ SessionTypeOK /\ requests \in [Requests -> Request] /\ storage \in [Browsers -> 0..MaxPairs]
      /\ refreshing \in [Pages -> Refresh] /\ raced \subseteq Browsers
  BY DEF TokenInv, SessionTypeOK
<1>2. /\ p \in Pages /\ b \in Browsers /\ refreshing[p].at = "idle" /\ requests[r].at = "sent"
      /\ storage[b] # 0 /\ storage[b] \in 0..MaxPairs
  BY <1>1, SessionAssumption DEF SendRefresh, Denied, TokenInv, Stored
<1>3. /\ UNCHANGED <<active, pairs, jtis, states, calls, codes, challenge, enrolling, keys,
                     ticks, logins, upsets>>
      /\ UNCHANGED <<storage, expired, shown, received, signedIn>>
  BY DEF SendRefresh, signInVars
<1>4. /\ refreshing' = [refreshing EXCEPT ![p] = [at |-> "sent", old |-> storage[b], new |-> 0]]
      /\ requests' = [requests EXCEPT ![r] = [requests[r] EXCEPT !.at = "waiting"]]
      /\ raced \subseteq raced' /\ raced' \subseteq raced \cup {b}
      /\ \A q \in Pages : BrowserOf[q] = b /\ Outstanding(q) => b \in raced'
  BY <1>1 DEF SendRefresh, Race, PagesOf, Stored
<1> HIDE DEF b
<1>5. /\ refreshing'[p].at = "sent" /\ refreshing'[p].old = storage[b]
      /\ \A q \in Pages \ {p} : refreshing'[q] = refreshing[q]
      /\ [at |-> "sent", old |-> storage[b], new |-> 0] \in Refresh
  BY <1>1, <1>2, <1>4, SignInAssumption DEF Refresh
<1>6. /\ requests'[r].at = "waiting" /\ requests'[r].page = p
      /\ \A s \in Requests \ {r} : requests'[s] = requests[s]
      /\ [requests[r] EXCEPT !.at = "waiting"] \in Request
  <2>1. requests[r] \in Request
    BY <1>1
  <2> QED BY <1>1, <1>4, <2>1 DEF Request
<1>7. /\ ~Outstanding(p) /\ Outstanding(p)'
      /\ \A q \in Pages \ {p} : Outstanding(q)' = Outstanding(q)
  BY <1>2, <1>5 DEF Outstanding
<1>8. SessionTypeOK'
  <2>1. refreshing' \in [Pages -> Refresh] /\ requests' \in [Requests -> Request] /\ raced' \subseteq Browsers
    BY <1>1, <1>2, <1>4, <1>5, <1>6
  <2> QED BY <1>1, <1>3, <2>1 DEF SessionTypeOK
<1>9. FlowsInv' /\ PairsInv'
  BY <1>3 DEF TokenInv, FlowsInv, Waits, PairsInv, Issued, Spent
<1>10. ChancesInv'
  <2>1. \A q \in Pages : refreshing'[q].at = "consumed" => refreshing'[q] = refreshing[q]
    BY <1>5
  <2> QED BY <1>3, <2>1 DEF TokenInv, ChancesInv, LoginIsSingle
<1>11. storage[b] \in Pairs /\ received[storage[b]] = 1
  BY <1>2, SignInAssumption DEF TokenInv, PlacesInv, Pairs
<1>12. RefreshesInv'
  <2>1. ASSUME NEW q \in Pages, refreshing'[q].at = "answered" PROVE Brings(q, refreshing[q].new)'
    <3>1. q # p /\ refreshing'[q] = refreshing[q] /\ Brings(q, refreshing[q].new)
      BY <1>5, <2>1 DEF TokenInv, RefreshesInv
    <3> QED BY <1>3, <1>5, <3>1 DEF Brings, Issued
  <2> QED BY <1>3, <1>5, <1>7, <1>11, <2>1 DEF TokenInv, RefreshesInv
<1>13. PlacesInv'
  <2>1. ASSUME NEW c \in Browsers, storage[c] # 0, NEW q \in Pages, refreshing'[q].old = storage[c]
        PROVE  BrowserOf[q] = c
    BY <1>2, <1>5, <2>1 DEF TokenInv, PlacesInv, b
  <2>2. ASSUME NEW q1 \in Pages, NEW q2 \in Pages, refreshing'[q1].old = refreshing'[q2].old,
               refreshing'[q1].old # 0
        PROVE  BrowserOf[q1] = BrowserOf[q2]
    <3>1. CASE q1 = p \/ q2 = p
      <4>1. refreshing'[q1].old = storage[b] /\ refreshing'[q2].old = storage[b]
        BY <1>5, <2>2, <3>1
      <4> QED BY <1>2, <2>1, <4>1
    <3>2. CASE q1 # p /\ q2 # p
      BY <1>5, <2>2, <3>2 DEF TokenInv, PlacesInv
    <3> QED BY <3>1, <3>2
  <2> QED BY <1>3, <2>1, <2>2 DEF TokenInv, PlacesInv
<1>14. CurrentInv'
  <2>1. StoredIsCurrent'
    BY <1>3, <1>4 DEF TokenInv, CurrentInv, StoredIsCurrent
  <2>2. ASSUME NEW q \in Pages, Outstanding(q)', BrowserOf[q] \notin raced'
        PROVE  pairs[refreshing'[q].old].login = signedIn[BrowserOf[q]]
    <3>1. CASE q = p
      BY <1>2, <1>4, <1>5, <2>2, <3>1 DEF TokenInv, CurrentInv, StoredIsCurrent, b
    <3>2. CASE q # p
      BY <1>4, <1>5, <1>7, <2>2, <3>2 DEF TokenInv, CurrentInv
    <3> QED BY <3>1, <3>2
  <2> QED BY <1>3, <2>1, <2>2 DEF CurrentInv
<1>15. ValidInv'
  <2>1. \A q \in Pages : refreshing'[q].at = "answered" => refreshing'[q] = refreshing[q]
    BY <1>5
  <2> QED BY <1>3, <2>1 DEF TokenInv, ValidInv
<1>16. CalmInv'
  <2> SUFFICES ASSUME upsets' = 0, NEW c \in Browsers \ raced' PROVE CalmBrowser(c)'
    BY DEF CalmInv
  <2>1. CalmBrowser(c)
    BY <1>3, <1>4 DEF TokenInv, CalmInv
  <2>2. \A q \in Pages : Busy(q)' => Busy(q)
    BY <1>2, <1>6, <1>7 DEF Busy, InFlight
  <2>3. CASE c # b
    <3>1. \A q \in PagesOf(c) : q # p
      BY <2>3 DEF PagesOf, b
    <3> QED BY <1>3, <1>5, <1>7, <2>1, <2>2, <3>1 DEF CalmBrowser, PagesOf
  <2>4. CASE c = b
    <3>1. \A q \in PagesOf(c) : ~Outstanding(q)
      BY <1>4, <2>4 DEF PagesOf
    <3>2. storage[b] \in jtis
      BY <1>2, <2>1, <2>4, <3>1 DEF CalmBrowser, Outstanding
    <3> QED BY <1>2, <1>3, <1>5, <1>7, <2>1, <2>2, <2>4, <3>1, <3>2 DEF CalmBrowser, PagesOf
  <2> QED BY <2>3, <2>4
<1>17. ThrownOutForCause'
  BY <1>3, <1>4, <1>6 DEF TokenInv, ThrownOutForCause
<1>18. \A s \in Requests : requests'[s].at # "idle" => requests'[s].page \in Pages
  BY <1>2, <1>6 DEF TokenInv
<1> QED
  BY <1>8, <1>9, <1>10, <1>12, <1>13, <1>14, <1>15, <1>16, <1>17, <1>18 DEF TokenInv

\* How page p may give up: its refresh ends or is refused, requests of it end,
\* and its browser may lose the tokens; without a failure only where pages crossed.
GivesUp(p) ==
    /\ UNCHANGED <<active, pairs, states, calls, codes, logins, received, signedIn>>
    /\ jtis' \subseteq jtis /\ shown' \subseteq shown /\ raced \subseteq raced'
    /\ upsets > 0 => upsets' > 0
    /\ \A q \in Pages \ {p} : refreshing'[q] = refreshing[q]
    /\ \/ refreshing'[p] = refreshing[p]
       \/ refreshing'[p].at \in {"idle", "stuck"} /\ refreshing'[p].old = 0
       \/ /\ refreshing'[p].at = "refused" /\ refreshing'[p].old = refreshing[p].old
          /\ Outstanding(p)
    /\ \A c \in Browsers : storage'[c] = storage[c] \/ (c = BrowserOf[p] /\ storage'[c] = 0)
    /\ \A s \in Requests :
         \/ requests'[s] = requests[s]
         \/ /\ InFlight(s) /\ requests[s].page = p /\ requests'[s].page = p
            /\ requests'[s].at \in {"failed", "ejected", "dropped"}
    /\ \/ upsets' > 0
       \/ BrowserOf[p] \in raced' /\ jtis' = jtis
       \/ /\ refreshing' = refreshing /\ storage' = storage /\ jtis' = jtis
          /\ \A s \in Requests : requests'[s] = requests[s] \/ requests'[s].at = "failed"

LEMMA GiveUpKeeps ==
    ASSUME TokenInv, SessionTypeOK', NEW p \in Pages, GivesUp(p)
    PROVE  TokenInv'
<1>1. UNCHANGED <<active, pairs, states, calls, codes, logins, received, signedIn>>
  BY DEF GivesUp
<1>2. /\ jtis' \subseteq jtis /\ shown' \subseteq shown /\ raced \subseteq raced'
      /\ upsets > 0 => upsets' > 0
  BY DEF GivesUp
<1>3. ASSUME NEW q \in Pages
      PROVE  /\ Outstanding(q)' => Outstanding(q) /\ refreshing'[q].old = refreshing[q].old
             /\ refreshing'[q].old # 0 => refreshing'[q].old = refreshing[q].old
             /\ ~Outstanding(q)' => refreshing'[q].old = 0
             /\ refreshing'[q].at \in {"sent", "consumed", "answered"} => refreshing'[q] = refreshing[q]
  <2>1. ~Outstanding(q) => refreshing[q].old = 0
    BY DEF TokenInv, RefreshesInv
  <2>2. CASE refreshing'[q] = refreshing[q]
    BY <2>1, <2>2 DEF Outstanding
  <2>3. CASE refreshing'[q] # refreshing[q]
    <3>1. q = p
      BY <2>3 DEF GivesUp
    <3> QED BY <2>3, <3>1 DEF GivesUp, Outstanding
  <2> QED BY <2>2, <2>3
<1>4. \A c \in Browsers : storage'[c] # 0 => storage'[c] = storage[c]
  BY DEF GivesUp
<1>5. FlowsInv'
  BY <1>1 DEF TokenInv, FlowsInv, Waits
<1>6. PairsInv'
  <2>1. \A k \in Logins : Spent(k) => Spent(k)'
    BY <1>1 DEF Spent
  <2>2. \A n \in Pairs : Issued(n)' = Issued(n)
    BY <1>1 DEF Issued
  <2> QED BY <1>1, <1>2, <2>1, <2>2 DEF TokenInv, PairsInv
<1>7. ChancesInv'
  <2>1. \A q \in Pages : refreshing'[q].at = "consumed" => refreshing'[q] = refreshing[q]
    BY <1>3
  <2> QED BY <1>1, <1>2, <2>1 DEF TokenInv, ChancesInv, LoginIsSingle
<1>8. RefreshesInv'
  <2>1. ASSUME NEW q \in Pages, refreshing'[q].at = "answered" PROVE Brings(q, refreshing[q].new)'
    <3>1. refreshing'[q] = refreshing[q] /\ Brings(q, refreshing[q].new)
      BY <1>3, <2>1 DEF TokenInv, RefreshesInv
    <3>2. \A o \in Pages : refreshing'[o].at = "answered" => refreshing'[o] = refreshing[o]
      BY <1>3
    <3> QED BY <1>1, <3>1, <3>2 DEF Brings, Issued
  <2>2. ASSUME NEW q \in Pages, Outstanding(q)'
        PROVE  refreshing'[q].old \in Pairs /\ received'[refreshing'[q].old] = 1
    BY <1>1, <1>3, <2>2 DEF TokenInv, RefreshesInv
  <2> QED BY <1>3, <2>1, <2>2 DEF RefreshesInv
<1>9. PlacesInv'
  BY <1>1, <1>3, <1>4 DEF TokenInv, PlacesInv
<1>10. StoredIsCurrent'
  BY <1>1, <1>2, <1>4 DEF TokenInv, CurrentInv, StoredIsCurrent
<1>11. CurrentInv'
  BY <1>1, <1>2, <1>3, <1>10 DEF TokenInv, CurrentInv
<1>12. \A s \in Requests :
         /\ requests'[s].at # "idle" => requests'[s].page \in Pages
         /\ InFlight(s)' => InFlight(s) /\ requests'[s] = requests[s]
  BY DEF GivesUp, TokenInv, InFlight
<1>13. \A q \in Pages : Busy(q)' => Busy(q)
  BY <1>3, <1>12 DEF Busy
<1>14. upsets' = 0 => upsets = 0 /\ jtis' = jtis
  <2>1. upsets \in Nat /\ upsets' \in Nat
    BY SignInAssumption DEF TokenInv, SessionTypeOK
  <2> QED BY <2>1 DEF GivesUp
<1>15. ValidInv'
  <2>1. \A q \in Pages : refreshing'[q].at = "answered" => refreshing'[q] = refreshing[q]
    BY <1>3
  <2> QED BY <1>1, <1>14, <2>1 DEF TokenInv, ValidInv
<1>16. CalmInv'
  <2> SUFFICES ASSUME upsets' = 0, NEW c \in Browsers \ raced' PROVE CalmBrowser(c)'
    BY DEF CalmInv
  <2>1. CalmBrowser(c) /\ jtis' = jtis
    BY <1>2, <1>14 DEF TokenInv, CalmInv
  <2>2. /\ storage'[c] = storage[c]
        /\ \A q \in PagesOf(c) : refreshing'[q] = refreshing[q]
    <3>1. CASE c = BrowserOf[p]
      BY <3>1 DEF GivesUp, PagesOf
    <3>2. CASE c # BrowserOf[p]
      BY <3>2 DEF GivesUp, PagesOf
    <3> QED BY <3>1, <3>2
  <2>3. \A q \in PagesOf(c) : Outstanding(q)' = Outstanding(q)
    BY <2>2 DEF Outstanding
  <2> QED BY <1>2, <1>13, <2>1, <2>2, <2>3 DEF CalmBrowser, PagesOf
<1>17. ThrownOutForCause'
  <2> SUFFICES ASSUME NEW s \in Requests, requests'[s].at = "ejected"
               PROVE  upsets' > 0 \/ BrowserOf[requests'[s].page] \in raced'
    BY DEF ThrownOutForCause
  <2>1. CASE requests'[s] = requests[s]
    BY <1>2, <2>1 DEF TokenInv, ThrownOutForCause
  <2>2. CASE requests'[s] # requests[s]
    BY <2>2 DEF GivesUp
  <2> QED BY <2>1, <2>2
<1> QED
  BY <1>5, <1>6, <1>7, <1>8, <1>9, <1>11, <1>12, <1>15, <1>16, <1>17 DEF TokenInv

\* Refused refreshes, requests that fail, reloads.
LEMMA GiveUpSteps ==
    ASSUME TokenInv, NEW p \in Pages, NEW r,
           \/ r \in Requests /\ requests[r].page = p /\ (NothingToRefresh(r) \/ Fail(r))
           \/ RefreshDisabled(p) \/ RefreshLost(p) \/ RefreshFails(p) \/ Reload(p)
    PROVE  TokenInv'
<1>1. /\ SessionTypeOK /\ requests \in [Requests -> Request] /\ storage \in [Browsers -> 0..MaxPairs]
      /\ refreshing \in [Pages -> Refresh] /\ raced \subseteq Browsers /\ shown \subseteq Pages
      /\ jtis \subseteq Pairs /\ upsets \in 0..MaxUpsets /\ refreshing[p] \in Refresh
      /\ BrowserOf[p] \in Browsers /\ 0 \in 0..MaxPairs
  BY SessionAssumption, SignInAssumption DEF TokenInv, SessionTypeOK
<1>2. /\ NoRefresh \in Refresh /\ NoRefresh.old = 0 /\ NoRefresh.at = "idle"
      /\ [NoRefresh EXCEPT !.at = "stuck"] \in Refresh
      /\ [NoRefresh EXCEPT !.at = "stuck"].old = 0 /\ [NoRefresh EXCEPT !.at = "stuck"].at = "stuck"
  BY SignInAssumption DEF NoRefresh, Refresh
<1>3. \A s \in Requests, a \in {"failed", "ejected", "dropped"} :
        /\ [requests[s] EXCEPT !.at = a] \in Request
        /\ [requests[s] EXCEPT !.at = a].at = a
        /\ [requests[s] EXCEPT !.at = a].page = requests[s].page
  BY <1>1 DEF Request
<1>4. /\ [refreshing[p] EXCEPT !.at = "refused"] \in Refresh
      /\ [refreshing[p] EXCEPT !.at = "refused"].at = "refused"
      /\ [refreshing[p] EXCEPT !.at = "refused"].old = refreshing[p].old
  BY <1>1 DEF Refresh
<1>5. upsets = 0 /\ BrowserOf[p] \notin raced => CalmBrowser(BrowserOf[p])
  BY <1>1 DEF TokenInv, CalmInv
<1>6. CASE r \in Requests /\ requests[r].page = p /\ NothingToRefresh(r)
  <2>1. /\ requests[r].at = "sent"
        /\ refreshing[p].at = "stuck" \/ (refreshing[p].at = "idle" /\ storage[BrowserOf[p]] = 0)
        /\ refreshing' = [refreshing EXCEPT ![p] = [NoRefresh EXCEPT !.at = "stuck"]]
        /\ Eject(p, {r})
        /\ UNCHANGED <<active, pairs, jtis, states, calls, codes, challenge, enrolling, keys,
                       ticks, logins, upsets>>
        /\ UNCHANGED <<expired, received, signedIn, raced>>
    BY <1>6 DEF NothingToRefresh, Denied, Stored, signInVars
  <2>2. upsets > 0 \/ BrowserOf[p] \in raced
    <3>1. Busy(p) /\ p \in PagesOf(BrowserOf[p])
      BY <1>6, <2>1 DEF Busy, InFlight, PagesOf
    <3> QED BY <1>1, <1>5, <2>1, <3>1 DEF CalmBrowser
  <2>3. /\ storage' = [storage EXCEPT ![BrowserOf[p]] = 0] /\ shown' = shown \ {p}
        /\ requests' = [s \in Requests |->
              IF s \in {r} THEN [requests[s] EXCEPT !.at = "ejected"] ELSE requests[s]]
    BY <2>1 DEF Eject
  <2>4. SessionTypeOK'
    <3>1. /\ storage' \in [Browsers -> 0..MaxPairs] /\ requests' \in [Requests -> Request]
          /\ refreshing' \in [Pages -> Refresh] /\ shown' \subseteq Pages
      BY <1>1, <1>2, <1>3, <2>1, <2>3
    <3> QED BY <1>1, <2>1, <3>1 DEF SessionTypeOK
  <2>5. \A s \in Requests :
         \/ requests'[s] = requests[s]
         \/ /\ InFlight(s) /\ requests[s].page = p /\ requests'[s].page = p
            /\ requests'[s].at \in {"failed", "ejected", "dropped"}
    BY <1>3, <1>6, <2>1, <2>3 DEF InFlight
  <2>6. GivesUp(p)
    BY <1>1, <1>2, <2>1, <2>2, <2>3, <2>5 DEF GivesUp
  <2> QED BY <2>4, <2>6, GiveUpKeeps
<1>7. CASE r \in Requests /\ requests[r].page = p /\ Fail(r)
  <2>1. /\ UNCHANGED <<active, pairs, jtis, states, calls, codes, challenge, enrolling, keys,
                       ticks, logins, expired, refreshing, received, signedIn>>
        /\ requests' = [requests EXCEPT ![r] = [requests[r] EXCEPT !.at = "failed"]]
        /\ InFlight(r)
        /\ upsets' = upsets \/ Upset
    BY <1>1, <1>7 DEF Fail, InFlight
  <2>2. upsets' \in 0..MaxUpsets /\ (upsets > 0 => upsets' > 0)
    BY <1>1, <2>1, UpsetType
  <2>3. /\ raced \subseteq raced' /\ raced' \subseteq Browsers
        /\ shown' \subseteq shown /\ storage' \in [Browsers -> 0..MaxPairs]
        /\ \A c \in Browsers : storage'[c] = storage[c] \/ (c = BrowserOf[p] /\ storage'[c] = 0)
        /\ storage' = storage \/ BrowserOf[p] \in raced'
    <3>1. CASE UNCHANGED <<storage, shown, raced>>
      BY <1>1, <3>1
    <3>2. CASE /\ storage' = [storage EXCEPT ![BrowserOf[p]] = 0]
               /\ shown' = shown \ {p}
               /\ Race(p, TRUE)
      BY <1>1, <3>2 DEF Race
    <3> QED BY <1>7, <3>1, <3>2 DEF Fail
  <2>4. /\ requests'[r].at = "failed" /\ requests'[r].page = p /\ requests' \in [Requests -> Request]
        /\ \A s \in Requests \ {r} : requests'[s] = requests[s]
    BY <1>1, <1>3, <1>7, <2>1
  <2>5. SessionTypeOK'
    BY <1>1, <2>1, <2>2, <2>3, <2>4 DEF SessionTypeOK
  <2>6. \A s \in Requests :
         /\ \/ requests'[s] = requests[s]
            \/ /\ InFlight(s) /\ requests[s].page = p /\ requests'[s].page = p
               /\ requests'[s].at \in {"failed", "ejected", "dropped"}
         /\ requests'[s] = requests[s] \/ requests'[s].at = "failed"
    BY <1>7, <2>1, <2>4
  <2>7. GivesUp(p)
    BY <2>1, <2>2, <2>3, <2>6 DEF GivesUp
  <2> QED BY <2>5, <2>7, GiveUpKeeps
<1>8. CASE RefreshDisabled(p) \/ RefreshLost(p)
  <2>1. /\ UNCHANGED <<active, pairs, jtis, states, calls, codes, challenge, enrolling, keys,
                       ticks, logins, storage, expired, shown, requests, received, signedIn, raced>>
        /\ refreshing' = [refreshing EXCEPT ![p] = [refreshing[p] EXCEPT !.at = "refused"]]
        /\ Outstanding(p)
    BY <1>1, <1>8 DEF RefreshDisabled, RefreshLost, Outstanding, signInVars
  <2>2. upsets' \in 0..MaxUpsets /\ upsets' > 0
    <3>1. CASE RefreshDisabled(p)
      <4>1. /\ refreshing[p].at = "consumed" /\ ~active[pairs[refreshing[p].old].user]
            /\ upsets' = upsets
        BY <3>1 DEF RefreshDisabled, signInVars
      <4>2. pairs[refreshing[p].old].user \in Users
        BY <4>1 DEF TokenInv, RefreshesInv, PairsInv, Outstanding
      <4> QED BY <1>1, <4>1, <4>2 DEF TokenInv, ValidInv
    <3>2. CASE RefreshLost(p)
      BY <1>1, <3>2, UpsetType DEF RefreshLost
    <3> QED BY <1>8, <3>1, <3>2
  <2>3. /\ refreshing' \in [Pages -> Refresh] /\ refreshing'[p].at = "refused"
        /\ refreshing'[p].old = refreshing[p].old
        /\ \A q \in Pages \ {p} : refreshing'[q] = refreshing[q]
    BY <1>1, <1>4, <2>1
  <2>4. SessionTypeOK'
    BY <1>1, <2>1, <2>2, <2>3 DEF SessionTypeOK
  <2>5. GivesUp(p)
    BY <2>1, <2>2, <2>3 DEF GivesUp
  <2> QED BY <2>4, <2>5, GiveUpKeeps
<1>9. CASE RefreshFails(p)
  <2>1. /\ refreshing[p].at = "refused" /\ refreshing' = [refreshing EXCEPT ![p] = NoRefresh]
        /\ Eject(p, Waiters(p))
        /\ UNCHANGED <<active, pairs, jtis, states, calls, codes, challenge, enrolling, keys,
                       ticks, logins, upsets>>
        /\ UNCHANGED <<expired, received, signedIn, raced>>
    BY <1>9 DEF RefreshFails, signInVars
  <2>2. upsets > 0 \/ BrowserOf[p] \in raced
    BY <1>1, <1>5, <2>1 DEF CalmBrowser, PagesOf
  <2>3. /\ storage' = [storage EXCEPT ![BrowserOf[p]] = 0] /\ shown' = shown \ {p}
        /\ requests' = [s \in Requests |->
              IF s \in Waiters(p) THEN [requests[s] EXCEPT !.at = "ejected"] ELSE requests[s]]
    BY <2>1 DEF Eject
  <2>4. \A s \in Requests :
         \/ requests'[s] = requests[s]
         \/ /\ InFlight(s) /\ requests[s].page = p /\ requests'[s].page = p
            /\ requests'[s].at \in {"failed", "ejected", "dropped"}
    BY <1>3, <2>3 DEF InFlight, Waiters
  <2>5. SessionTypeOK'
    <3>1. /\ storage' \in [Browsers -> 0..MaxPairs] /\ requests' \in [Requests -> Request]
          /\ refreshing' \in [Pages -> Refresh] /\ shown' \subseteq Pages
      BY <1>1, <1>2, <1>3, <2>1, <2>3
    <3> QED BY <1>1, <2>1, <3>1 DEF SessionTypeOK
  <2>6. GivesUp(p)
    BY <1>1, <1>2, <2>1, <2>2, <2>3, <2>4 DEF GivesUp
  <2> QED BY <2>5, <2>6, GiveUpKeeps
<1>10. CASE Reload(p)
  <2>1. /\ UNCHANGED <<active, pairs, states, calls, codes, challenge, enrolling, keys, ticks,
                       logins, storage, expired, shown, received, signedIn, raced>>
        /\ jtis' \subseteq jtis /\ Upset
        /\ refreshing' = [refreshing EXCEPT ![p] = NoRefresh]
        /\ requests' = [s \in Requests |->
              IF requests[s].page = p /\ InFlight(s) THEN [requests[s] EXCEPT !.at = "dropped"]
              ELSE requests[s]]
    BY <1>10 DEF Reload
  <2>2. upsets' \in 0..MaxUpsets /\ upsets' > 0
    BY <1>1, <2>1, UpsetType
  <2>3. \A s \in Requests :
         \/ requests'[s] = requests[s]
         \/ /\ InFlight(s) /\ requests[s].page = p /\ requests'[s].page = p
            /\ requests'[s].at \in {"failed", "ejected", "dropped"}
    BY <1>3, <2>1
  <2>4. SessionTypeOK'
    <3>1. /\ requests' \in [Requests -> Request] /\ refreshing' \in [Pages -> Refresh]
          /\ jtis' \subseteq Pairs
      BY <1>1, <1>2, <1>3, <2>1
    <3> QED BY <1>1, <2>1, <2>2, <3>1 DEF SessionTypeOK
  <2>5. GivesUp(p)
    BY <1>1, <1>2, <2>1, <2>2, <2>3 DEF GivesUp
  <2> QED BY <2>4, <2>5, GiveUpKeeps
<1> QED BY <1>6, <1>7, <1>8, <1>9, <1>10

\* The refresh token of page p is consumed.
LEMMA ConsumeKeeps ==
    ASSUME TokenInv, NEW p \in Pages, RefreshConsume(p)
    PROVE  TokenInv'
<1> DEFINE n == refreshing[p].old
           to == IF n \in jtis THEN "consumed" ELSE "refused"
<1>1. /\ SessionTypeOK /\ refreshing \in [Pages -> Refresh] /\ jtis \subseteq Pairs
  BY DEF TokenInv, SessionTypeOK
<1>2. /\ UNCHANGED <<active, pairs, states, calls, codes, challenge, enrolling, keys,
                     ticks, logins, upsets, storage, expired, shown, requests,
                     received, signedIn, raced>>
      /\ refreshing[p].at = "sent" /\ jtis' = jtis \ {n}
      /\ refreshing' = [refreshing EXCEPT ![p] = [refreshing[p] EXCEPT !.at = to]]
  BY <1>1 DEF RefreshConsume
<1>3. /\ refreshing'[p].at = to /\ refreshing'[p].old = n
      /\ [refreshing[p] EXCEPT !.at = to] \in Refresh
      /\ \A q \in Pages \ {p} : refreshing'[q] = refreshing[q]
  <2>1. refreshing[p] \in Refresh
    BY <1>1
  <2> QED BY <1>1, <1>2, <2>1 DEF Refresh
<1>4. \A q \in Pages : /\ Outstanding(q)' = Outstanding(q)
                       /\ refreshing'[q].old = refreshing[q].old
  BY <1>2, <1>3 DEF Outstanding
<1>5. n \in Pairs /\ received[n] = 1 /\ n # 0
  BY <1>2, SignInAssumption DEF TokenInv, RefreshesInv, Outstanding, Pairs
<1>6. SessionTypeOK'
  <2>1. refreshing' \in [Pages -> Refresh] /\ jtis' \subseteq Pairs
    BY <1>1, <1>2, <1>3
  <2> QED BY <1>1, <1>2, <2>1 DEF SessionTypeOK
<1>7. FlowsInv' /\ PairsInv'
  BY <1>2 DEF TokenInv, FlowsInv, Waits, PairsInv, Issued, Spent
<1>8. ChancesInv'
  <2>1. ASSUME NEW q \in Pages, refreshing'[q].at = "consumed", NEW j \in jtis'
        PROVE  pairs[j].login # pairs[refreshing[q].old].login
    <3>1. CASE q = p
      <4>1. n \in jtis /\ j \in jtis /\ j # n
        BY <1>2, <1>3, <2>1, <3>1
      <4> QED BY <3>1, <4>1 DEF TokenInv, ChancesInv, LoginIsSingle
    <3>2. CASE q # p
      BY <1>2, <1>3, <2>1, <3>2 DEF TokenInv, ChancesInv
    <3> QED BY <3>1, <3>2
  <2>2. ASSUME NEW q \in Pages, refreshing'[q].at = "consumed", q # p,
               refreshing'[p].at = "consumed"
        PROVE  pairs[refreshing[q].old].login # pairs[n].login
    BY <1>3, <2>2 DEF TokenInv, ChancesInv
  <2>3. ASSUME NEW q \in Pages, NEW o \in Pages, refreshing'[q].at = "consumed",
               refreshing'[o].at = "consumed",
               pairs[refreshing[q].old].login = pairs[refreshing[o].old].login
        PROVE  q = o
    <3>1. CASE q # p /\ o # p
      BY <1>3, <2>3, <3>1 DEF TokenInv, ChancesInv
    <3> QED BY <2>2, <2>3, <3>1
  <2>4. LoginIsSingle'
    BY <1>2 DEF TokenInv, ChancesInv, LoginIsSingle
  <2> QED BY <1>2, <1>4, <2>1, <2>3, <2>4 DEF ChancesInv
<1>9. \A q \in Pages : refreshing'[q].at = "answered" => refreshing'[q] = refreshing[q]
  BY <1>3
<1>10. RefreshesInv'
  <2>1. ASSUME NEW q \in Pages, refreshing'[q].at = "answered" PROVE Brings(q, refreshing[q].new)'
    <3>1. Brings(q, refreshing[q].new) /\ refreshing'[q] = refreshing[q]
      BY <1>9, <2>1 DEF TokenInv, RefreshesInv
    <3> QED BY <1>2, <1>9, <3>1 DEF Brings, Issued
  <2> QED BY <1>2, <1>4, <1>9, <2>1 DEF TokenInv, RefreshesInv
<1>11. PlacesInv'
  BY <1>2, <1>4 DEF TokenInv, PlacesInv
<1>12. CurrentInv'
  BY <1>2, <1>4 DEF TokenInv, CurrentInv, StoredIsCurrent
<1>13. ValidInv'
  <2>1. \A k \in Logins : /\ codes[k] # 0 => codes[k] # n
                          /\ logins[k].at = "answered" => logins[k].pair # n
    BY <1>5 DEF TokenInv, FlowsInv, Waits
  <2>2. \A q \in Pages : refreshing[q].at = "answered" => refreshing[q].new # n
    BY <1>5 DEF TokenInv, RefreshesInv, Brings
  <2> QED BY <1>2, <1>9, <2>1, <2>2 DEF TokenInv, ValidInv
<1>14. CalmInv'
  <2> SUFFICES ASSUME upsets' = 0, NEW c \in Browsers \ raced' PROVE CalmBrowser(c)'
    BY DEF CalmInv
  <2>1. CalmBrowser(c)
    BY <1>2 DEF TokenInv, CalmInv
  <2>2. \A q \in Pages : Busy(q)' = Busy(q)
    BY <1>2, <1>4 DEF Busy, InFlight
  <2>3. \A q \in PagesOf(c) \ {p} : refreshing[q].at = "sent" => refreshing[q].old # n
    <3>1. ASSUME NEW q \in PagesOf(c) \ {p}, refreshing[q].at = "sent", refreshing[q].old = n
          PROVE  FALSE
      <4>1. p \in PagesOf(c)
        BY <1>5, <3>1 DEF TokenInv, PlacesInv, PagesOf
      <4>2. Outstanding(q) /\ Outstanding(p)
        BY <1>2, <3>1 DEF Outstanding
      <4> QED BY <2>1, <3>1, <4>1, <4>2 DEF CalmBrowser
    <3> QED BY <3>1
  <2>4. CASE p \in PagesOf(c)
    <3>1. n \in jtis /\ refreshing'[p].at = "consumed"
      BY <1>2, <1>3, <2>1, <2>4 DEF CalmBrowser
    <3> QED BY <1>2, <1>3, <1>4, <2>1, <2>2, <2>3, <2>4, <3>1 DEF CalmBrowser, PagesOf
  <2>5. CASE p \notin PagesOf(c)
    <3>1. storage[c] # 0 => storage[c] # n
      BY <2>5 DEF TokenInv, PlacesInv, PagesOf
    <3>2. \A q \in PagesOf(c) : refreshing'[q] = refreshing[q] /\ q # p
      BY <1>3, <2>5 DEF PagesOf
    <3> QED BY <1>2, <1>4, <2>1, <2>2, <2>3, <3>1, <3>2 DEF CalmBrowser, PagesOf
  <2> QED BY <2>4, <2>5
<1>15. ThrownOutForCause' /\ \A s \in Requests : requests'[s].at # "idle" => requests'[s].page \in Pages
  BY <1>2 DEF TokenInv, ThrownOutForCause
<1> QED
  BY <1>6, <1>7, <1>8, <1>10, <1>11, <1>12, <1>13, <1>14, <1>15 DEF TokenInv

\* An access token expires.
LEMMA ExpireKeeps ==
    ASSUME TokenInv, NEW n \in Pairs, Expire(n)
    PROVE  TokenInv'
<1>1. UNCHANGED tokenVars /\ UNCHANGED <<challenge, enrolling, keys, ticks, logins>>
      /\ expired' \subseteq expired \cup {n}
  BY DEF Expire, tokenVars, signInVars
<1>2. SessionTypeOK'
  BY <1>1 DEF TokenInv, SessionTypeOK, tokenVars
<1> QED BY <1>1, <1>2, FlowKeeps

\* A new pair takes the place of the one that was consumed.
LEMMA RefreshMintKeeps ==
    ASSUME TokenInv, NEW p \in Pages, NEW n \in Pairs, RefreshMint(p, n)
    PROVE  TokenInv'
<1> DEFINE old == refreshing[p].old
           u == pairs[old].user
           l == pairs[old].login
<1>1. /\ SessionTypeOK /\ refreshing \in [Pages -> Refresh] /\ jtis \subseteq Pairs
      /\ pairs \in [Pairs -> PairRow] /\ upsets \in 0..MaxUpsets
  BY DEF TokenInv, SessionTypeOK
<1>2. /\ UNCHANGED <<active, states, calls, codes, challenge, enrolling, keys, ticks, logins>>
      /\ UNCHANGED <<storage, expired, shown, requests, received, signedIn, raced>>
      /\ refreshing[p].at = "consumed" /\ active[u] /\ Issue(u, l, n)
      /\ refreshing' = [refreshing EXCEPT ![p] = [refreshing[p] EXCEPT !.at = "answered", !.new = n]]
  BY <1>1 DEF RefreshMint
<1>3. /\ refreshing'[p].at = "answered" /\ refreshing'[p].old = old /\ refreshing'[p].new = n
      /\ [refreshing[p] EXCEPT !.at = "answered", !.new = n] \in Refresh
      /\ \A q \in Pages \ {p} : refreshing'[q] = refreshing[q]
  <2>1. refreshing[p] \in Refresh /\ n \in 0..MaxPairs
    BY <1>1, SignInAssumption DEF Pairs
  <2> QED BY <1>1, <1>2, <2>1 DEF Refresh
<1>4. old \in Pairs /\ received[old] = 1 /\ old # 0 /\ Issued(old)
  BY <1>2, SignInAssumption DEF TokenInv, RefreshesInv, Outstanding, Pairs, PairsInv
<1>5. u \in Users /\ l \in Logins /\ Spent(l)
  BY <1>4 DEF TokenInv, PairsInv
<1>6. /\ ~Issued(n) /\ n \notin jtis /\ received[n] = 0 /\ \A j \in jtis : j \in Pairs
  BY <1>1, <1>2 DEF Issue, Fresh, TokenInv, PairsInv
<1>7. /\ pairs'[n] = [user |-> u, login |-> l]
      /\ \A j \in Pairs \ {n} : pairs'[j] = pairs[j]
  BY <1>1, <1>2 DEF Issue
<1>8. /\ jtis \subseteq jtis' /\ jtis' \subseteq jtis \cup {n}
      /\ upsets' = 0 => upsets = 0 /\ n \in jtis'
      /\ upsets > 0 => upsets' > 0
  BY <1>1, <1>2 DEF Issue, Upset
<1>9. \A q \in Pages : /\ Outstanding(q)' = Outstanding(q)
                       /\ refreshing'[q].old = refreshing[q].old
  BY <1>2, <1>3 DEF Outstanding
<1>10. SessionTypeOK'
  <2>1. refreshing' \in [Pages -> Refresh]
    BY <1>1, <1>2, <1>3
  <2>2. pairs' \in [Pairs -> PairRow] /\ jtis' \subseteq Pairs /\ upsets' \in 0..MaxUpsets
    BY <1>1, <1>2, <1>5, IssueTypes
  <2> QED BY <1>1, <1>2, <2>1, <2>2 DEF SessionTypeOK
<1> HIDE DEF old, u, l
<1>11. Issued(n)' /\ pairs'[n].login = l /\ pairs'[n].user = u
  BY <1>5, <1>7, SignInAssumption DEF Issued, Unissued
<1>12. \A j \in Pairs : /\ Issued(j) => pairs'[j] = pairs[j] /\ Issued(j)' /\ j # n
                        /\ j # n => Issued(j)' = Issued(j)
  BY <1>6, <1>7 DEF Issued
<1>13. \A q \in Pages : Outstanding(q) => refreshing[q].old \in Pairs /\ Issued(refreshing[q].old)
  BY DEF TokenInv, RefreshesInv, PairsInv
<1>14. \A b \in Browsers : storage[b] # 0 => storage[b] \in Pairs /\ Issued(storage[b])
  BY SignInAssumption DEF TokenInv, PlacesInv, PairsInv, SessionTypeOK, Pairs
<1>15. \A k \in Logins : /\ codes[k] # 0 => codes[k] \in Pairs /\ Issued(codes[k])
                         /\ logins[k].at = "answered" => logins[k].pair \in Pairs /\ Issued(logins[k].pair)
  BY SignInAssumption DEF TokenInv, FlowsInv, Waits, Issued, Unissued
<1>16. \A j \in jtis : Issued(j) /\ j \in Pairs
  BY <1>6 DEF TokenInv, PairsInv
<1>17. FlowsInv'
  <2>1. ASSUME NEW k \in Logins
        PROVE  /\ codes[k] # 0 => Waits(codes[k], k)'
               /\ logins[k].at = "answered" => Waits(logins[k].pair, k)'
    BY <1>2, <1>12, <1>15 DEF TokenInv, FlowsInv, Waits
  <2> QED BY <1>2, <2>1 DEF TokenInv, FlowsInv
<1>18. PairsInv'
  <2>1. \A k \in Logins : Spent(k)' = Spent(k)
    BY <1>2 DEF Spent
  <2>2. ASSUME NEW j \in Pairs, j # n
        PROVE  IF Issued(j)'
               THEN pairs'[j].user \in Users /\ pairs'[j].login \in Logins /\ Spent(pairs[j].login)'
               ELSE j \notin jtis' /\ received'[j] = 0
    BY <1>2, <1>8, <1>12, <2>1, <2>2 DEF TokenInv, PairsInv
  <2>3. ASSUME NEW j \in Pairs
        PROVE  IF Issued(j)'
               THEN pairs'[j].user \in Users /\ pairs'[j].login \in Logins /\ Spent(pairs[j].login)'
               ELSE j \notin jtis' /\ received'[j] = 0
    <3>1. CASE j = n
      BY <1>5, <1>11, <2>1, <3>1
    <3>2. CASE j # n
      <4>1. pairs'[j] = pairs[j]
        BY <1>7, <3>2
      <4> QED BY <2>1, <2>2, <3>2, <4>1
    <3> QED BY <3>1, <3>2
  <2> QED BY <2>1, <2>3 DEF PairsInv
<1>19. ChancesInv'
  <2>1. \A j \in jtis : pairs'[j] = pairs[j] /\ pairs[j].login # l
    BY <1>2, <1>12, <1>16 DEF TokenInv, ChancesInv, l, old
  <2>2. \A i, j \in jtis' : pairs'[i].login = pairs'[j].login => i = j
    BY <1>8, <1>11, <2>1 DEF TokenInv, ChancesInv, LoginIsSingle
  <2>3. ASSUME NEW q \in Pages, refreshing'[q].at = "consumed"
        PROVE  /\ q # p /\ refreshing'[q] = refreshing[q]
               /\ pairs'[refreshing[q].old] = pairs[refreshing[q].old]
               /\ pairs[refreshing[q].old].login # l
    <3>1. q # p /\ refreshing'[q] = refreshing[q] /\ refreshing[q].at = "consumed"
      BY <1>3, <2>3
    <3>2. pairs'[refreshing[q].old] = pairs[refreshing[q].old]
      BY <1>12, <1>13, <3>1 DEF Outstanding
    <3>3. pairs[refreshing[q].old].login # l
      BY <1>2, <3>1 DEF TokenInv, ChancesInv, l, old
    <3> QED BY <3>1, <3>2, <3>3
  <2>4. ASSUME NEW q \in Pages, refreshing'[q].at = "consumed", NEW j \in jtis'
        PROVE  pairs'[j].login # pairs'[refreshing'[q].old].login
    BY <1>8, <1>11, <2>1, <2>3, <2>4 DEF TokenInv, ChancesInv
  <2>5. ASSUME NEW q \in Pages, NEW o \in Pages,
               refreshing'[q].at = "consumed", refreshing'[o].at = "consumed",
               pairs'[refreshing'[o].old].login = pairs'[refreshing'[q].old].login
        PROVE  o = q
    BY <2>3, <2>5 DEF TokenInv, ChancesInv
  <2> QED BY <1>2, <2>2, <2>4, <2>5 DEF ChancesInv, LoginIsSingle, TokenInv
<1>20. \A k \in Logins : codes[k] # n /\ (logins[k].at = "answered" => logins[k].pair # n)
  BY <1>6, <1>15, SignInAssumption DEF Pairs
<1>21. \A q \in Pages : refreshing[q].at = "answered" => refreshing[q].new # n
  BY <1>6 DEF TokenInv, RefreshesInv, Brings
<1>22. RefreshesInv'
  <2>1. ASSUME NEW q \in Pages, refreshing'[q].at = "answered"
        PROVE  Brings(q, refreshing[q].new)'
    <3>1. CASE q = p
      <4>1. pairs'[old].login = l
        BY <1>4, <1>12 DEF l
      <4> QED BY <1>2, <1>3, <1>6, <1>11, <1>20, <1>21, <3>1, <4>1 DEF Brings
    <3>2. CASE q # p
      <4>1. refreshing'[q] = refreshing[q] /\ Brings(q, refreshing[q].new) /\ refreshing[q].new # n
        BY <1>3, <1>21, <2>1, <3>2 DEF TokenInv, RefreshesInv
      <4>2. /\ pairs'[refreshing[q].old] = pairs[refreshing[q].old]
            /\ pairs'[refreshing[q].new] = pairs[refreshing[q].new]
            /\ Issued(refreshing[q].new)'
        BY <1>12, <1>13, <2>1, <4>1 DEF Outstanding, Brings
      <4>3. ASSUME NEW o \in Pages, refreshing'[o].at = "answered", refreshing'[o].new = refreshing[q].new
            PROVE  o = q
        <5>1. o # p
          BY <1>3, <4>1, <4>3
        <5> QED BY <1>3, <4>1, <4>3, <5>1 DEF Brings
      <4>4. /\ refreshing[q].new \in Pairs /\ received[refreshing[q].new] = 0
            /\ pairs[refreshing[q].new].login = pairs[refreshing[q].old].login
            /\ \A k \in Logins : codes[k] # refreshing[q].new
                               /\ (logins[k].at = "answered" => logins[k].pair # refreshing[q].new)
        BY <4>1 DEF Brings
      <4> QED BY <1>2, <4>1, <4>2, <4>3, <4>4 DEF Brings
    <3> QED BY <3>1, <3>2
  <2> QED BY <1>2, <1>9, <2>1 DEF TokenInv, RefreshesInv
<1>23. PlacesInv'
  BY <1>2, <1>9 DEF TokenInv, PlacesInv
<1>24. CurrentInv'
  <2>1. \A b \in Browsers : storage[b] # 0 => pairs'[storage[b]] = pairs[storage[b]]
    BY <1>12, <1>14
  <2>2. \A q \in Pages : Outstanding(q) => pairs'[refreshing[q].old] = pairs[refreshing[q].old]
    BY <1>12, <1>13
  <2> QED BY <1>2, <1>9, <2>1, <2>2 DEF TokenInv, CurrentInv, StoredIsCurrent
<1>25. ValidInv'
  BY <1>2, <1>3, <1>8 DEF TokenInv, ValidInv
<1>26. CalmInv'
  <2> SUFFICES ASSUME upsets' = 0, NEW b \in Browsers \ raced PROVE CalmBrowser(b)'
    BY <1>2 DEF CalmInv
  <2>1. CalmBrowser(b)
    BY <1>8 DEF TokenInv, CalmInv
  <2>2. \A q \in Pages : Busy(q)' = Busy(q)
    BY <1>2, <1>9 DEF Busy, InFlight
  <2>3. \A q \in Pages : /\ refreshing[q].at \in {"consumed", "answered"}
                            => refreshing'[q].at \in {"consumed", "answered"}
                         /\ refreshing'[q].at \in {"stuck", "refused", "sent"}
                            => refreshing'[q] = refreshing[q]
    BY <1>3
  <2>4. \A q \in PagesOf(b) :
         /\ refreshing'[q].at \notin {"stuck", "refused"}
         /\ refreshing'[q].at = "sent" => refreshing'[q].old \in jtis'
    BY <1>8, <2>1, <2>3 DEF CalmBrowser, PagesOf
  <2>5. \A q \in PagesOf(b) : q \in shown' \/ Busy(q)' => storage'[b] # 0
    BY <1>2, <2>1, <2>2 DEF CalmBrowser, PagesOf
  <2>6. storage'[b] # 0 => \/ storage'[b] \in jtis'
                           \/ \E q \in PagesOf(b) : refreshing'[q].at \in {"consumed", "answered"}
    BY <1>2, <1>8, <2>1, <2>3 DEF CalmBrowser, PagesOf
  <2>7. \A q, o \in PagesOf(b) : Outstanding(q)' /\ Outstanding(o)' => q = o
    BY <1>9, <2>1 DEF CalmBrowser, PagesOf
  <2> QED BY <2>4, <2>5, <2>6, <2>7 DEF CalmBrowser, PagesOf
<1>27. ThrownOutForCause' /\ \A s \in Requests : requests'[s].at # "idle" => requests'[s].page \in Pages
  BY <1>2, <1>8 DEF TokenInv, ThrownOutForCause
<1> QED
  BY <1>10, <1>17, <1>18, <1>19, <1>22, <1>23, <1>24, <1>25, <1>26, <1>27 DEF TokenInv

\* The answer of a refresh is stored and the requests that waited go on.
LEMMA DoneKeeps ==
    ASSUME TokenInv, NEW p \in Pages, NEW n \in Pairs, RefreshDone(p), refreshing[p].new = n
    PROVE  TokenInv'
<1>1. n = refreshing[p].new
  OBVIOUS
<1> DEFINE b == BrowserOf[p]
<1>2. /\ SessionTypeOK /\ refreshing \in [Pages -> Refresh] /\ storage \in [Browsers -> 0..MaxPairs]
      /\ received \in [Pairs -> 0..2] /\ requests \in [Requests -> Request] /\ b \in Browsers
  BY SessionAssumption DEF TokenInv, SessionTypeOK
<1>3. /\ UNCHANGED <<active, pairs, jtis, states, calls, codes, challenge, enrolling, keys,
                     ticks, logins, upsets>>
      /\ UNCHANGED <<expired, shown, signedIn, raced>>
      /\ refreshing[p].at = "answered" /\ refreshing' = [refreshing EXCEPT ![p] = NoRefresh]
      /\ storage' = [storage EXCEPT ![b] = n]
      /\ received' = [received EXCEPT ![n] = received[n] + 1]
  BY <1>1, <1>2 DEF RefreshDone, signInVars
<1>4. Brings(p, n) /\ n \in Pairs /\ Issued(n) /\ received[n] = 0 /\ n # 0 /\ n \in 0..MaxPairs
  <2>1. refreshing[p].at = "answered" /\ refreshing[p].new = n
    BY <1>3
  <2>2. Brings(p, n)
    BY <2>1 DEF TokenInv, RefreshesInv
  <2>3. n \in Pairs /\ Issued(n) /\ received[n] = 0
    BY <2>2 DEF Brings
  <2>4. n # 0 /\ n \in 0..MaxPairs
    BY <2>3, SignInAssumption DEF Pairs
  <2> QED BY <2>2, <2>3, <2>4
<1> HIDE DEF b
<1>5. /\ storage'[b] = n /\ \A c \in Browsers \ {b} : storage'[c] = storage[c]
      /\ received'[n] = 1 /\ \A m \in Pairs \ {n} : received'[m] = received[m]
      /\ refreshing'[p].at = "idle" /\ refreshing'[p].old = 0
      /\ \A q \in Pages \ {p} : refreshing'[q] = refreshing[q]
      /\ NoRefresh \in Refresh
  BY <1>2, <1>3, <1>4, SignInAssumption DEF NoRefresh, Refresh
<1>6. /\ ~Outstanding(p)' /\ Outstanding(p)
      /\ \A q \in Pages \ {p} : Outstanding(q)' = Outstanding(q)
  BY <1>3, <1>5 DEF Outstanding
<1>7. ASSUME NEW r \in Requests
      PROVE  /\ requests'[r] \in Request /\ requests'[r].page = requests[r].page
             /\ requests'[r].at = requests[r].at \/ requests'[r].at = "resent"
             /\ InFlight(r)' = InFlight(r)
             /\ requests'[r].at # "idle" => requests[r].at # "idle"
  <2>1. requests[r] \in Request
    BY <1>2
  <2>2. CASE r \in Waiters(p)
    <3>1. requests'[r] = [requests[r] EXCEPT !.at = "resent", !.pair = n] /\ requests[r].at = "waiting"
      BY <2>2 DEF RefreshDone, Waiters
    <3>2. PICK q \in Request : q = requests[r]
      BY <2>1
    <3>3. requests'[r] = [q EXCEPT !.at = "resent", !.pair = n]
      BY <3>1, <3>2, Zenon
    <3>4. /\ requests'[r] \in Request /\ requests'[r].page = q.page
          /\ requests'[r].at = "resent"
      BY <1>4, <3>3 DEF Request
    <3> QED BY <3>1, <3>2, <3>4 DEF InFlight
  <2>3. CASE r \notin Waiters(p)
    <3>1. requests'[r] = requests[r]
      BY <2>3 DEF RefreshDone
    <3> QED BY <2>1, <3>1 DEF InFlight
  <2> QED BY <2>2, <2>3
<1>8. SessionTypeOK'
  <2>1. /\ refreshing' \in [Pages -> Refresh] /\ storage' \in [Browsers -> 0..MaxPairs]
        /\ received' \in [Pairs -> 0..2]
    BY <1>2, <1>3, <1>4, <1>5
  <2>2. requests' \in [Requests -> Request]
    <3>1. requests' = [r \in Requests |-> requests'[r]]
      BY DEF RefreshDone
    <3> QED BY <1>7, <3>1
  <2> QED BY <1>2, <1>3, <2>1, <2>2 DEF SessionTypeOK
<1>9. \A k \in Logins : codes[k] # n /\ (logins[k].at = "answered" => logins[k].pair # n)
  BY <1>4 DEF Brings
<1>10. \A q \in Pages : Outstanding(q) => refreshing[q].old # n /\ refreshing[q].old \in Pairs
  BY <1>4 DEF TokenInv, RefreshesInv
<1>11. \A q \in Pages \ {p} : refreshing[q].at = "answered" => refreshing[q].new # n
  BY <1>4 DEF Brings
<1>12. \A c \in Browsers : storage[c] # n
  BY <1>4 DEF TokenInv, PlacesInv
<1>13. FlowsInv'
  <2>1. ASSUME NEW k \in Logins
        PROVE  /\ codes[k] # 0 => Waits(codes[k], k)'
               /\ logins[k].at = "answered" => Waits(logins[k].pair, k)'
    BY <1>3, <1>5, <1>9 DEF TokenInv, FlowsInv, Waits
  <2> QED BY <1>3, <2>1 DEF TokenInv, FlowsInv
<1>14. PairsInv'
  <2>1. \A k \in Logins : Spent(k)' = Spent(k)
    BY <1>3 DEF Spent
  <2>2. \A m \in Pairs : Issued(m)' = Issued(m)
    BY <1>3 DEF Issued
  <2> QED BY <1>3, <1>4, <1>5, <2>1, <2>2 DEF TokenInv, PairsInv
<1>15. ChancesInv'
  <2>1. \A q \in Pages : refreshing'[q].at = "consumed" => refreshing'[q] = refreshing[q]
    BY <1>5
  <2>2. \A m \in Pairs : received'[m] <= 1
    BY <1>5 DEF TokenInv, ChancesInv, LoginIsSingle
  <2> QED BY <1>3, <2>1, <2>2 DEF TokenInv, ChancesInv, LoginIsSingle
<1>16. RefreshesInv'
  <2>1. ASSUME NEW q \in Pages, refreshing'[q].at = "answered" PROVE Brings(q, refreshing[q].new)'
    <3>1. /\ q # p /\ refreshing'[q] = refreshing[q] /\ Brings(q, refreshing[q].new)
          /\ refreshing[q].new # n
      BY <1>5, <1>11, <2>1 DEF TokenInv, RefreshesInv
    <3>2. \A o \in Pages : refreshing'[o].at = "answered" => refreshing'[o] = refreshing[o]
      BY <1>5
    <3> QED BY <1>3, <1>5, <3>1, <3>2 DEF Brings, Issued
  <2>2. ASSUME NEW q \in Pages, Outstanding(q)'
        PROVE  refreshing'[q].old \in Pairs /\ received'[refreshing'[q].old] = 1
    <3>1. q # p /\ refreshing'[q] = refreshing[q] /\ Outstanding(q)
      BY <1>5, <1>6, <2>2
    <3> QED BY <1>5, <1>10, <3>1 DEF TokenInv, RefreshesInv
  <2>3. ASSUME NEW q \in Pages, ~Outstanding(q)' PROVE refreshing'[q].old = 0
    <3>1. CASE q = p
      BY <1>5, <3>1
    <3>2. CASE q # p
      BY <1>5, <1>6, <2>3, <3>2 DEF TokenInv, RefreshesInv
    <3> QED BY <3>1, <3>2
  <2>4. \A q \in Pages : refreshing'[q].at = "answered" => refreshing'[q].new = refreshing[q].new
    BY <1>5
  <2> QED BY <2>1, <2>2, <2>3, <2>4 DEF RefreshesInv
<1>17. \A q \in Pages : refreshing'[q].old # 0 => refreshing'[q].old = refreshing[q].old /\ refreshing'[q].old # n
  <2> SUFFICES ASSUME NEW q \in Pages, refreshing'[q].old # 0
               PROVE  refreshing'[q].old = refreshing[q].old /\ refreshing'[q].old # n
    OBVIOUS
  <2>1. q # p /\ refreshing'[q] = refreshing[q]
    BY <1>5
  <2>2. Outstanding(q)
    BY <2>1 DEF TokenInv, RefreshesInv
  <2> QED BY <1>10, <2>1, <2>2
<1>18. PlacesInv'
  <2>1. ASSUME NEW c \in Browsers, storage'[c] # 0
        PROVE  /\ received'[storage'[c]] = 1
               /\ \A d \in Browsers : storage'[d] = storage'[c] => d = c
               /\ \A q \in Pages : refreshing'[q].old = storage'[c] => BrowserOf[q] = c
    <3>1. CASE c = b
      BY <1>4, <1>5, <1>12, <1>17, <3>1
    <3>2. CASE c # b
      <4>1. storage'[c] = storage[c] /\ storage[c] # n /\ storage[c] \in Pairs
        BY <1>2, <1>5, <1>12, <2>1, <3>2, SignInAssumption DEF Pairs
      <4> QED BY <1>5, <1>17, <2>1, <3>2, <4>1 DEF TokenInv, PlacesInv
    <3> QED BY <3>1, <3>2
  <2> QED BY <1>17, <2>1 DEF TokenInv, PlacesInv
<1>19. CurrentInv'
  <2>1. b \notin raced => pairs[n].login = signedIn[b]
    BY <1>4, <1>6 DEF Brings, TokenInv, CurrentInv, b
  <2>2. StoredIsCurrent'
    BY <1>3, <1>5, <2>1 DEF TokenInv, CurrentInv, StoredIsCurrent
  <2>3. ASSUME NEW q \in Pages, Outstanding(q)', BrowserOf[q] \notin raced'
        PROVE  pairs'[refreshing'[q].old].login = signedIn'[BrowserOf[q]]
    <3>1. q # p /\ refreshing'[q] = refreshing[q] /\ Outstanding(q)
      BY <1>5, <1>6, <2>3
    <3> QED BY <1>3, <2>3, <3>1 DEF TokenInv, CurrentInv
  <2> QED BY <2>2, <2>3 DEF CurrentInv
<1>20. ValidInv'
  <2>1. \A q \in Pages : refreshing'[q].at = "answered" => refreshing'[q] = refreshing[q]
    BY <1>5
  <2> QED BY <1>3, <2>1 DEF TokenInv, ValidInv
<1>21. CalmInv'
  <2> SUFFICES ASSUME upsets' = 0, NEW c \in Browsers \ raced' PROVE CalmBrowser(c)'
    BY DEF CalmInv
  <2>1. CalmBrowser(c) /\ upsets = 0
    BY <1>3 DEF TokenInv, CalmInv
  <2>2. CASE c = b
    <3>1. p \in PagesOf(c)
      BY <2>2 DEF PagesOf, b
    <3>2. \A q \in PagesOf(c) : ~Outstanding(q)' /\ refreshing'[q].at \notin {"stuck", "refused", "sent"}
      BY <1>5, <1>6, <2>1, <3>1 DEF CalmBrowser, PagesOf, Outstanding
    <3>3. n \in jtis
      BY <1>1, <1>3, <2>1 DEF TokenInv, ValidInv
    <3> QED BY <1>3, <1>4, <1>5, <2>2, <3>2, <3>3 DEF CalmBrowser, PagesOf
  <2>3. CASE c # b
    <3>1. \A q \in PagesOf(c) : q # p
      BY <2>3 DEF PagesOf, b
    <3>2. \A q \in PagesOf(c) : Busy(q)' => Busy(q)
      BY <1>6, <1>7, <3>1 DEF Busy, PagesOf
    <3>3. \A q \in PagesOf(c) : refreshing'[q] = refreshing[q] /\ Outstanding(q)' = Outstanding(q)
      BY <1>5, <1>6, <3>1 DEF PagesOf
    <3>4. storage'[c] = storage[c]
      BY <1>5, <2>3
    <3> QED BY <1>3, <2>1, <3>2, <3>3, <3>4 DEF CalmBrowser, PagesOf
  <2> QED BY <2>2, <2>3
<1>22. ThrownOutForCause'
  BY <1>3, <1>7 DEF TokenInv, ThrownOutForCause
<1>23. \A r \in Requests : requests'[r].at # "idle" => requests'[r].page \in Pages
  BY <1>7 DEF TokenInv
<1> QED
  BY <1>8, <1>13, <1>14, <1>15, <1>16, <1>18, <1>19, <1>20, <1>21, <1>22, <1>23 DEF TokenInv

-----------------------------------------------------------------------------
(* Theorems *)

\* Every step of the handlers, the browsers and the time.
LEMMA SignInStepKeeps ==
    ASSUME SessionInv, SignInStep, UNCHANGED sessionVars
    PROVE  SessionInv'
<1>1. /\ TokenInv /\ KeyInv /\ SessionTypeOK /\ logins \in [Logins -> Login]
      /\ \A k \in Logins : logins[k].at # "idle" => logins[k].user \in Users
  BY DEF SessionInv, TokenInv, SessionTypeOK, FlowsInv
<1>2. CASE \E l \in Logins, u \in Users :
             SsoAuthorize(l, u) \/ \E n \in Pairs : PasswordLogin(l, u, n)
  <2>1. PICK l \in Logins, u \in Users :
               SsoAuthorize(l, u) \/ \E n \in Pairs : PasswordLogin(l, u, n)
    BY <1>2
  <2>2. TokenInv'
    BY <1>1, <2>1, TokenSteps
  <2>3. KeyInv'
    <3>1. UNCHANGED <<keys, enrolling>> /\ logins[l].at = "idle" /\ logins[l] \in Login
      BY <1>1, <2>1 DEF PasswordLogin, SsoAuthorize
    <3>2. PICK q :
            /\ q.at \in {"sso", "answered"} /\ q.user = u
            /\ q.sign = logins[l].sign /\ q.seen = logins[l].seen /\ q.raced = logins[l].raced
            /\ logins' = [logins EXCEPT ![l] = q]
      <4>1. CASE SsoAuthorize(l, u)
        <5> DEFINE r == [logins[l] EXCEPT !.at = "sso", !.user = u]
        <5>1. logins' = [logins EXCEPT ![l] = r]
          BY <1>1, <4>1 DEF SsoAuthorize
        <5>2. /\ r.at = "sso" /\ r.user = u /\ r.sign = logins[l].sign /\ r.seen = logins[l].seen
              /\ r.raced = logins[l].raced
          BY <3>1 DEF Login
        <5> HIDE DEF r
        <5> QED BY <5>1, <5>2
      <4>2. ASSUME NEW n \in Pairs, PasswordLogin(l, u, n)
            PROVE  \E q : /\ q.at \in {"sso", "answered"} /\ q.user = u
                         /\ q.sign = logins[l].sign /\ q.seen = logins[l].seen
                         /\ q.raced = logins[l].raced
                         /\ logins' = [logins EXCEPT ![l] = q]
        <5> DEFINE r == [logins[l] EXCEPT !.at = "answered", !.user = u, !.pair = n]
        <5>1. logins' = [logins EXCEPT ![l] = r]
          BY <1>1, <4>2 DEF PasswordLogin
        <5>2. /\ r.at = "answered" /\ r.user = u /\ r.sign = logins[l].sign
              /\ r.seen = logins[l].seen /\ r.raced = logins[l].raced
          BY <3>1 DEF Login
        <5> HIDE DEF r
        <5> QED BY <5>1, <5>2
      <4> QED BY <2>1, <4>1, <4>2
    <3>3. logins'[l] = q /\ \A k \in Logins \ {l} : logins'[k] = logins[k]
      BY <1>1, <3>2
    <3>4. /\ q.at \in {"sso", "answered"} /\ q.user = u /\ q.sign = logins[l].sign
          /\ q.seen = logins[l].seen /\ q.raced = logins[l].raced
      BY <3>2
    <3> QED BY <1>1, <3>1, <3>3, <3>4, KeysRest
  <2> QED BY <2>2, <2>3 DEF SessionInv
<1>3. CASE \E l \in Logins, n \in Pairs : KeyMint(l, n)
  <2>1. PICK l \in Logins, n \in Pairs : KeyMint(l, n)
    BY <1>3
  <2>2. TokenInv'
    BY <1>1, <2>1, TokenSteps
  <2>3. KeyInv'
    <3> DEFINE q == [logins[l] EXCEPT !.at = "answered", !.pair = n]
    <3>1. /\ UNCHANGED <<keys, enrolling>> /\ logins[l].at = "keyed" /\ logins[l] \in Login
          /\ logins' = [logins EXCEPT ![l] = q]
      BY <1>1, <2>1 DEF KeyMint
    <3>2. /\ q.at = "answered" /\ q.user = logins[l].user /\ q.sign = logins[l].sign
          /\ q.seen = logins[l].seen /\ q.raced = logins[l].raced
      BY <3>1 DEF Login
    <3>3. logins'[l] = q /\ \A k \in Logins \ {l} : logins'[k] = logins[k]
      BY <1>1, <3>1
    <3> HIDE DEF q
    <3> QED BY <1>1, <3>1, <3>2, <3>3, KeysRest
  <2> QED BY <2>2, <2>3 DEF SessionInv
<1>4. CASE \/ \E l \in Logins : SsoCallback(l) \/ SsoRefused(l) \/ SsoLapses(l)
           \/ \E l \in Logins, n \in Pairs : SsoMint(l, n)
           \/ \E u \in Users : Deactivate(u)
           \/ \E n \in Pairs : RevokeJti(n)
  <2>1. TokenInv'
    BY <1>1, <1>4, TokenSteps
  <2>2. UNCHANGED <<keys, enrolling, logins>>
    BY <1>4 DEF SsoCallback, SsoRefused, SsoLapses, SsoMint, Deactivate, RevokeJti
  <2>3. KeyInv'
    BY <1>1, <2>2, KeysRest
  <2> QED BY <2>1, <2>3 DEF SessionInv
<1>5. CASE \E l \in Logins, u \in Users : KeyBegin(l, u)
  BY <1>1, <1>5, KeySteps DEF SessionInv
<1>6. CASE \E l \in Logins : KeySign(l) \/ KeyRead(l) \/ KeyVerify(l) \/ KeyCommit(l) \/ KeyAccountDisabled(l)
  <2>1. PICK l \in Logins : KeySign(l) \/ KeyRead(l) \/ KeyVerify(l) \/ KeyCommit(l) \/ KeyAccountDisabled(l)
    BY <1>6
  <2>2. logins[l].user \in Users
    BY <1>1, <2>1 DEF KeySign, KeyRead, KeyVerify, KeyCommit, KeyAccountDisabled
  <2> QED BY <1>1, <2>1, <2>2, KeySteps DEF SessionInv
<1>7. CASE \E u \in Users : KeyRegisterBegin(u) \/ KeyRegisterComplete(u) \/ KeyDelete(u) \/ ChallengeLapses(u)
  BY <1>1, <1>7, KeyRowSteps DEF SessionInv
<1> QED BY <1>2, <1>3, <1>4, <1>5, <1>6, <1>7 DEF SignInStep

LEMMA SessionStepKeeps ==
    ASSUME SessionInv, SessionStep
    PROVE  SessionInv'
<1>1. TokenInv /\ KeyInv /\ SessionTypeOK /\ logins \in [Logins -> Login]
  BY DEF SessionInv, TokenInv, SessionTypeOK
\* Of the passkeys' state only SignIn moves anything.
<1>2. ASSUME UNCHANGED <<keys, enrolling, logins>> PROVE KeyInv'
  BY <1>1, <1>2, KeysRest
<1>3. CASE \E p \in Pages, l \in Logins : SignIn(p, l)
  <2>1. PICK p \in Pages, l \in Logins : SignIn(p, l)
    BY <1>3
  <2>2. TokenInv'
    BY <1>1, <2>1, SignSteps
  <2>3. KeyInv'
    <3> DEFINE q == [logins[l] EXCEPT !.at = "done"]
    <3>1. /\ UNCHANGED <<keys, enrolling>> /\ logins[l].at = "answered" /\ logins[l] \in Login
          /\ logins' = [logins EXCEPT ![l] = q]
      BY <1>1, <2>1 DEF SignIn, At
    <3>2. /\ q.at = "done" /\ q.user = logins[l].user /\ q.sign = logins[l].sign
          /\ q.seen = logins[l].seen /\ q.raced = logins[l].raced
      BY <3>1 DEF Login
    <3>3. logins'[l] = q /\ \A k \in Logins \ {l} : logins'[k] = logins[k]
      BY <1>1, <3>1
    <3> HIDE DEF q
    <3> QED BY <1>1, <3>1, <3>2, <3>3, KeysRest
  <2> QED BY <2>2, <2>3 DEF SessionInv
<1>4. CASE \/ \E p \in Pages, l \in Logins : SignInSso(p, l)
           \/ \E p \in Pages : SignOut(p)
  <2>1. TokenInv'
    BY <1>1, <1>4, SignSteps
  <2>2. UNCHANGED <<keys, enrolling, logins>>
    BY <1>4 DEF SignInSso, SsoExchange, SignOut, signInVars
  <2> QED BY <1>2, <2>1, <2>2 DEF SessionInv
<1>5. CASE \/ \E p \in Pages, r \in Requests : Start(r, p)
           \/ \E r \in Requests : Succeed(r) \/ JoinRefresh(r)
  <2>1. PICK r \in Requests : (\E p \in Pages : Start(r, p)) \/ Succeed(r) \/ JoinRefresh(r)
    BY <1>5
  <2>2. UNCHANGED <<signInVars, storage, expired, refreshing, received, signedIn, raced>>
    BY <2>1 DEF Start, Succeed, JoinRefresh
  <2>3. \E p \in Pages : Start(r, p) \/ Succeed(r) \/ JoinRefresh(r)
    <3>1. CASE Succeed(r) \/ JoinRefresh(r)
      <4>1. requests[r].page \in Pages
        BY <1>1, <3>1 DEF TokenInv, Succeed, JoinRefresh, Denied
      <4> QED BY <3>1, <4>1
    <3> QED BY <2>1, <3>1
  <2>4. TokenInv'
    BY <1>1, <2>2, <2>3, RequestKeeps
  <2> QED BY <1>2, <2>2, <2>4 DEF SessionInv, signInVars
<1>6. CASE \E r \in Requests : SendRefresh(r)
  <2>1. PICK r \in Requests : SendRefresh(r)
    BY <1>6
  <2>2. PICK p \in Pages : requests[r].page = p
    BY <1>1, <2>1 DEF TokenInv, SendRefresh, Denied
  <2>3. TokenInv'
    BY <1>1, <2>1, <2>2, SendKeeps
  <2>4. UNCHANGED <<keys, enrolling, logins>>
    BY <2>1 DEF SendRefresh, signInVars
  <2> QED BY <1>2, <2>3, <2>4 DEF SessionInv
<1>7. CASE \E r \in Requests : NothingToRefresh(r) \/ Fail(r)
  <2>1. PICK r \in Requests : NothingToRefresh(r) \/ Fail(r)
    BY <1>7
  <2>2. PICK p \in Pages : requests[r].page = p
    BY <1>1, <2>1 DEF TokenInv, NothingToRefresh, Fail, Denied, InFlight
  <2>3. TokenInv'
    BY <1>1, <2>1, <2>2, GiveUpSteps
  <2>4. UNCHANGED <<keys, enrolling, logins>>
    BY <2>1 DEF NothingToRefresh, Fail, signInVars
  <2> QED BY <1>2, <2>3, <2>4 DEF SessionInv
<1>8. CASE \E p \in Pages : RefreshDisabled(p) \/ RefreshLost(p) \/ RefreshFails(p) \/ Reload(p)
  <2>1. TokenInv'
    BY <1>1, <1>8, GiveUpSteps
  <2>2. UNCHANGED <<keys, enrolling, logins>>
    BY <1>8 DEF RefreshDisabled, RefreshLost, RefreshFails, Reload, signInVars
  <2> QED BY <1>2, <2>1, <2>2 DEF SessionInv
<1>9. CASE \E p \in Pages : RefreshConsume(p) \/ \E n \in Pairs : RefreshMint(p, n)
  <2>1. TokenInv'
    BY <1>1, <1>9, ConsumeKeeps, RefreshMintKeeps
  <2>2. UNCHANGED <<keys, enrolling, logins>>
    BY <1>9 DEF RefreshConsume, RefreshMint
  <2> QED BY <1>2, <2>1, <2>2 DEF SessionInv
<1>10. CASE \E p \in Pages : RefreshDone(p)
  <2>1. PICK p \in Pages : RefreshDone(p)
    BY <1>10
  <2>2. refreshing[p].new \in Pairs
    BY <1>1, <2>1 DEF TokenInv, RefreshesInv, Brings, RefreshDone
  <2>3. TokenInv'
    BY <1>1, <2>1, <2>2, DoneKeeps
  <2>4. UNCHANGED <<keys, enrolling, logins>>
    BY <2>1 DEF RefreshDone, signInVars
  <2> QED BY <1>2, <2>3, <2>4 DEF SessionInv
<1>11. CASE \E n \in Pairs : Expire(n)
  <2>1. TokenInv'
    BY <1>1, <1>11, ExpireKeeps
  <2>2. UNCHANGED <<keys, enrolling, logins>>
    BY <1>11 DEF Expire, signInVars
  <2> QED BY <1>2, <2>1, <2>2 DEF SessionInv
<1> QED
  BY <1>3, <1>4, <1>5, <1>6, <1>7, <1>8, <1>9, <1>10, <1>11 DEF SessionStep, RefreshStep, Answer

LEMMA UnchangedKeeps == ASSUME SessionInv, UNCHANGED allVars PROVE SessionInv'
<1>1. UNCHANGED tokenVars /\ UNCHANGED <<challenge, enrolling, keys, ticks, logins, expired>>
  BY DEF allVars, signInVars, sessionVars, tokenVars
<1>2. SessionTypeOK' /\ SessionTypeOK
  BY <1>1 DEF SessionInv, TokenInv, SessionTypeOK, tokenVars
<1>3. TokenInv'
  BY <1>1, <1>2, FlowKeeps DEF SessionInv
<1>4. KeyInv'
  BY <1>1, <1>2, KeysRest DEF SessionInv
<1> QED BY <1>3, <1>4 DEF SessionInv

\* Only its own commit takes a login from "verified" to "keyed".
LEMMA OnlyCommits ==
    ASSUME SessionTypeOK, [SessionNext]_allVars, NEW l \in Logins,
           logins[l].at = "verified", logins'[l].at = "keyed"
    PROVE  KeyCommit(l)
<1>1. logins \in [Logins -> Login] /\ \A k \in Logins : logins[k] \in Login
  BY DEF SessionTypeOK
<1>2. logins' # logins
  OBVIOUS
<1>3. ASSUME NEW k \in Logins, NEW q, logins' = [logins EXCEPT ![k] = q], q.at # "keyed"
      PROVE  FALSE
  BY <1>1, <1>3
<1>4. SignInStep \/ \E p \in Pages, k \in Logins : SignIn(p, k)
  <2>1. CASE UNCHANGED allVars
    BY <1>2, <2>1 DEF allVars, signInVars
  <2>2. CASE SessionStep
    BY <1>2, <2>2
       DEF SessionStep, RefreshStep, Answer, RefreshConsume, RefreshDisabled, RefreshDone,
           RefreshFails, RefreshMint, RefreshLost, Reload, SignOut, SignInSso, SsoExchange, Start,
           Succeed, JoinRefresh, SendRefresh, NothingToRefresh, Fail, Expire, signInVars
  <2> QED BY <2>1, <2>2 DEF SessionNext
<1>5. ASSUME NEW p \in Pages, NEW k \in Logins, SignIn(p, k) PROVE FALSE
  <2>1. logins' = [logins EXCEPT ![k] = [logins[k] EXCEPT !.at = "done"]]
    BY <1>1, <1>5 DEF SignIn, At
  <2>2. [logins[k] EXCEPT !.at = "done"].at = "done"
    BY <1>1 DEF Login
  <2> QED BY <1>3, <2>1, <2>2
<1>6. SignInStep
  BY <1>4, <1>5
<1>7. PICK k \in Logins :
        \/ \E u \in Users : \/ \E n \in Pairs : PasswordLogin(k, u, n)
                            \/ SsoAuthorize(k, u) \/ KeyBegin(k, u)
        \/ KeySign(k) \/ KeyRead(k) \/ KeyVerify(k) \/ KeyCommit(k) \/ KeyAccountDisabled(k)
        \/ \E n \in Pairs : KeyMint(k, n)
  BY <1>2, <1>6 DEF SignInStep, SsoCallback, SsoRefused, SsoLapses, SsoMint, KeyRegisterBegin,
                    KeyRegisterComplete, KeyDelete, ChallengeLapses, Deactivate, RevokeJti
<1>8. KeyCommit(k)
  <2>1. \A u : [logins[k] EXCEPT !.at = "sso", !.user = u].at = "sso"
    BY <1>1 DEF Login
  <2>2. \A u : [logins[k] EXCEPT !.at = "challenged", !.user = u].at = "challenged"
    BY <1>1 DEF Login
  <2>3. \A u, n : [logins[k] EXCEPT !.at = "answered", !.user = u, !.pair = n].at = "answered"
    BY <1>1 DEF Login
  <2>4. \A n : [logins[k] EXCEPT !.at = "answered", !.pair = n].at = "answered"
    BY <1>1 DEF Login
  <2>5. \A c : [logins[k] EXCEPT !.at = "signed", !.sign = c].at = "signed"
    BY <1>1 DEF Login
  <2>6. \A c : [logins[k] EXCEPT !.at = "read", !.seen = c].at = "read"
    BY <1>1 DEF Login
  <2>7. [logins[k] EXCEPT !.at = "refused"].at = "refused"
    BY <1>1 DEF Login
  <2>8. [logins[k] EXCEPT !.at = "verified"].at = "verified"
    BY <1>1 DEF Login
  <2>9. ASSUME NEW u \in Users, NEW n \in Pairs, PasswordLogin(k, u, n) PROVE FALSE
    <3>1. logins' = [logins EXCEPT ![k] = [logins[k] EXCEPT !.at = "answered", !.user = u, !.pair = n]]
      BY <1>1, <2>9 DEF PasswordLogin
    <3> QED BY <1>3, <2>3, <3>1
  <2>10. ASSUME NEW u \in Users, SsoAuthorize(k, u) PROVE FALSE
    <3>1. logins' = [logins EXCEPT ![k] = [logins[k] EXCEPT !.at = "sso", !.user = u]]
      BY <1>1, <2>10 DEF SsoAuthorize
    <3> QED BY <1>3, <2>1, <3>1
  <2>11. ASSUME NEW u \in Users, KeyBegin(k, u) PROVE FALSE
    <3>1. logins' = [logins EXCEPT ![k] = [logins[k] EXCEPT !.at = "challenged", !.user = u]]
      BY <1>1, <2>11 DEF KeyBegin
    <3> QED BY <1>3, <2>2, <3>1
  <2>12. ASSUME NEW n \in Pairs, KeyMint(k, n) PROVE FALSE
    <3>1. logins' = [logins EXCEPT ![k] = [logins[k] EXCEPT !.at = "answered", !.pair = n]]
      BY <1>1, <2>12 DEF KeyMint
    <3> QED BY <1>3, <2>4, <3>1
  <2>13. ASSUME KeySign(k) PROVE FALSE
    <3>1. PICK c : logins' = [logins EXCEPT ![k] = [logins[k] EXCEPT !.at = "signed", !.sign = c]]
      BY <1>1, <2>13 DEF KeySign
    <3> QED BY <1>3, <2>5, <3>1
  <2>14. ASSUME KeyRead(k) PROVE FALSE
    <3>1. \/ logins' = [logins EXCEPT ![k] =
                          [logins[k] EXCEPT !.at = "read", !.seen = keys[logins[k].user].count]]
          \/ logins' = [logins EXCEPT ![k] = [logins[k] EXCEPT !.at = "refused"]]
      BY <1>1, <2>14 DEF KeyRead
    <3> QED BY <1>3, <2>6, <2>7, <3>1
  <2>15. ASSUME KeyVerify(k) PROVE FALSE
    <3>1. \/ logins' = [logins EXCEPT ![k] = [logins[k] EXCEPT !.at = "verified"]]
          \/ logins' = [logins EXCEPT ![k] = [logins[k] EXCEPT !.at = "refused"]]
      BY <1>1, <2>15 DEF KeyVerify, At
    <3> QED BY <1>3, <2>7, <2>8, <3>1
  <2>16. ASSUME KeyAccountDisabled(k) PROVE FALSE
    <3>1. logins' = [logins EXCEPT ![k] = [logins[k] EXCEPT !.at = "refused"]]
      BY <1>1, <2>16 DEF KeyAccountDisabled, At
    <3> QED BY <1>3, <2>7, <3>1
  <2> QED BY <1>7, <2>9, <2>10, <2>11, <2>12, <2>13, <2>14, <2>15, <2>16
<1>9. k = l
  <2>1. SUFFICES ASSUME k # l PROVE FALSE
    OBVIOUS
  <2>2. CASE logins' = [logins EXCEPT ![k] = [logins[k] EXCEPT !.at = "refused"]]
    BY <1>1, <2>1, <2>2
  <2>3. CASE logins'[l] = logins[l] \/ logins'[l] = [logins[l] EXCEPT !.raced = TRUE]
    <3>1. [logins[l] EXCEPT !.raced = TRUE].at = logins[l].at
      BY <1>1 DEF Login
    <3> QED BY <2>3, <3>1
  <2> QED BY <1>1, <1>8, <2>1, <2>2, <2>3 DEF KeyCommit, At
<1> QED BY <1>8, <1>9

\* The inductive invariant of logins, sessions and passkeys, for any number of
\* users, logins, browsers, pages, requests and failures.
THEOREM SessionInvariant == SessionSpec => []SessionInv
<1>1. SessionInit => SessionInv
  BY InitialTokens, InitialKeys DEF SessionInv
<1>2. SessionInv /\ [SessionNext]_allVars => SessionInv'
  BY SignInStepKeeps, SessionStepKeeps, UnchangedKeeps DEF SessionNext
<1> QED BY <1>1, <1>2, PTL DEF SessionSpec

\* The variables of sessions and sign-in keep their types (and no pair of tokens
\* is received more than twice, no bound of the instance is passed).
THEOREM SessionTypeCorrect == SessionSpec => []SessionTypeOK
<1>1. SessionInv => SessionTypeOK
  BY DEF SessionInv, TokenInv
<1> QED BY <1>1, SessionInvariant, PTL

\* However the calls of a login are repeated or overlap, it has at most one valid
\* refresh token and each pair of tokens is received once (auth.py, sso.py,
\* passkeys.py: each key in Redis is taken away by one GETDEL).
THEOREM LoginsAreSingle == SessionSpec => []LoginIsSingle
<1>1. SessionInv => LoginIsSingle
  BY DEF SessionInv, TokenInv, ChancesInv
<1> QED BY <1>1, SessionInvariant, PTL

\* The requests of one page never throw each other out of the session they share:
\* the module variable `refreshing' of lib/api.ts does what it is for, whatever
\* the number of pages and requests.
THEOREM NobodyIsThrownOut == SessionSpec => []ThrownOutForCause
<1>1. SessionInv => ThrownOutForCause
  BY DEF SessionInv, TokenInv
<1> QED BY <1>1, SessionInvariant, PTL

\* Where no sign-in or sign-out crossed a refresh, localStorage holds tokens of
\* the login its user made last.
THEOREM StoredTokensAreCurrent == SessionSpec => []StoredIsCurrent
<1>1. SessionInv => StoredIsCurrent
  BY DEF SessionInv, TokenInv, CurrentInv
<1> QED BY <1>1, SessionInvariant, PTL

\* A passkey login that was not overtaken gets past a row that is still enrolled
\* only with a counter above those of all committed logins of the user
\* (passkey_authenticate_complete), for any number of concurrent logins.
THEOREM KeysAreCurrent == SessionSpec => KeyIsCurrent
<1> DEFINE Current(l) ==
      logins[l].at = "verified" /\ logins'[l].at = "keyed" /\ logins[l].sign > 0 =>
            /\ keys[logins[l].user].state = "enrolled"
            /\ \/ logins[l].raced
               \/ \E k \in Logins : logins[k].user = logins[l].user /\ Overtaken(k)
               \/ \A k \in Logins \ {l} :
                    /\ logins[k].user = logins[l].user
                    /\ logins[k].at \in {"keyed", "answered", "done"}
                    => logins[l].sign > logins[k].sign
<1>1. SessionInv /\ [SessionNext]_allVars => \A l \in Logins : Current(l)
  <2> SUFFICES ASSUME SessionInv, [SessionNext]_allVars, NEW l \in Logins,
                      logins[l].at = "verified", logins'[l].at = "keyed", logins[l].sign > 0
               PROVE  Current(l)
    OBVIOUS
  <2> DEFINE w == logins[l].user
  <2>1. /\ logins \in [Logins -> Login] /\ logins[l] \in Login /\ keys \in [Users -> KeyRow]
        /\ w \in Users
    BY DEF SessionInv, TokenInv, SessionTypeOK, FlowsInv
  <2>2. logins[l].sign > logins[l].seen /\ keys[w].state # "new"
    BY DEF SessionInv, KeyInv
  <2>3. KeyCommit(l)
    BY <2>1, OnlyCommits DEF SessionInv, TokenInv
  <2>4. keys[w].state = "enrolled"
    <3>1. keys[w].state # "deleted"
      <4>1. SUFFICES ASSUME keys[w].state = "deleted" PROVE FALSE
        OBVIOUS
      <4>2. logins' = [logins EXCEPT ![l] = [logins[l] EXCEPT !.at = "refused"]]
        BY <2>1, <2>2, <2>3, <4>1 DEF KeyCommit, At, Login
      <4>3. [logins[l] EXCEPT !.at = "refused"].at = "refused"
        BY <2>1 DEF Login
      <4>4. logins'[l].at = "refused"
        BY <2>1, <4>2, <4>3
      <4> QED BY <4>4
    <3> QED BY <2>1, <2>2, <3>1 DEF KeyRow
  <2>5. ASSUME ~logins[l].raced, ~\E k \in Logins : logins[k].user = w /\ Overtaken(k),
               NEW k \in Logins \ {l}, logins[k].user = w, logins[k].at \in {"keyed", "answered", "done"}
        PROVE  logins[l].sign > logins[k].sign
    <3>1. logins[k].sign <= keys[w].count
      BY <2>5 DEF SessionInv, KeyInv
    <3>2. logins[l].seen = keys[w].count
      BY <2>5 DEF SessionInv, KeyInv
    <3>3. logins[k].sign \in Nat /\ logins[l].sign \in Nat /\ keys[w].count \in Nat
      BY <2>1 DEF Login, KeyRow
    <3> QED BY <2>2, <3>1, <3>2, <3>3
  <2> QED BY <2>4, <2>5
<1> QED BY <1>1, SessionInvariant, PTL DEF SessionSpec, KeyIsCurrent
===============================================================================
