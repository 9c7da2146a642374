---------------------------- MODULE MCGateSession -----------------------------
(* One browser with two pages.  A pair of tokens is a pair of tokens however  *)
(* it was obtained, so behaviours are kept to one concern: how two logins of  *)
(* any kind, passkeys and redirects included, get to the browser, how three   *)
(* passkey logins go that run into each other, or how requests fare after     *)
(* password logins, two of them or one and a failure.                         *)
EXTENDS GateSession

CONSTANTS u1, b1, p1, p2, r1, r2, l1, l2, l3

OneBrowser == [p \in {p1, p2} |-> b1]

OnlySignIns == expired = {} /\ \A r \in Requests : requests[r].at = "idle"

OnlyPasswords ==
    /\ \A l \in Logins : logins[l].at \in {"idle", "answered", "done"}
    /\ \A u \in Users : keys[u].state = "new" /\ ~enrolling[u]
    /\ upsets = 0 \/ logins[l2].at = "idle"

OnlyPasskeys ==
    /\ OnlySignIns /\ shown = {} /\ upsets = 0
    /\ \A l \in Logins : logins[l].at \notin {"sso", "answered"}

OneConcern ==
    \/ OnlyPasskeys
    \/ logins[l3].at = "idle" /\ (OnlySignIns \/ OnlyPasswords)

\* Logins, requests and pages are alike: l1 and r1 are the first of their kind,
\* and the first sign-in is on p1.
Ordered ==
    /\ logins[l2].at # "idle" => logins[l1].at # "idle"
    /\ logins[l3].at # "idle" => logins[l2].at # "idle"
    /\ requests[r2].at # "idle" => requests[r1].at # "idle"

FirstOnP1 ==
    (\A n \in Pairs : received[n] = 0) /\ received' # received => p1 \in shown'

MCSessionSpec ==
    /\ SessionInit
    /\ [][SessionNext /\ OneConcern' /\ Ordered' /\ FirstOnP1]_allVars
    /\ SessionFair
===============================================================================
