------------------------------ MODULE GateAccess ------------------------------
(***************************************************************************)
(* Who may do what: the accounts of GateAccounts and the apps of GateApps, *)
(* the role a signed-in user's access token carries, and the two places    *)
(* that decide about an app: _can_manage and _check_ownership in the API,  *)
(* which read the account, and verify_session (routers/auth.py), which     *)
(* nginx asks before it lets a request through to a deployed app, and      *)
(* which goes by the token's role first.                                   *)
(***************************************************************************)
EXTENDS GateAccounts, GateApps

CONSTANTS
    Matches,  \* [Names -> SUBSET Names]: the names whose container names match
              \* the pattern gka-<name>-%
    Out       \* the role of a user who is not signed in

ASSUME AccessAssumption ==
    /\ Matches \in [Names -> SUBSET Names]
    /\ \A n \in Names : n \in Matches[n]
    /\ Out \notin Roles

VARIABLES
    badge,    \* the role in a user's access token
    served    \* apps with status deployed and a container name

accessVars == <<badge, served>>
allAccessVars == <<accountVars, appVars, accessVars>>

SignedIn(u) == badge[u] # Out /\ users[u].here /\ users[u].active

\* _can_manage and _check_ownership
CanManage(u, a) == SignedIn(u) /\ (Admin(u) \/ rows[a].owner = u)

-----------------------------------------------------------------------------
(* verify_session *)

\* The app that is looked up for the name in the address: any deployed one that
\* matches, or none.
LookedUp(n) == {a \in served : rows[a].name \in Matches[n]}

OnList(u, a) ==
    rows[a].owner = u \/ u \in rows[a].allowed \/ users[u].groups \cap rows[a].allowed # {}

\* Passes: some outcome of the look-up lets the user through.  An unknown app
\* is let through; whether the account is still active is not asked.
Passes(u, n) ==
    /\ badge[u] # Out
    /\ \/ badge[u] \in {"admin", "approver"}
       \/ LookedUp(n) = {}
       \/ \E a \in LookedUp(n) : OnList(u, a)

-----------------------------------------------------------------------------
(* Actions *)

\* A login or a refresh: the token has the role of the moment, until it expires.
\* (The cookie nginx reads is set by /auth/login alone; that the other ways in give
\* one here too adds behaviours.)
SignInAs(u) ==
    /\ users[u].here /\ users[u].active /\ badge[u] # users[u].role
    /\ badge' = [badge EXCEPT ![u] = users[u].role]
    /\ UNCHANGED <<accountVars, appVars, served>>

SignOutOf(u) ==
    /\ badge[u] # Out
    /\ badge' = [badge EXCEPT ![u] = Out]
    /\ UNCHANGED <<accountVars, appVars, served>>

\* Requests about an app, by a user who may make them.
AppRequest(c) ==
    /\ \/ \E u \in Emails, a \in Apps, n \in Names : SignedIn(u) /\ CreateRead(c, a, u, n)
       \/ \E u \in Emails, a \in Apps :
            /\ CanManage(u, a)
            /\ \/ DeleteRead(c, a) \/ SetRead(c, a) \/ UnsetRead(c, a)
               \/ \E m \in Emails \cup Groups :
                    \/ (m \in Emails => users[m].here) /\ GrantRead(c, a, m)
                    \/ RemoveRead(c, a, m)
    /\ UNCHANGED <<accountVars, accessVars>>

\* The deploy task and stop_deployment.
Serve(a) ==
    /\ Here(a) /\ a \in kept
    /\ served' = IF a \in served THEN served \ {a} ELSE served \cup {a}
    /\ UNCHANGED <<accountVars, appVars, badge>>

AccessInit ==
    /\ AccountsInit /\ AppsInit
    /\ badge = [u \in Emails |-> Out]
    /\ served = {}

AccessNext ==
    \/ AccountStep /\ UNCHANGED <<appVars, accessVars>>
    \/ \E c \in Clerks :
         \/ AppRequest(c)
         \/ AppStep(c) /\ UNCHANGED <<accountVars, accessVars>>
    \/ \E a \in Apps : Scanned(a) /\ UNCHANGED <<accountVars, accessVars>>
    \/ \E a \in Apps : Serve(a)
    \/ \E u \in Emails : SignInAs(u) \/ SignOutOf(u)

AccessSpec == AccessInit /\ [][AccessNext]_allAccessVars

-----------------------------------------------------------------------------
(* Properties *)

\* Types, and what foreign keys keep: scans, deployments and secrets refer to apps
\* that are there.
AccessTypeOK ==
    /\ \A a \in Apps : a \in kept \/ secrets[a] # {} => Here(a)
    /\ served \subseteq kept
    /\ users \in [Emails -> UserRow]
    /\ config \in Configs \cup {NoConfig}
    /\ env \in Emails \cup {NoEmail}
    /\ desks \in [Desks -> Desk]
    /\ deaths \in 0..MaxDeaths
    /\ crossed \in BOOLEAN /\ demoted \in BOOLEAN /\ setups \subseteq Emails
    /\ rows \in [Apps -> AppRow]
    /\ repos \subseteq Apps /\ kept \subseteq Apps
    /\ secrets \in [Apps -> SUBSET SecretRow]
    /\ clerks \in [Clerks -> Clerk]
    /\ losses \in 0..MaxLosses
    /\ intended \in [Apps -> SUBSET (Emails \cup Groups)]
    /\ wrote \in [Apps -> Clerks \cup {NoClerk}]
    /\ contested \subseteq Apps
    /\ badge \in [Emails -> Roles \cup {Out}]

\* nginx lets a signed-in user through to a deployed app exactly when the token
\* says admin or approver, the user owns the app, or the grants and removals
\* that were answered leave the user or a group of the user's on its list: no
\* interleaving loses or revives one, unless two requests changed the app's list
\* at the same time, or the app's name does not single it out.
AccessFollowsGrants ==
    \A u \in Emails, a \in served :
        badge[u] # Out /\ LookedUp(rows[a].name) = {a} /\ a \notin contested =>
            (Passes(u, rows[a].name) <=>
                \/ badge[u] \in {"admin", "approver"}
                \/ u = rows[a].owner \/ u \in intended[a]
                \/ users[u].groups \cap intended[a] # {})
===============================================================================
