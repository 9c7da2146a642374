----------------------------- MODULE GateAccounts -----------------------------
(***************************************************************************)
(* The users table: the setup wizard (routers/setup.py), user              *)
(* administration (routers/admin.py), and the accounts single sign-on      *)
(* finds, links or creates (_provision_user in routers/sso.py).            *)
(*                                                                         *)
(* Every handler reads first and writes later, in one transaction that     *)
(* get_db commits after the handler, or the handler itself; two API        *)
(* processes serve the requests.  E-mail addresses are unique in the table,*)
(* so a row is named by its address; the subject the identity provider     *)
(* knows a user by is not unique there.                                    *)
(***************************************************************************)
EXTENDS GatePeople, Naturals, FiniteSets

CONSTANTS
    Subjects,    \* accounts of the identity provider
    NoSubject,
    Configs,     \* single sign-on configurations an administrator may save
    NoConfig,    \* single sign-on is not configured, or disabled
    Desks,       \* requests that change accounts, each used once
    MaxDeaths    \* bound on handlers that die before the commit

Roles == {"ic", "approver", "admin"}

ASSUME AccountsAssumption ==
    /\ NoSubject \notin Subjects /\ NoConfig \notin Configs
    /\ Configs \subseteq [map: [Groups -> Roles], default: Roles]
    /\ MaxDeaths \in Nat

VARIABLES
    users,       \* the table, by address
    config,      \* sso_configuration
    env,         \* the address whose setup request wrote the .env file last
    desks,       \* the requests
    deaths,      \* handlers that died so far
    crossed,     \* history: a request committed over a row that another had
                 \* committed since it was read
    demoted,     \* history: the identity provider's groups took admin from the
                 \* last active administrator
    setups       \* history: the addresses whose setup request committed

accountVars == <<users, config, env, desks, deaths, crossed, demoted, setups>>

UserRow == [here: BOOLEAN, role: Roles, password: BOOLEAN, active: BOOLEAN,
            subject: Subjects \cup {NoSubject}, groups: SUBSET Groups]
NoRow == [here |-> FALSE, role |-> "ic", password |-> FALSE, active |-> FALSE,
          subject |-> NoSubject, groups |-> {}]

\* A request: `seen' is the row it read under `email', `raced' says that some
\* other request has committed since.
Desk == [at: {"idle", "setup", "flushed", "admin", "link", "join", "done", "refused"},
         email: Emails \cup {NoEmail}, seen: UserRow,
         subject: Subjects \cup {NoSubject}, groups: SUBSET Groups,
         role: Roles, raced: BOOLEAN]

IdleDesk == [at |-> "idle", email |-> NoEmail, seen |-> NoRow, subject |-> NoSubject,
             groups |-> {}, role |-> "ic", raced |-> FALSE]

Admin(e) == users[e].here /\ users[e].role = "admin"

-----------------------------------------------------------------------------
(* Helpers *)

Priority(role) == CASE role = "admin" -> 3 [] role = "approver" -> 2 [] role = "ic" -> 1

\* map_groups_to_role: the highest of the default and the groups' roles.
MapGroupsToRole(gs, c) ==
    CHOOSE role \in {c.default} \cup {c.map[g] : g \in gs} :
        \A other \in {c.default} \cup {c.map[g] : g \in gs} :
            Priority(role) >= Priority(other)

\* An attribute set to the value it was read with is not in the UPDATE.
Set(now, seen, new) == IF new = seen THEN now ELSE new

InProgress(d) == desks[d].at \in {"setup", "flushed", "admin", "link", "join"}

Begin(d, phase, e, row) ==
    desks' = [desks EXCEPT ![d] = [@ EXCEPT !.at = phase, !.email = e, !.seen = row]]

Refuse(d) == desks' = [desks EXCEPT ![d].at = "refused"]

\* The transaction of d commits, with row in the place of users[e].
Commit(d, e, row) ==
    /\ users' = [users EXCEPT ![e] = row]
    /\ desks' = [o \in Desks |->
         IF o = d THEN [desks[o] EXCEPT !.at = "done"]
         ELSE IF InProgress(o) THEN [desks[o] EXCEPT !.raced = TRUE]
         ELSE desks[o]]
    /\ crossed' = (crossed \/ desks[d].raced)

-----------------------------------------------------------------------------
(* Setup *)

\* setup_complete is for a system without an admin.
\* (mutant) It does not ask.
SetupReadAnytime(d, e) ==
    /\ desks[d].at = "idle"
    /\ Begin(d, "setup", e, users[e])
    /\ UNCHANGED <<users, config, env, deaths, crossed, demoted, setups>>

SetupRead(d, e) ==
    /\ desks[d].at = "idle"
    /\ IF \E a \in Emails : Admin(a) THEN Refuse(d) ELSE Begin(d, "setup", e, users[e])
    /\ UNCHANGED <<users, config, env, deaths, crossed, demoted, setups>>

\* flush sends the INSERT, which waits for a transaction that inserts the same
\* address; the .env file is rewritten at once.
SetupFlush(d) ==
    LET e == desks[d].email IN
    /\ desks[d].at = "setup"
    /\ \A o \in Desks : ~(desks[o].at = "flushed" /\ desks[o].email = e)
    /\ IF users[e].here
       THEN Refuse(d) /\ UNCHANGED env
       ELSE desks' = [desks EXCEPT ![d].at = "flushed"] /\ env' = e
    /\ UNCHANGED <<users, config, deaths, crossed, demoted, setups>>

SetupCommit(d) ==
    LET e == desks[d].email IN
    /\ desks[d].at = "flushed" /\ ~users[e].here
    /\ Commit(d, e, [NoRow EXCEPT !.here = TRUE, !.role = "admin",
                                  !.password = TRUE, !.active = TRUE])
    /\ setups' = setups \cup {e}
    /\ UNCHANGED <<config, env, deaths, demoted>>

-----------------------------------------------------------------------------
(* Administration *)

\* require_admin, and the read of the account: create_user wants none, and
\* update_user one that is not the administrator's own.
\* (mutant) Administrators may change their own account.
AdminReadOwn(d, a, e) ==
    /\ desks[d].at = "idle"
    /\ Admin(a) /\ users[a].active
    /\ Begin(d, "admin", e, users[e])
    /\ UNCHANGED <<users, config, env, deaths, crossed, demoted, setups>>

AdminRead(d, a, e) ==
    /\ desks[d].at = "idle"
    /\ Admin(a) /\ users[a].active /\ e # a
    /\ Begin(d, "admin", e, users[e])
    /\ UNCHANGED <<users, config, env, deaths, crossed, demoted, setups>>

\* create_user: the unique address refuses a row that has come meanwhile.
CreateUser(d, role, password) ==
    LET e == desks[d].email IN
    /\ desks[d].at = "admin" /\ ~desks[d].seen.here
    /\ \A o \in Desks : ~(desks[o].at = "flushed" /\ desks[o].email = e)
    /\ IF users[e].here
       THEN Refuse(d) /\ UNCHANGED <<users, crossed>>
       ELSE Commit(d, e, [NoRow EXCEPT !.here = TRUE, !.role = role,
                                       !.password = password, !.active = TRUE])
    /\ UNCHANGED <<config, env, deaths, demoted, setups>>

\* update_user
UpdateUser(d, role, active) ==
    LET e == desks[d].email
        seen == desks[d].seen IN
    /\ desks[d].at = "admin" /\ seen.here
    /\ Commit(d, e, [users[e] EXCEPT !.role = Set(@, seen.role, role),
                                     !.active = Set(@, seen.active, active)])
    /\ UNCHANGED <<config, env, deaths, demoted, setups>>

\* create_sso_config, update_sso_config and delete_sso_config.
SaveConfig(a, c) ==
    /\ Admin(a) /\ users[a].active /\ c # config
    /\ config' = c
    /\ UNCHANGED <<users, env, desks, deaths, crossed, demoted, setups>>

-----------------------------------------------------------------------------
(* Single sign-on *)

\* _provision_user looks for the subject, then for the address the provider has
\* for it; two rows with the subject fail the call.
\* (mutant) It looks for the address first.
SsoLookupByEmail(s, e) ==
    IF users[e].here THEN {e} ELSE {f \in Emails : users[f].here /\ users[f].subject = s}

SsoLookup(s, e) ==
    LET known == {f \in Emails : users[f].here /\ users[f].subject = s} IN
    IF known = {} /\ users[e].here THEN {e} ELSE known

SsoRead(d, s, e, gs) ==
    LET found == SsoLookup(s, e) IN
    /\ desks[d].at = "idle" /\ config # NoConfig
    /\ IF \E f, g \in found : f # g
       THEN Refuse(d)
       ELSE \E f \in (IF found = {} THEN {e} ELSE found) :
              desks' = [desks EXCEPT ![d] = [@ EXCEPT
                !.at = IF found = {} THEN "join" ELSE "link",
                !.email = f, !.seen = users[f], !.subject = s, !.groups = gs,
                !.role = MapGroupsToRole(gs, config)]]
    /\ UNCHANGED <<users, config, env, deaths, crossed, demoted, setups>>

\* A known account: its groups follow the provider, and so does its role unless
\* it has a password ("Admin lockout guard").
SsoLink(d) ==
    LET e == desks[d].email
        seen == desks[d].seen
        role == IF seen.password THEN users[e].role
                ELSE Set(users[e].role, seen.role, desks[d].role) IN
    /\ desks[d].at = "link"
    /\ Commit(d, e, [users[e] EXCEPT !.subject = Set(@, seen.subject, desks[d].subject),
                                     !.groups = Set(@, seen.groups, desks[d].groups),
                                     !.role = role])
    /\ demoted' = (demoted \/ (Admin(e) /\ role # "admin"
                               /\ ~\E a \in Emails \ {e} : Admin(a) /\ users[a].active))
    /\ UNCHANGED <<config, env, deaths, setups>>

\* A new account.  A row that has come meanwhile is a collision, which the
\* handler takes for one of usernames: the second INSERT fails like the first.
SsoJoin(d) ==
    LET e == desks[d].email IN
    /\ desks[d].at = "join"
    /\ \A o \in Desks : ~(desks[o].at = "flushed" /\ desks[o].email = e)
    /\ IF users[e].here
       THEN Refuse(d) /\ UNCHANGED <<users, crossed>>
       ELSE Commit(d, e, [NoRow EXCEPT !.here = TRUE, !.role = desks[d].role,
                            !.active = TRUE, !.subject = desks[d].subject,
                            !.groups = desks[d].groups])
    /\ UNCHANGED <<config, env, deaths, demoted, setups>>

\* The handler dies, and get_db or the database rolls back.
DeskDies(d) ==
    /\ InProgress(d) /\ deaths < MaxDeaths
    /\ deaths' = deaths + 1
    /\ Refuse(d)
    /\ UNCHANGED <<users, config, env, crossed, demoted, setups>>

-----------------------------------------------------------------------------

AccountsInit ==
    /\ users = [e \in Emails |-> NoRow]
    /\ config = NoConfig
    /\ env = NoEmail
    /\ desks = [d \in Desks |-> IdleDesk]
    /\ deaths = 0
    /\ crossed = FALSE /\ demoted = FALSE
    /\ setups = {}

AccountStep ==
    \/ \E d \in Desks :
         \/ \E e \in Emails : SetupRead(d, e)
         \/ \E a, e \in Emails : AdminRead(d, a, e)
         \/ \E s \in Subjects, e \in Emails, gs \in SUBSET Groups : SsoRead(d, s, e, gs)
         \/ \E role \in Roles, b \in BOOLEAN : CreateUser(d, role, b) \/ UpdateUser(d, role, b)
         \/ SetupFlush(d) \/ SetupCommit(d) \/ SsoLink(d) \/ SsoJoin(d) \/ DeskDies(d)
    \/ \E a \in Emails, c \in Configs \cup {NoConfig} : SaveConfig(a, c)

-----------------------------------------------------------------------------
(* Properties *)

\* Once it is set up the system keeps an active administrator, so that the setup
\* wizard stays closed: administrators can lock each other out, and not
\* themselves, one request at a time.  Two requests that cross, or groups that
\* take the role from the last of them, are the exceptions.
AnAdminRemains ==
    setups # {} => crossed \/ demoted \/ \E e \in Emails : Admin(e) /\ users[e].active

\* The wizard succeeds once, and the .env file holds the settings of the request
\* that did, when no setup is under way, none died and none crossed another.
SetupOnce ==
    \/ crossed \/ demoted \/ deaths > 0
    \/ \E d \in Desks : desks[d].at \in {"setup", "flushed"}
    \/ Cardinality(setups) <= 1 /\ (setups # {} => env \in setups)

\* Logins that did not cross leave at most one account per subject, whatever
\* addresses the provider had for it: another login of the subject would fail.
OneAccountPerSubject ==
    crossed \/ \A e, f \in Emails :
        users[e].subject = users[f].subject /\ users[e].subject # NoSubject => e = f
===============================================================================
