--------------------------- MODULE GateAccessProofs ---------------------------
(***************************************************************************)
(* What GateAccess guarantees for any number of users, groups, apps and    *)
(* requests.  The accounts and the apps change apart from each other, so   *)
(* each has an inductive invariant of its own.                             *)
(***************************************************************************)
EXTENDS GateAccess, FiniteSetTheorems, TLAPS

-----------------------------------------------------------------------------
(* The inductive invariant: accounts *)

\* A request is about an address, and an account that was there still is.
Finds(q) ==
    /\ q.email \in Emails
    /\ q.at = "link" => q.seen.here
    /\ q.seen.here => users[q.email].here

AccountTypes ==
    /\ users \in [Emails -> UserRow]
    /\ config \in Configs \cup {NoConfig}
    /\ env \in Emails \cup {NoEmail}
    /\ desks \in [Desks -> Desk]
    /\ deaths \in 0..MaxDeaths
    /\ crossed \in BOOLEAN /\ demoted \in BOOLEAN /\ setups \subseteq Emails
    /\ \A d \in Desks : InProgress(d) => Finds(desks[d])

Administers(a) == Admin(a) /\ users[a].active

Knows(f, s) == users[f].here /\ users[f].subject = s

\* What a request read is still true until another one commits: there is an
\* administrator besides the account it changes, and no account but the one it
\* links has its subject.
ReadIsTrue(q) ==
    ~q.raced =>
        /\ q.at = "admin" => \E a \in Emails \ {q.email} : Administers(a)
        /\ q.at = "link" => \A f \in Emails : Knows(f, q.subject) => f = q.email
        /\ q.at = "join" => \A f \in Emails : ~Knows(f, q.subject)

ReadsAreTrue == \A d \in Desks : InProgress(d) => ReadIsTrue(desks[d])

\* A request that would set the system up again is crossed by the one that did,
\* and .env names an address that was set up, or the last one that flushed.
SetupInv ==
    /\ setups # {} \/ (\E d \in Desks : desks[d].at = "flushed") => env # NoEmail
    /\ crossed \/ demoted \/
         /\ \A d \in Desks : desks[d].at \in {"setup", "flushed"} /\ setups # {} => desks[d].raced
         /\ \A e, f \in setups : e = f
         /\ \/ deaths > 0 \/ env = NoEmail \/ env \in setups
            \/ \E d \in Desks : desks[d].at = "flushed" /\ desks[d].email = env

AccountInv ==
    /\ AccountTypes
    /\ \A e \in Emails : ~users[e].here => users[e].subject = NoSubject
    /\ ReadsAreTrue
    /\ AnAdminRemains /\ OneAccountPerSubject
    /\ SetupInv

-----------------------------------------------------------------------------
(* The inductive invariant: apps *)

AppTypes ==
    /\ rows \in [Apps -> AppRow]
    /\ repos \subseteq Apps /\ kept \subseteq Apps
    /\ secrets \in [Apps -> SUBSET SecretRow]
    /\ clerks \in [Clerks -> Clerk]
    /\ losses \in 0..MaxLosses
    /\ intended \in [Apps -> SUBSET (Emails \cup Groups)]
    /\ wrote \in [Apps -> Clerks \cup {NoClerk}]
    /\ contested \subseteq Apps
    /\ \A a \in Apps : a \in kept \/ secrets[a] # {} => Here(a)
    /\ \A c \in Clerks :
         /\ IF clerks[c].at = "idle" THEN clerks[c].app = NoApp ELSE clerks[c].app \in Apps
         /\ clerks[c].at \in {"grant", "remove"} => clerks[c].member \in Emails \cup Groups

Strange(a) == \A c \in Clerks : clerks[c].app # a

\* An app that is being created has a repository and no other request about it,
\* one that is being deleted has none.
HalvesInv ==
    /\ \A a \in Apps : ~Here(a) /\ Strange(a) => intended[a] = {}
    /\ \A c \in Clerks :
         /\ clerks[c].at = "create" =>
              /\ ~Here(clerks[c].app) /\ clerks[c].app \in repos
              /\ intended[clerks[c].app] = {}
              /\ \A k \in Clerks \ {c} : clerks[k].app # clerks[c].app
         /\ clerks[c].at = "delete" => clerks[c].app \notin repos

\* A secret has one row, with the value of the last request, or none.
OneSecret(a) ==
    \/ secrets[a] = {} /\ wrote[a] = NoClerk
    \/ wrote[a] \in Clerks /\ \E i \in Clerks : secrets[a] = {[id |-> i, value |-> wrote[a]]}

\* An array that no two requests wrote at once is what the requests make of it,
\* and a request that nobody raced has read what is still there.
ListsInv ==
    /\ \A a \in Apps \ contested : Here(a) => rows[a].allowed = intended[a]
    /\ \A c \in Clerks : clerks[c].at \in {"grant", "remove"} /\ ~clerks[c].raced =>
         \A m \in Column(clerks[c].member) :
             m \in clerks[c].seen <=> m \in rows[clerks[c].app].allowed

AppInv ==
    /\ AppTypes
    /\ HalvesInv /\ ReposMatchRows
    /\ \A a \in Apps : OneSecret(a)
    /\ ListsInv

AccessInv ==
    /\ AccountInv /\ AppInv
    /\ badge \in [Emails -> Roles \cup {Out}]
    /\ served \subseteq kept

-----------------------------------------------------------------------------
(* Accounts *)

\* The role a user's groups map to is one of the roles: the highest priority is
\* the priority of some role.
LEMMA MappedRole ==
    ASSUME NEW gs \in SUBSET Groups, NEW c \in Configs
    PROVE  MapGroupsToRole(gs, c) \in Roles
<1> DEFINE S == {c.default} \cup {c.map[g] : g \in gs}
<1>1. S \subseteq Roles /\ S # {}
  BY AccountsAssumption
<1>2. \E role \in S : \A other \in S : Priority(role) >= Priority(other)
  <2> HIDE DEF S
  <2>1. Priority("admin") = 3 /\ Priority("approver") = 2 /\ Priority("ic") = 1
    BY DEF Priority
  <2>2. CASE "admin" \in S
    BY <2>2, <2>1, <1>1 DEF Roles
  <2>3. CASE "admin" \notin S /\ "approver" \in S
    BY <2>3, <2>1, <1>1 DEF Roles
  <2>4. CASE "admin" \notin S /\ "approver" \notin S
    <3>1. \A role \in S : role = "ic"
      BY <2>4, <1>1 DEF Roles
    <3> QED BY <3>1, <2>1, <1>1
  <2> QED BY <2>2, <2>3, <2>4
<1>3. MapGroupsToRole(gs, c) \in S
  BY <1>2 DEF MapGroupsToRole
<1> QED BY <1>1, <1>3

LEMMA EmptyRow == NoRow \in UserRow /\ NoRow.here = FALSE /\ NoRow.subject = NoSubject
BY DEF NoRow, UserRow, Roles

LEMMA AccountInitial == AccountsInit => AccountInv
<1> SUFFICES ASSUME AccountsInit PROVE AccountInv
  OBVIOUS
<1> USE DEF AccountsInit
<1>1. \A d \in Desks : desks[d] = IdleDesk /\ desks[d].at = "idle"
  BY DEF IdleDesk
<1>2. \A e \in Emails : users[e] = NoRow
  OBVIOUS
<1>3. AccountTypes
  <2>1. users \in [Emails -> UserRow]
    BY EmptyRow
  <2>2. IdleDesk \in Desk
    BY EmptyRow DEF IdleDesk, Desk, Roles
  <2>3. desks \in [Desks -> Desk]
    BY <2>2
  <2>4. deaths \in 0..MaxDeaths
    BY AccountsAssumption
  <2>5. \A d \in Desks : ~InProgress(d)
    BY <1>1 DEF InProgress
  <2> QED BY <2>1, <2>3, <2>4, <2>5 DEF AccountTypes
<1>4. ReadsAreTrue
  BY <1>1 DEF ReadsAreTrue, InProgress
<1>5. SetupInv
  BY <1>1 DEF SetupInv
<1> QED
  BY <1>2, <1>3, <1>4, <1>5, EmptyRow DEF AccountInv, AnAdminRemains, OneAccountPerSubject

\* The commit of a request keeps the invariant when it leaves an administrator
\* and gives the account no other account's subject, unless another request has
\* committed since it read: whoever else is under way has been crossed.
LEMMA CommitKeeps ==
    ASSUME AccountInv, NEW d \in Desks, InProgress(d),
           NEW row \in UserRow, row.here,
           Commit(d, desks[d].email, row), UNCHANGED <<config, env, deaths>>,
           demoted' \in BOOLEAN, demoted => demoted',
           setups' = IF desks[d].at = "flushed" THEN setups \cup {desks[d].email} ELSE setups,
           \/ crossed \/ desks[d].raced \/ demoted'
           \/ row.role = "admin" /\ row.active
           \/ desks[d].at # "flushed" /\ setups = {}
           \/ \E a \in Emails \ {desks[d].email} : Administers(a),
           \/ desks[d].raced \/ row.subject = NoSubject
           \/ row.subject = users[desks[d].email].subject
           \/ \A f \in Emails \ {desks[d].email} : users[f].subject # row.subject
    PROVE  AccountInv'
<1> DEFINE e == desks[d].email
<1>1. /\ users \in [Emails -> UserRow] /\ desks \in [Desks -> Desk]
      /\ crossed \in BOOLEAN /\ demoted \in BOOLEAN /\ setups \subseteq Emails
      /\ deaths \in 0..MaxDeaths /\ e \in Emails
  BY DEF AccountInv, AccountTypes, Finds
<1>2. /\ users' \in [Emails -> UserRow] /\ users'[e] = row
      /\ \A f \in Emails \ {e} : users'[f] = users[f]
  BY <1>1 DEF Commit
<1>3. crossed' = (crossed \/ desks[d].raced) /\ crossed' \in BOOLEAN
  BY <1>1 DEF Commit, Desk
<1>4. desks' \in [Desks -> Desk] /\ desks'[d].at = "done"
  <2>1. \A o \in Desks : desks[o] \in Desk
    BY <1>1
  <2>2. \A o \in Desks : [desks[o] EXCEPT !.at = "done"] \in Desk
                        /\ [desks[o] EXCEPT !.raced = TRUE] \in Desk
    BY <2>1 DEF Desk
  <2>3. desks' \in [Desks -> Desk]
    BY <2>1, <2>2 DEF Commit
  <2>4. desks'[d].at = "done"
    BY <2>1 DEF Commit, Desk
  <2> QED BY <2>3, <2>4
<1>5. ASSUME NEW o \in Desks, o # d
      PROVE  /\ desks'[o].at = desks[o].at /\ desks'[o].email = desks[o].email
             /\ desks'[o].seen = desks[o].seen
             /\ InProgress(o) => desks'[o].raced
  <2>1. desks[o] \in Desk
    BY <1>1
  <2>2. desks'[o] = IF InProgress(o) THEN [desks[o] EXCEPT !.raced = TRUE] ELSE desks[o]
    BY <1>5 DEF Commit
  <2> QED BY <2>1, <2>2 DEF Desk
<1>12. ASSUME NEW o \in Desks, InProgress(o)' PROVE o # d /\ InProgress(o) /\ desks'[o].raced
  <2>1. o # d
    BY <1>4, <1>12 DEF InProgress
  <2>2. desks'[o].at = desks[o].at
    BY <1>5, <2>1
  <2>3. InProgress(o)
    BY <2>2, <1>12 DEF InProgress
  <2> QED BY <2>1, <2>3, <1>5
<1>6. AccountTypes'
  <2>1. setups' \subseteq Emails
    BY <1>1
  <2>2. ASSUME NEW o \in Desks, InProgress(o)' PROVE Finds(desks[o])'
    <3>1. Finds(desks[o])
      BY <1>12, <2>2 DEF AccountInv, AccountTypes
    <3>2. users'[desks[o].email].here \/ ~users[desks[o].email].here
      BY <1>2, <3>1 DEF Finds
    <3> QED BY <1>5, <1>12, <2>2, <3>1, <3>2 DEF Finds
  <2> QED BY <1>2, <1>3, <1>4, <2>1, <2>2 DEF AccountInv, AccountTypes
<1>7. \A f \in Emails : ~users'[f].here => users'[f].subject = NoSubject
  BY <1>2 DEF AccountInv
<1>8. ReadsAreTrue'
  BY <1>12 DEF ReadsAreTrue, ReadIsTrue
<1>9. AnAdminRemains'
  <2> SUFFICES ASSUME setups' # {}, ~crossed', ~demoted'
               PROVE  \E a \in Emails : Admin(a)' /\ users'[a].active
    BY DEF AnAdminRemains
  <2>1. CASE row.role = "admin" /\ row.active
    BY <2>1, <1>1, <1>2 DEF Admin
  <2>2. CASE \E a \in Emails \ {e} : Administers(a)
    BY <2>2, <1>2 DEF Administers, Admin
  <2> QED BY <1>3, <2>1, <2>2
<1>10. OneAccountPerSubject'
  <2> SUFFICES ASSUME ~crossed', NEW f \in Emails, NEW g \in Emails,
                      users'[f].subject = users'[g].subject, users'[f].subject # NoSubject
               PROVE  f = g
    BY DEF OneAccountPerSubject
  <2>1. \A h, k \in Emails :
          users[h].subject = users[k].subject /\ users[h].subject # NoSubject => h = k
    BY <1>3 DEF AccountInv, OneAccountPerSubject
  <2>2. ASSUME NEW h \in Emails \ {e} PROVE users[h].subject # row.subject \/ row.subject = NoSubject
    <3>1. ~desks[d].raced
      BY <1>3
    <3> QED BY <3>1, <2>1, <1>1
  <2> QED BY <2>1, <2>2, <1>2
<1>11. SetupInv'
  <2>1. setups' # {} \/ (\E o \in Desks : desks'[o].at = "flushed") => env' # NoEmail
    <3>1. setups' # {} => setups # {} \/ desks[d].at = "flushed"
      OBVIOUS
    <3>2. \A o \in Desks : desks'[o].at = "flushed" => desks[o].at = "flushed"
      BY <1>4, <1>5
    <3> QED BY <3>1, <3>2 DEF AccountInv, SetupInv
  <2> SUFFICES ASSUME ~crossed', ~demoted'
               PROVE  /\ \A o \in Desks : desks'[o].at \in {"setup", "flushed"} => desks'[o].raced
                      /\ \A f, g \in setups' : f = g
                      /\ \/ deaths > 0 \/ env = NoEmail \/ env \in setups'
                         \/ \E o \in Desks : desks'[o].at = "flushed" /\ desks'[o].email = env
    BY <2>1 DEF SetupInv
  <2>2. \A o \in Desks : desks'[o].at \in {"setup", "flushed"} => desks'[o].raced
    BY <1>12 DEF InProgress
  <2>3. desks[d].at = "flushed" => setups = {}
    BY <1>3 DEF AccountInv, SetupInv
  <2>4. \A f, g \in setups' : f = g
    BY <2>3, <1>3 DEF AccountInv, SetupInv
  <2>5. ASSUME ~(deaths > 0), env # NoEmail, env \notin setups'
        PROVE  \E o \in Desks : desks'[o].at = "flushed" /\ desks'[o].email = env
    <3>1. PICK o \in Desks : desks[o].at = "flushed" /\ desks[o].email = env
      BY <2>5, <1>3 DEF AccountInv, SetupInv
    <3>2. o # d
      BY <3>1, <2>5
    <3> QED BY <3>1, <3>2, <1>5
  <2> QED BY <2>2, <2>4, <2>5
<1> QED BY <1>6, <1>7, <1>8, <1>9, <1>10, <1>11 DEF AccountInv

\* A step of one request that does not commit keeps the invariant when what it
\* read is true, and when it leaves a setup only by a death.
LEMMA DeskKeeps ==
    ASSUME AccountInv, NEW d \in Desks, NEW q \in Desk,
           desks' = [desks EXCEPT ![d] = q],
           UNCHANGED <<users, config, crossed, demoted, setups>>,
           deaths' \in 0..MaxDeaths, deaths' >= deaths,
           env' = IF q.at = "flushed" THEN q.email ELSE env,
           q.at \notin {"idle", "done", "refused"} => Finds(q) /\ ReadIsTrue(q),
           desks[d].at = "flushed" => deaths' > 0,
           q.at \in {"setup", "flushed"} /\ setups # {} => q.raced \/ crossed \/ demoted
    PROVE  AccountInv'
<1>1. /\ users \in [Emails -> UserRow] /\ desks \in [Desks -> Desk]
      /\ crossed \in BOOLEAN /\ demoted \in BOOLEAN /\ setups \subseteq Emails
      /\ deaths \in 0..MaxDeaths /\ env \in Emails \cup {NoEmail}
  BY DEF AccountInv, AccountTypes
<1>2. /\ desks' \in [Desks -> Desk] /\ desks'[d] = q
      /\ \A o \in Desks \ {d} : desks'[o] = desks[o]
  BY <1>1
<1>7. ASSUME NEW o \in Desks, InProgress(o)'
      PROVE  \/ o = d /\ Finds(q) /\ ReadIsTrue(q)
             \/ o # d /\ InProgress(o)
  BY <1>2, <1>7 DEF InProgress
<1>3. AccountTypes'
  <2>1. env' \in Emails \cup {NoEmail}
    BY <1>1 DEF Finds
  <2>2. ASSUME NEW o \in Desks, InProgress(o)' PROVE Finds(desks[o])'
    <3>1. Finds(desks'[o])
      BY <2>2, <1>2, <1>7 DEF AccountInv, AccountTypes
    <3> QED BY <3>1 DEF Finds
  <2> QED BY <2>1, <2>2, <1>2 DEF AccountInv, AccountTypes
<1>4. ReadsAreTrue'
  <2> SUFFICES ASSUME NEW o \in Desks, InProgress(o)' PROVE ReadIsTrue(desks[o])'
    BY DEF ReadsAreTrue
  <2>1. ReadIsTrue(desks'[o])
    BY <1>2, <1>7 DEF AccountInv, ReadsAreTrue
  <2> QED BY <2>1 DEF ReadIsTrue, Administers, Admin, Knows
<1>5. AnAdminRemains' /\ OneAccountPerSubject'
  BY DEF AccountInv, AnAdminRemains, OneAccountPerSubject, Admin
<1>6. SetupInv'
  <2>1. env # NoEmail => env' # NoEmail
    BY PeopleAssumption DEF Finds
  <2>2. setups # {} \/ (\E o \in Desks : desks'[o].at = "flushed") => env' # NoEmail
    <3>1. q.at = "flushed" => env' # NoEmail
      BY PeopleAssumption DEF Finds
    <3> QED BY <2>1, <3>1, <1>2 DEF AccountInv, SetupInv
  <2> SUFFICES ASSUME ~crossed, ~demoted
               PROVE  /\ \A o \in Desks : desks'[o].at \in {"setup", "flushed"} /\ setups # {}
                                          => desks'[o].raced
                      /\ \/ deaths' > 0 \/ env' = NoEmail \/ env' \in setups
                         \/ \E o \in Desks : desks'[o].at = "flushed" /\ desks'[o].email = env'
    BY <2>2 DEF AccountInv, SetupInv
  <2>3. \A o \in Desks : desks'[o].at \in {"setup", "flushed"} /\ setups # {} => desks'[o].raced
    <3> SUFFICES ASSUME NEW o \in Desks, desks'[o].at \in {"setup", "flushed"}, setups # {}
                 PROVE  desks'[o].raced
      OBVIOUS
    <3>1. CASE o = d
      BY <3>1, <1>2
    <3>2. CASE o # d
      BY <3>2, <1>2 DEF AccountInv, SetupInv
    <3> QED BY <3>1, <3>2
  <2>4. ASSUME ~(deaths' > 0), env' # NoEmail, env' \notin setups
        PROVE  \E o \in Desks : desks'[o].at = "flushed" /\ desks'[o].email = env'
    <3>1. CASE q.at = "flushed"
      BY <3>1, <1>2
    <3>2. CASE q.at # "flushed"
      <4>1. ~(deaths > 0)
        BY <2>4, <1>1, AccountsAssumption
      <4>2. PICK o \in Desks : desks[o].at = "flushed" /\ desks[o].email = env
        BY <4>1, <3>2, <2>4 DEF AccountInv, SetupInv
      <4>3. o # d
        BY <4>2, <2>4
      <4> QED BY <4>2, <4>3, <3>2, <1>2
    <3> QED BY <3>1, <3>2
  <2> QED BY <2>3, <2>4
<1> QED BY <1>3, <1>4, <1>5, <1>6 DEF AccountInv

LEMMA Refused ==
    ASSUME AccountInv, NEW d \in Desks, Refuse(d), UNCHANGED <<users, config, crossed, demoted, setups>>,
           UNCHANGED env, deaths' \in 0..MaxDeaths, deaths' >= deaths,
           desks[d].at = "flushed" => deaths' > 0
    PROVE  AccountInv'
<1> DEFINE q == [desks[d] EXCEPT !.at = "refused"]
<1>1. desks[d] \in Desk /\ desks \in [Desks -> Desk]
  BY DEF AccountInv, AccountTypes
<1>2. q \in Desk /\ q.at = "refused"
  BY <1>1 DEF Desk
<1>3. desks' = [desks EXCEPT ![d] = q]
  BY <1>1 DEF Refuse
<1> HIDE DEF q
<1> QED BY <1>2, <1>3, DeskKeeps

LEMMA AccountNext == AccountInv /\ AccountStep => AccountInv'
<1> SUFFICES ASSUME AccountInv, AccountStep PROVE AccountInv'
  OBVIOUS
<1>1. /\ users \in [Emails -> UserRow] /\ desks \in [Desks -> Desk]
      /\ crossed \in BOOLEAN /\ demoted \in BOOLEAN /\ setups \subseteq Emails
      /\ deaths \in 0..MaxDeaths /\ env \in Emails \cup {NoEmail}
      /\ config \in Configs \cup {NoConfig} /\ MaxDeaths \in Nat
  BY AccountsAssumption DEF AccountInv, AccountTypes
<1>2. \A d \in Desks : InProgress(d) => desks[d].email \in Emails /\ Finds(desks[d])
  BY DEF AccountInv, AccountTypes, Finds
<1>3. \A e \in Emails : ~users[e].here => users[e].subject = NoSubject
  BY DEF AccountInv
<1>4. deaths \in 0..MaxDeaths /\ deaths >= deaths
  BY <1>1
<1>5. ASSUME NEW d \in Desks, NEW e \in Emails, SetupRead(d, e) PROVE AccountInv'
  <2>1. CASE \E a \in Emails : Admin(a)
    <3>1. Refuse(d) /\ desks[d].at # "flushed"
      BY <1>5, <2>1 DEF SetupRead
    <3> QED BY <1>4, <1>5, <3>1, Refused DEF SetupRead
  <2>2. CASE ~\E a \in Emails : Admin(a)
    <3> DEFINE q == [desks[d] EXCEPT !.at = "setup", !.email = e, !.seen = users[e]]
    <3>1. q \in Desk /\ q.at = "setup" /\ q.email = e /\ q.seen = users[e]
      BY <1>1 DEF Desk
    <3>2. desks' = [desks EXCEPT ![d] = q] /\ desks[d].at # "flushed"
      BY <1>5, <2>2 DEF SetupRead, Begin
    <3>3. setups # {} => crossed \/ demoted
      BY <2>2 DEF AccountInv, AnAdminRemains
    <3>4. Finds(q) /\ ReadIsTrue(q)
      BY <3>1 DEF Finds, ReadIsTrue
    <3>5. UNCHANGED <<users, config, env, deaths, crossed, demoted, setups>>
      BY <1>5 DEF SetupRead
    <3> HIDE DEF q
    <3> QED BY <1>4, <3>1, <3>2, <3>3, <3>4, <3>5, DeskKeeps
  <2> QED BY <2>1, <2>2
<1>6. ASSUME NEW d \in Desks, NEW a \in Emails, NEW e \in Emails, AdminRead(d, a, e)
      PROVE  AccountInv'
  <2> DEFINE q == [desks[d] EXCEPT !.at = "admin", !.email = e, !.seen = users[e]]
  <2>1. q \in Desk /\ q.at = "admin" /\ q.email = e /\ q.seen = users[e]
    BY <1>1 DEF Desk
  <2>2. desks' = [desks EXCEPT ![d] = q] /\ desks[d].at # "flushed"
    BY <1>6 DEF AdminRead, Begin
  <2>3. a \in Emails \ {q.email} /\ Administers(a)
    BY <1>6, <2>1 DEF AdminRead, Administers
  <2>4. Finds(q) /\ ReadIsTrue(q)
    BY <2>1, <2>3 DEF Finds, ReadIsTrue
  <2>5. UNCHANGED <<users, config, env, deaths, crossed, demoted, setups>>
    BY <1>6 DEF AdminRead
  <2> HIDE DEF q
  <2> QED BY <1>4, <2>1, <2>2, <2>4, <2>5, DeskKeeps
<1>7. ASSUME NEW d \in Desks, NEW s \in Subjects, NEW e \in Emails, NEW gs \in SUBSET Groups,
             SsoRead(d, s, e, gs)
      PROVE  AccountInv'
  <2> DEFINE found == SsoLookup(s, e)
             known == {f \in Emails : users[f].here /\ users[f].subject = s}
  <2>1. desks[d].at # "flushed"
    BY <1>7 DEF SsoRead
  <2>2. CASE \E f, g \in found : f # g
    BY <1>4, <1>7, <2>1, <2>2, Refused DEF SsoRead
  <2>3. CASE ~\E f, g \in found : f # g
    <3>1. PICK f \in (IF found = {} THEN {e} ELSE found) :
            desks' = [desks EXCEPT ![d] = [desks[d] EXCEPT
                !.at = IF found = {} THEN "join" ELSE "link",
                !.email = f, !.seen = users[f], !.subject = s, !.groups = gs,
                !.role = MapGroupsToRole(gs, config)]]
      BY <1>7, <2>3 DEF SsoRead
    <3> DEFINE q == [desks[d] EXCEPT
                !.at = IF found = {} THEN "join" ELSE "link",
                !.email = f, !.seen = users[f], !.subject = s, !.groups = gs,
                !.role = MapGroupsToRole(gs, config)]
    <3>2. known \subseteq found /\ found \subseteq Emails
      BY DEF SsoLookup
    <3>3. f \in Emails
      BY <3>2
    <3>4. MapGroupsToRole(gs, config) \in Roles
      BY <1>1, <1>7, MappedRole DEF SsoRead
    <3>5. /\ q \in Desk /\ q.at = (IF found = {} THEN "join" ELSE "link")
          /\ q.email = f /\ q.subject = s /\ q.seen = users[f]
      BY <1>1, <3>3, <3>4 DEF Desk
    <3>6. q.at = "link" => \A g \in Emails : Knows(g, q.subject) => g = q.email
      BY <2>3, <3>2, <3>5 DEF Knows
    <3>7. q.at = "join" => \A g \in Emails : ~Knows(g, q.subject)
      BY <3>2, <3>5 DEF Knows
    <3>8. desks' = [desks EXCEPT ![d] = q]
      BY <3>1
    <3>9. q.at \notin {"flushed", "setup", "admin"} /\ q.email \in Emails
      BY <3>3, <3>5
    <3>10. q.at = "link" => q.seen.here
      <4>1. found = IF known = {} /\ users[e].here THEN {e} ELSE known
        BY DEF SsoLookup
      <4>2. found # {} => users[f].here
        BY <4>1
      <4> HIDE DEF q, found, known
      <4> QED BY <3>5, <4>2
    <3>11. Finds(q) /\ ReadIsTrue(q)
      <4> HIDE DEF q, found, known
      <4> QED BY <3>5, <3>6, <3>7, <3>9, <3>10 DEF Finds, ReadIsTrue
    <3>12. UNCHANGED <<users, config, env, deaths, crossed, demoted, setups>>
      BY <1>7 DEF SsoRead
    <3> HIDE DEF q, found, known
    <3> QED BY <1>4, <2>1, <3>5, <3>8, <3>9, <3>11, <3>12, DeskKeeps
  <2> HIDE DEF found, known
  <2> QED BY <2>2, <2>3
<1>8. ASSUME NEW d \in Desks, NEW role \in Roles, NEW b \in BOOLEAN, CreateUser(d, role, b)
      PROVE  AccountInv'
  <2> DEFINE e == desks[d].email
             row == [NoRow EXCEPT !.here = TRUE, !.role = role, !.password = b, !.active = TRUE]
  <2>1. InProgress(d) /\ desks[d].at # "flushed" /\ desks[d].at = "admin" /\ e \in Emails
    BY <1>2, <1>8 DEF CreateUser, InProgress
  <2>2. CASE users[e].here
    BY <1>4, <1>8, <2>1, <2>2, Refused DEF CreateUser
  <2>3. CASE ~users[e].here
    <3>1. row \in UserRow /\ row.here /\ row.subject = NoSubject
      BY EmptyRow DEF NoRow, UserRow
    <3>2. Commit(d, e, row)
      BY <1>8, <2>3 DEF CreateUser
    <3>3. desks[d].raced \/ \E a \in Emails \ {e} : Administers(a)
      BY <2>1 DEF AccountInv, ReadsAreTrue, ReadIsTrue
    <3> HIDE DEF row
    <3> QED BY <1>1, <1>8, <2>1, <3>1, <3>2, <3>3, CommitKeeps DEF CreateUser
  <2> QED BY <2>2, <2>3
<1>9. ASSUME NEW d \in Desks, NEW role \in Roles, NEW b \in BOOLEAN, UpdateUser(d, role, b)
      PROVE  AccountInv'
  <2> DEFINE e == desks[d].email
             seen == desks[d].seen
             row == [users[e] EXCEPT !.role = Set(users[e].role, seen.role, role),
                                     !.active = Set(users[e].active, seen.active, b)]
  <2>1. InProgress(d) /\ desks[d].at # "flushed" /\ desks[d].at = "admin" /\ e \in Emails
    BY <1>2, <1>9 DEF UpdateUser, InProgress
  <2>2. row \in UserRow /\ row.subject = users[e].subject /\ row.here
    <3>1. users[e].here
      BY <1>2, <1>9, <2>1 DEF UpdateUser, Finds
    <3>2. users[e] \in UserRow /\ seen \in UserRow
      BY <1>1, <2>1 DEF Desk
    <3> QED BY <3>1, <3>2 DEF UserRow, Set
  <2>3. Commit(d, e, row)
    BY <1>9 DEF UpdateUser
  <2>4. desks[d].raced \/ \E a \in Emails \ {e} : Administers(a)
    BY <2>1 DEF AccountInv, ReadsAreTrue, ReadIsTrue
  <2>5. UNCHANGED <<config, env, deaths, demoted, setups>>
    BY <1>9 DEF UpdateUser
  <2> HIDE DEF row
  <2> QED BY <1>1, <2>1, <2>2, <2>3, <2>4, <2>5, CommitKeeps
<1>10. ASSUME NEW d \in Desks, SetupFlush(d) PROVE AccountInv'
  <2> DEFINE e == desks[d].email
  <2>1. desks[d].at = "setup" /\ InProgress(d) /\ e \in Emails
    BY <1>2, <1>10 DEF SetupFlush, InProgress
  <2>2. CASE users[e].here
    BY <1>4, <1>10, <2>1, <2>2, Refused DEF SetupFlush
  <2>3. CASE ~users[e].here
    <3> DEFINE q == [desks[d] EXCEPT !.at = "flushed"]
    <3>1. /\ q \in Desk /\ q.at = "flushed" /\ q.email = e
          /\ q.seen = desks[d].seen /\ q.raced = desks[d].raced
      BY <1>1 DEF Desk
    <3>2. desks' = [desks EXCEPT ![d] = q] /\ env' = e
      BY <1>1, <1>10, <2>3 DEF SetupFlush
    <3>3. setups # {} => q.raced \/ crossed \/ demoted
      BY <2>1, <3>1 DEF AccountInv, SetupInv
    <3>4. UNCHANGED <<users, config, deaths, crossed, demoted, setups>>
      BY <1>10 DEF SetupFlush
    <3>5. Finds(q) /\ ReadIsTrue(q)
      BY <1>2, <2>1, <3>1 DEF Finds, ReadIsTrue
    <3> HIDE DEF q
    <3> QED BY <1>4, <2>1, <3>1, <3>2, <3>3, <3>4, <3>5, DeskKeeps
  <2> QED BY <2>2, <2>3
<1>11. ASSUME NEW d \in Desks, SetupCommit(d) PROVE AccountInv'
  <2> DEFINE row == [NoRow EXCEPT !.here = TRUE, !.role = "admin",
                                  !.password = TRUE, !.active = TRUE]
  <2>1. InProgress(d) /\ desks[d].at = "flushed"
    BY <1>11 DEF SetupCommit, InProgress
  <2>2. row \in UserRow /\ row.here /\ row.role = "admin" /\ row.active /\ row.subject = NoSubject
    BY EmptyRow DEF NoRow, UserRow, Roles
  <2>3. Commit(d, desks[d].email, row)
    BY <1>11 DEF SetupCommit
  <2>4. UNCHANGED <<config, env, deaths, demoted>> /\ setups' = setups \cup {desks[d].email}
    BY <1>11 DEF SetupCommit
  <2> HIDE DEF row
  <2> QED BY <1>1, <2>1, <2>2, <2>3, <2>4, CommitKeeps
<1>12. ASSUME NEW d \in Desks, SsoLink(d) PROVE AccountInv'
  <2> DEFINE e == desks[d].email
             seen == desks[d].seen
             role == IF seen.password THEN users[e].role
                     ELSE Set(users[e].role, seen.role, desks[d].role)
             row == [users[e] EXCEPT
                       !.subject = Set(users[e].subject, seen.subject, desks[d].subject),
                       !.groups = Set(users[e].groups, seen.groups, desks[d].groups),
                       !.role = role]
  <2>1. /\ InProgress(d) /\ desks[d].at = "link" /\ desks[d].at # "flushed"
        /\ e \in Emails /\ users[e].here
    BY <1>2, <1>12 DEF SsoLink, InProgress, Finds
  <2>2. role \in Roles
    BY <1>1, <2>1 DEF Desk, UserRow, Set
  <2>3. /\ row \in UserRow /\ row.here /\ row.role = role /\ row.active = users[e].active
        /\ row.subject = users[e].subject \/ row.subject = desks[d].subject
    <3>1. users[e] \in UserRow /\ seen \in UserRow
      BY <1>1, <2>1 DEF Desk
    <3>2. desks[d].subject \in Subjects \cup {NoSubject} /\ desks[d].groups \in SUBSET Groups
      BY <1>1 DEF Desk
    <3> HIDE DEF role
    <3> QED BY <2>1, <2>2, <3>1, <3>2 DEF UserRow, Set
  <2>4. Commit(d, e, row)
    BY <1>12 DEF SsoLink
  <2>5. UNCHANGED <<config, env, deaths, setups>>
    BY <1>12 DEF SsoLink
  <2>6. demoted' = (demoted \/ (Admin(e) /\ role # "admin"
                               /\ ~\E a \in Emails \ {e} : Admin(a) /\ users[a].active))
    BY <1>12 DEF SsoLink
  <2>7. \/ desks[d].raced \/ demoted'
        \/ row.role = "admin" /\ row.active
        \/ crossed \/ setups = {} \/ \E a \in Emails \ {e} : Administers(a)
    <3> SUFFICES ASSUME ~crossed, setups # {}, ~demoted', ~\E a \in Emails \ {e} : Administers(a)
                 PROVE  row.role = "admin" /\ row.active
      OBVIOUS
    <3>1. ~demoted
      BY <2>6
    <3>2. PICK a \in Emails : Administers(a)
      BY <3>1 DEF AccountInv, AnAdminRemains, Administers
    <3>3. Administers(e)
      BY <3>2
    <3>4. role = "admin"
      <4> HIDE DEF role
      <4> QED BY <2>6, <3>3 DEF Administers
    <3> HIDE DEF row, role
    <3> QED BY <2>3, <3>3, <3>4 DEF Administers
  <2>8. \/ desks[d].raced \/ row.subject = NoSubject \/ row.subject = users[e].subject
        \/ \A f \in Emails \ {e} : users[f].subject # row.subject
    <3>1. desks[d].raced \/ \A f \in Emails : Knows(f, desks[d].subject) => f = e
      BY <2>1 DEF AccountInv, ReadsAreTrue, ReadIsTrue
    <3> HIDE DEF row
    <3> QED BY <1>3, <2>3, <3>1 DEF Knows
  <2>9. demoted' \in BOOLEAN /\ (demoted => demoted')
    BY <2>6, <1>1
  <2> HIDE DEF row, role
  <2> QED BY <1>1, <2>1, <2>3, <2>4, <2>5, <2>7, <2>8, <2>9, CommitKeeps
<1>13. ASSUME NEW d \in Desks, SsoJoin(d) PROVE AccountInv'
  <2> DEFINE e == desks[d].email
             row == [NoRow EXCEPT !.here = TRUE, !.role = desks[d].role,
                                  !.active = TRUE, !.subject = desks[d].subject,
                                  !.groups = desks[d].groups]
  <2>1. InProgress(d) /\ desks[d].at = "join" /\ desks[d].at # "flushed" /\ e \in Emails
    BY <1>2, <1>13 DEF SsoJoin, InProgress, Finds
  <2>2. CASE users[e].here
    BY <1>4, <1>13, <2>1, <2>2, Refused DEF SsoJoin
  <2>3. CASE ~users[e].here
    <3>1. row \in UserRow /\ row.here /\ row.subject = desks[d].subject
      BY <1>1, EmptyRow DEF NoRow, UserRow, Desk
    <3>2. Commit(d, e, row)
      BY <1>13, <2>3 DEF SsoJoin
    <3>3. crossed \/ demoted \/ setups = {} \/ \E a \in Emails \ {e} : Administers(a)
      BY <2>3 DEF AccountInv, AnAdminRemains, Administers, Admin
    <3>4. desks[d].raced \/ \A f \in Emails : ~Knows(f, desks[d].subject)
      BY <2>1 DEF AccountInv, ReadsAreTrue, ReadIsTrue
    <3>5. \/ desks[d].raced \/ row.subject = NoSubject
          \/ \A f \in Emails \ {e} : users[f].subject # row.subject
      <4> HIDE DEF row
      <4> QED BY <1>3, <3>1, <3>4 DEF Knows
    <3>6. UNCHANGED <<config, env, deaths, demoted, setups>>
      BY <1>13 DEF SsoJoin
    <3> HIDE DEF row
    <3> QED BY <1>1, <2>1, <3>1, <3>2, <3>3, <3>5, <3>6, CommitKeeps
  <2> QED BY <2>2, <2>3
<1>14. ASSUME NEW d \in Desks, DeskDies(d) PROVE AccountInv'
  BY <1>1, <1>14, Refused DEF DeskDies
<1>15. ASSUME NEW a \in Emails, NEW c \in Configs \cup {NoConfig}, SaveConfig(a, c)
       PROVE  AccountInv'
  <2>1. UNCHANGED <<users, env, desks, deaths, crossed, demoted, setups>> /\ config' = c
    BY <1>15 DEF SaveConfig
  <2>2. AccountTypes'
    BY <2>1 DEF AccountInv, AccountTypes, InProgress, Finds
  <2>3. ReadsAreTrue' /\ SetupInv'
    BY <2>1 DEF AccountInv, ReadsAreTrue, ReadIsTrue, InProgress, Administers, Admin, Knows, SetupInv
  <2>4. AnAdminRemains' /\ OneAccountPerSubject'
    BY <2>1 DEF AccountInv, AnAdminRemains, Admin, OneAccountPerSubject
  <2> QED BY <2>1, <2>2, <2>3, <2>4 DEF AccountInv
<1> QED
  BY <1>5, <1>6, <1>7, <1>8, <1>9, <1>10, <1>11, <1>12, <1>13, <1>14, <1>15 DEF AccountStep
-----------------------------------------------------------------------------
(* Apps *)

LEMMA AppInitial == AppsInit => AppInv
<1> SUFFICES ASSUME AppsInit PROVE AppInv
  OBVIOUS
<1> USE DEF AppsInit
<1>1. \A c \in Clerks : clerks[c] = IdleClerk /\ clerks[c].at = "idle" /\ clerks[c].app = NoApp
  BY DEF IdleClerk
<1>2. \A a \in Apps : rows[a] = NoRowYet /\ ~Here(a)
  BY DEF NoRowYet, Here
<1>3. AppTypes
  <2>1. rows \in [Apps -> AppRow]
    BY DEF NoRowYet, AppRow
  <2>2. IdleClerk \in Clerk
    BY DEF IdleClerk, Clerk
  <2>3. clerks \in [Clerks -> Clerk]
    BY <2>2
  <2>4. losses \in 0..MaxLosses
    BY AppsAssumption
  <2>5. secrets \in [Apps -> SUBSET SecretRow] /\ wrote \in [Apps -> Clerks \cup {NoClerk}]
    OBVIOUS
  <2> QED BY <1>1, <2>1, <2>3, <2>4, <2>5 DEF AppTypes
<1>4. HalvesInv
  BY <1>1 DEF HalvesInv
<1>5. ReposMatchRows
  BY <1>2 DEF ReposMatchRows
<1>6. \A a \in Apps : OneSecret(a)
  BY DEF OneSecret
<1>7. ListsInv
  BY <1>1, <1>2 DEF ListsInv
<1> QED BY <1>3, <1>4, <1>5, <1>6, <1>7 DEF AppInv

LEMMA NoSecretLost ==
    ASSUME UNCHANGED <<secrets, wrote>>, \A a \in Apps : OneSecret(a)
    PROVE  \A a \in Apps : OneSecret(a)'
BY DEF OneSecret

\* A request that reads the row of an app that is there.
LEMMA OpenKeeps ==
    ASSUME AppInv, NEW c \in Clerks, NEW a \in Apps,
           NEW phase \in {"delete", "grant", "remove", "set", "unset"},
           NEW m \in Emails \cup Groups \cup {NoEmail},
           phase \in {"grant", "remove"} => m # NoEmail,
           Open(c, a, phase, m),
           repos' = IF phase = "delete" THEN repos \ {a} ELSE repos,
           UNCHANGED <<rows, kept, secrets, losses, intended, wrote, contested>>
    PROVE  AppInv'
<1> DEFINE had == IF secrets[a] = {} THEN NoClerk ELSE (CHOOSE s \in secrets[a] : TRUE).id
           q == [at |-> phase, app |-> a, owner |-> NoEmail, name |-> NoName, member |-> m,
                 seen |-> rows[a].allowed, raced |-> FALSE, had |-> had]
<1>1. AppTypes /\ rows[a] \in AppRow /\ clerks[c] \in Clerk /\ secrets[a] \in SUBSET SecretRow
  BY DEF AppInv, AppTypes
<1>2. clerks[c].at = "idle" /\ Here(a) /\ clerks' = [clerks EXCEPT ![c] = q]
  BY DEF Open
<1>3. had \in Clerks \cup {NoClerk} /\ rows[a].allowed \in SUBSET (Emails \cup Groups)
  BY <1>1 DEF SecretRow, AppRow
<1> HIDE DEF had
<1>4. /\ q \in Clerk /\ q.at = phase /\ q.app = a /\ q.member = m /\ q.seen = rows[a].allowed
  BY <1>1, <1>3 DEF Clerk
<1> HIDE DEF q
<1>5. /\ clerks' \in [Clerks -> Clerk] /\ clerks'[c] = q
      /\ \A k \in Clerks \ {c} : clerks'[k] = clerks[k]
  BY <1>1, <1>2, <1>4 DEF AppTypes
<1>6. \A b \in Apps : Here(b)' = Here(b)
  BY DEF Here
<1>7. AppTypes'
  <2>1. \A k \in Clerks :
          /\ IF clerks'[k].at = "idle" THEN clerks'[k].app = NoApp ELSE clerks'[k].app \in Apps
          /\ clerks'[k].at \in {"grant", "remove"} => clerks'[k].member \in Emails \cup Groups
    BY <1>1, <1>4, <1>5 DEF AppTypes
  <2>2. repos' \subseteq Apps
    BY <1>1 DEF AppTypes
  <2> QED BY <1>1, <1>5, <1>6, <2>1, <2>2 DEF AppTypes
<1>8. HalvesInv'
  <2>1. \A b \in Apps : ~Here(b) /\ Strange(b)' => intended[b] = {}
    <3> SUFFICES ASSUME NEW b \in Apps, ~Here(b), Strange(b)' PROVE intended[b] = {}
      OBVIOUS
    <3>1. Strange(b)
      BY <1>1, <1>2, <1>5, AppsAssumption DEF Strange, AppTypes
    <3> QED BY <3>1 DEF AppInv, HalvesInv
  <2>2. ASSUME NEW k \in Clerks, clerks'[k].at = "create"
        PROVE  /\ ~Here(clerks'[k].app) /\ clerks'[k].app \in repos'
               /\ intended[clerks'[k].app] = {}
               /\ \A l \in Clerks \ {k} : clerks'[l].app # clerks'[k].app
    <3>1. k # c /\ clerks[k].at = "create" /\ clerks'[k] = clerks[k]
      BY <2>2, <1>4, <1>5
    <3>2. /\ ~Here(clerks[k].app) /\ clerks[k].app \in repos
          /\ intended[clerks[k].app] = {}
          /\ \A l \in Clerks \ {k} : clerks[l].app # clerks[k].app
      BY <3>1 DEF AppInv, HalvesInv
    <3>3. a # clerks[k].app
      BY <3>2, <1>2
    <3> QED BY <3>1, <3>2, <3>3, <1>4, <1>5
  <2>3. ASSUME NEW k \in Clerks, clerks'[k].at = "delete" PROVE clerks'[k].app \notin repos'
    <3>1. CASE k = c
      BY <3>1, <2>3, <1>4, <1>5
    <3>2. CASE k # c
      BY <3>2, <2>3, <1>5 DEF AppInv, HalvesInv
    <3> QED BY <3>1, <3>2
  <2> QED BY <2>1, <2>2, <2>3 DEF HalvesInv, Here
<1>9. ReposMatchRows'
  <2> SUFFICES ASSUME NEW b \in Apps
               PROVE  \/ Here(b) <=> b \in repos'
                      \/ \E k \in Clerks : clerks'[k].app = b
                                        /\ clerks'[k].at \in {"create", "delete", "failed"}
    BY <1>6 DEF ReposMatchRows
  <2>1. CASE \E k \in Clerks : clerks[k].app = b /\ clerks[k].at \in {"create", "delete", "failed"}
    BY <2>1, <1>2, <1>5
  <2>2. CASE Here(b) <=> b \in repos
    <3>1. CASE phase = "delete" /\ b = a
      BY <3>1, <1>4, <1>5
    <3>2. CASE ~(phase = "delete" /\ b = a)
      BY <3>2, <2>2
    <3> QED BY <3>1, <3>2
  <2> QED BY <2>1, <2>2 DEF AppInv, ReposMatchRows
<1>10. \A b \in Apps : OneSecret(b)'
  BY NoSecretLost DEF AppInv
<1>11. ListsInv'
  <2>1. ASSUME NEW k \in Clerks, clerks'[k].at \in {"grant", "remove"}, ~clerks'[k].raced,
               NEW n \in Column(clerks'[k].member)
        PROVE  n \in clerks'[k].seen <=> n \in rows[clerks'[k].app].allowed
    <3>1. CASE k = c
      BY <3>1, <1>4, <1>5
    <3>2. CASE k # c
      BY <3>2, <2>1, <1>5 DEF AppInv, ListsInv
    <3> QED BY <3>1, <3>2
  <2> QED BY <2>1, <1>6 DEF AppInv, ListsInv, Column
<1> QED BY <1>7, <1>8, <1>9, <1>10, <1>11 DEF AppInv

\* A request that ends and leaves rows, lists and repositories alone.
LEMMA EndKeeps ==
    ASSUME AppInv, NEW c \in Clerks, NEW phase \in {"done", "refused", "failed"},
           To(c, phase), clerks[c].at \notin {"idle", "failed"},
           clerks[c].at \in {"create", "delete"} => phase = "failed",
           UNCHANGED <<rows, repos, kept, intended, contested>>,
           losses' \in 0..MaxLosses,
           secrets' \in [Apps -> SUBSET SecretRow], wrote' \in [Apps -> Clerks \cup {NoClerk}],
           \A a \in Apps : OneSecret(a)' /\ (secrets'[a] # {} => Here(a))
    PROVE  AppInv'
<1>1. AppTypes /\ clerks[c] \in Clerk
  BY DEF AppInv, AppTypes
<1>2. clerks' \in [Clerks -> Clerk] /\ clerks'[c].at = phase
  BY <1>1 DEF AppTypes, To, Clerk
<1>3. \A k \in Clerks : /\ clerks'[k].app = clerks[k].app /\ clerks'[k].member = clerks[k].member
                        /\ clerks'[k].seen = clerks[k].seen /\ clerks'[k].raced = clerks[k].raced
                        /\ k # c => clerks'[k].at = clerks[k].at
  BY <1>1 DEF AppTypes, To, Clerk
<1>4. \A b \in Apps : Here(b)' = Here(b)
  BY DEF Here
<1>5. AppTypes'
  BY <1>1, <1>2, <1>3, <1>4 DEF AppTypes
<1>6. HalvesInv'
  <2>1. \A b \in Apps : ~Here(b) /\ Strange(b)' => intended[b] = {}
    BY <1>3 DEF AppInv, HalvesInv, Strange
  <2>2. \A k \in Clerks : clerks'[k].at = "create" \/ clerks'[k].at = "delete" =>
          clerks[k].at = clerks'[k].at
    BY <1>2, <1>3
  <2>3. \A k \in Clerks :
          /\ clerks'[k].at = "create" =>
               /\ ~Here(clerks'[k].app) /\ clerks'[k].app \in repos
               /\ intended[clerks'[k].app] = {}
               /\ \A l \in Clerks \ {k} : clerks'[l].app # clerks'[k].app
          /\ clerks'[k].at = "delete" => clerks'[k].app \notin repos
    BY <1>3, <2>2 DEF AppInv, HalvesInv
  <2> QED BY <2>1, <2>3 DEF HalvesInv, Here
<1>7. ReposMatchRows'
  <2> SUFFICES ASSUME NEW b \in Apps,
                      ~\E k \in Clerks : clerks'[k].app = b
                                       /\ clerks'[k].at \in {"create", "delete", "failed"}
               PROVE  Here(b) <=> b \in repos
    BY <1>4 DEF ReposMatchRows
  <2>1. ~\E k \in Clerks : clerks[k].app = b /\ clerks[k].at \in {"create", "delete", "failed"}
    BY <1>2, <1>3
  <2> QED BY <2>1 DEF AppInv, ReposMatchRows
<1>8. ListsInv'
  BY <1>2, <1>3, <1>4 DEF AppInv, ListsInv, Column
<1> QED BY <1>5, <1>6, <1>7, <1>8 DEF AppInv

\* What the requests about apps and the scans do to the records.
AppMove ==
    \/ \E c \in Clerks :
         \/ AppStep(c)
         \/ \E a \in Apps :
              \/ \E u \in Emails, n \in Names : CreateRead(c, a, u, n)
              \/ DeleteRead(c, a) \/ SetRead(c, a) \/ UnsetRead(c, a)
              \/ \E m \in Emails \cup Groups : GrantRead(c, a, m) \/ RemoveRead(c, a, m)
    \/ \E a \in Apps : Scanned(a)

LEMMA AppNext == AppInv /\ AppMove => AppInv'
<1> SUFFICES ASSUME AppInv, AppMove PROVE AppInv'
  OBVIOUS
<1>1. AppTypes
  BY DEF AppInv
<1>2. \A c \in Clerks :
        /\ clerks[c] \in Clerk
        /\ clerks[c].at # "idle" => clerks[c].app \in Apps /\ rows[clerks[c].app] \in AppRow
  BY <1>1 DEF AppTypes
<1>3. \A a \in Apps : OneSecret(a) /\ (secrets[a] # {} => Here(a))
  BY <1>1 DEF AppInv, AppTypes
<1>4. ASSUME NEW c \in Clerks, NEW a \in Apps, DeleteRead(c, a) PROVE AppInv'
  BY <1>4, OpenKeeps DEF DeleteRead
<1>5. ASSUME NEW c \in Clerks, NEW a \in Apps, SetRead(c, a) PROVE AppInv'
  BY <1>5, OpenKeeps DEF SetRead
<1>6. ASSUME NEW c \in Clerks, NEW a \in Apps, UnsetRead(c, a) PROVE AppInv'
  BY <1>6, OpenKeeps DEF UnsetRead
<1>7. ASSUME NEW c \in Clerks, NEW a \in Apps, NEW m \in Emails \cup Groups, GrantRead(c, a, m)
      PROVE  AppInv'
  BY <1>7, OpenKeeps, PeopleAssumption DEF GrantRead
<1>8. ASSUME NEW c \in Clerks, NEW a \in Apps, NEW m \in Emails \cup Groups, RemoveRead(c, a, m)
      PROVE  AppInv'
  BY <1>8, OpenKeeps, PeopleAssumption DEF RemoveRead
<1>9. ASSUME NEW c \in Clerks, RowGone(c) PROVE AppInv'
  <2>1. UNCHANGED <<secrets, wrote, losses>> /\ clerks[c].at \in {"grant", "remove", "set"}
    BY <1>9 DEF RowGone
  <2>2. \A a \in Apps : OneSecret(a)' /\ (secrets'[a] # {} => Here(a))
    BY <1>3, <2>1, NoSecretLost
  <2> QED BY <1>1, <1>9, <2>1, <2>2, EndKeeps DEF RowGone, AppTypes
<1>10. ASSUME NEW c \in Clerks, ClerkDies(c) PROVE AppInv'
  <2>1. UNCHANGED <<secrets, wrote>> /\ clerks[c].at \notin {"idle", "failed"}
    BY <1>10 DEF ClerkDies, Busy
  <2>2. \A a \in Apps : OneSecret(a)' /\ (secrets'[a] # {} => Here(a))
    BY <1>3, <2>1, NoSecretLost
  <2>3. losses' \in 0..MaxLosses
    BY <1>1, <1>10, AppsAssumption DEF ClerkDies, AppTypes
  <2> QED BY <1>1, <1>10, <2>1, <2>2, <2>3, EndKeeps DEF ClerkDies, AppTypes
<1>11. ASSUME NEW c \in Clerks, SetCommit(c) PROVE AppInv'
  <2> DEFINE a == clerks[c].app
             had == clerks[c].had
             id == IF had = NoClerk THEN c ELSE had
             fits == IF had = NoClerk THEN secrets[a] = {} ELSE \E s \in secrets[a] : s.id = had
  <2>1. /\ UNCHANGED <<rows, repos, kept, losses, intended, contested>>
        /\ clerks[c].at = "set" /\ Here(a) /\ a \in Apps
    BY <1>2, <1>11 DEF SetCommit
  <2>2. CASE fits
    <3>1. /\ secrets' = [secrets EXCEPT ![a] = {[id |-> id, value |-> c]}]
          /\ wrote' = [wrote EXCEPT ![a] = c] /\ To(c, "done")
      BY <1>11, <2>2 DEF SetCommit
    <3>2. id \in Clerks
      BY <1>2 DEF Clerk
    <3>3. secrets' \in [Apps -> SUBSET SecretRow] /\ wrote' \in [Apps -> Clerks \cup {NoClerk}]
      <4> HIDE DEF id
      <4>1. {[id |-> id, value |-> c]} \in SUBSET SecretRow
        BY <3>2 DEF SecretRow
      <4> DEFINE entry == {[id |-> id, value |-> c]}
      <4> HIDE DEF entry
      <4> QED BY <1>1, <3>1, <4>1 DEF AppTypes, entry
    <3>4. ASSUME NEW b \in Apps PROVE OneSecret(b)' /\ (secrets'[b] # {} => Here(b))
      <4>1. CASE b = a
        <5>1. secrets'[a] = {[id |-> id, value |-> c]} /\ wrote'[a] = c
          BY <1>1, <2>1, <3>1 DEF AppTypes
        <5> HIDE DEF id
        <5> QED BY <2>1, <3>2, <4>1, <5>1 DEF OneSecret
      <4>2. CASE b # a
        <5>1. secrets'[b] = secrets[b] /\ wrote'[b] = wrote[b]
          BY <1>1, <3>1, <4>2 DEF AppTypes
        <5> QED BY <1>3, <5>1 DEF OneSecret
      <4> QED BY <4>1, <4>2
    <3> QED BY <1>1, <2>1, <3>1, <3>3, <3>4, EndKeeps DEF AppTypes
  <2>3. CASE ~fits
    <3>1. To(c, "refused") /\ UNCHANGED <<secrets, wrote>>
      BY <1>11, <2>3 DEF SetCommit
    <3>2. \A b \in Apps : OneSecret(b)' /\ (secrets'[b] # {} => Here(b))
      BY <1>3, <3>1, NoSecretLost
    <3> QED BY <1>1, <2>1, <3>1, <3>2, EndKeeps DEF AppTypes
  <2> HIDE DEF fits
  <2> QED BY <2>2, <2>3
<1>12. ASSUME NEW c \in Clerks, UnsetCommit(c) PROVE AppInv'
  <2> DEFINE a == clerks[c].app
             row == {s \in secrets[a] : s.id = clerks[c].had}
  <2>1. /\ UNCHANGED <<rows, repos, kept, losses, intended, contested>>
        /\ clerks[c].at = "unset" /\ a \in Apps /\ To(c, "done")
        /\ secrets' = [secrets EXCEPT ![a] = secrets[a] \ row]
        /\ wrote' = [wrote EXCEPT ![a] = IF row = {} THEN wrote[a] ELSE NoClerk]
    BY <1>2, <1>12 DEF UnsetCommit
  <2>2. secrets' \in [Apps -> SUBSET SecretRow] /\ wrote' \in [Apps -> Clerks \cup {NoClerk}]
    BY <1>1, <2>1 DEF AppTypes
  <2>3. ASSUME NEW b \in Apps PROVE OneSecret(b)' /\ (secrets'[b] # {} => Here(b))
    <3>1. CASE b = a /\ row # {}
      <4>1. PICK i \in Clerks : secrets[a] = {[id |-> i, value |-> wrote[a]]}
        BY <1>3, <2>1, <3>1 DEF OneSecret
      <4>2. row = secrets[a]
        BY <3>1, <4>1
      <4>3. secrets'[a] = {} /\ wrote'[a] = NoClerk
        BY <1>1, <2>1, <3>1, <4>2 DEF AppTypes
      <4> QED BY <3>1, <4>3 DEF OneSecret
    <3>2. CASE b # a \/ row = {}
      <4>1. secrets'[b] = secrets[b] /\ wrote'[b] = wrote[b]
        BY <1>1, <2>1, <3>2 DEF AppTypes
      <4> QED BY <1>3, <4>1 DEF OneSecret
    <3> QED BY <3>1, <3>2
  <2> QED BY <1>1, <2>1, <2>2, <2>3, EndKeeps DEF AppTypes
<1>13. ASSUME NEW c \in Clerks, NEW a \in Apps, NEW u \in Emails, NEW n \in Names,
              CreateRead(c, a, u, n)
       PROVE  AppInv'
  <2> DEFINE q == [clerks[c] EXCEPT !.at = "create", !.app = a, !.owner = u, !.name = n]
  <2>1. /\ clerks[c].at = "idle" /\ ~Here(a) /\ Strange(a) /\ repos' = repos \cup {a}
        /\ clerks' = [clerks EXCEPT ![c] = q]
        /\ UNCHANGED <<rows, kept, secrets, losses, intended, wrote, contested>>
    BY <1>13 DEF CreateRead, Strange
  <2>2. q \in Clerk /\ q.at = "create" /\ q.app = a
    BY <1>2 DEF Clerk
  <2> HIDE DEF q
  <2>3. /\ clerks' \in [Clerks -> Clerk] /\ clerks'[c] = q
        /\ \A k \in Clerks \ {c} : clerks'[k] = clerks[k]
    BY <1>1, <2>1, <2>2 DEF AppTypes
  <2>4. \A b \in Apps : Here(b)' = Here(b)
    BY <2>1 DEF Here
  <2>5. AppTypes'
    BY <1>1, <2>1, <2>2, <2>3, <2>4 DEF AppTypes
  <2>6. HalvesInv'
    <3>1. ASSUME NEW b \in Apps, ~Here(b), Strange(b)' PROVE intended[b] = {}
      <4>1. Strange(b)
        BY <1>1, <2>1, <2>3, <3>1, AppsAssumption DEF Strange, AppTypes
      <4> QED BY <3>1, <4>1 DEF AppInv, HalvesInv
    <3>2. intended[a] = {}
      BY <2>1 DEF AppInv, HalvesInv
    <3>3. ASSUME NEW k \in Clerks, k # c, clerks[k].at = "create"
          PROVE  /\ ~Here(clerks[k].app) /\ clerks[k].app \in repos' /\ intended[clerks[k].app] = {}
                 /\ \A l \in Clerks \ {k} : clerks'[l].app # clerks[k].app
      <4>1. clerks[k].app # a
        BY <2>1 DEF Strange
      <4> QED BY <2>1, <2>2, <2>3, <3>3, <4>1 DEF AppInv, HalvesInv
    <3>4. ASSUME NEW k \in Clerks, k # c, clerks[k].at = "delete" PROVE clerks[k].app \notin repos'
      <4>1. clerks[k].app # a
        BY <2>1 DEF Strange
      <4> QED BY <2>1, <3>4, <4>1 DEF AppInv, HalvesInv
    <3>5. \A k \in Clerks \ {c} : clerks'[k].app # a
      BY <2>1, <2>3 DEF Strange
    <3> QED BY <2>1, <2>2, <2>3, <2>4, <3>1, <3>2, <3>3, <3>4, <3>5 DEF HalvesInv, Here
  <2>7. ReposMatchRows'
    <3> SUFFICES ASSUME NEW b \in Apps
                 PROVE  \/ Here(b) <=> b \in repos'
                        \/ \E k \in Clerks : clerks'[k].app = b
                                          /\ clerks'[k].at \in {"create", "delete", "failed"}
      BY <2>4 DEF ReposMatchRows
    <3>1. CASE b = a
      BY <2>2, <2>3, <3>1
    <3>2. CASE b # a
      BY <2>1, <2>3, <3>2 DEF AppInv, ReposMatchRows
    <3> QED BY <3>1, <3>2
  <2>8. \A b \in Apps : OneSecret(b)'
    BY <1>3, <2>1, NoSecretLost
  <2>9. ListsInv'
    BY <2>1, <2>2, <2>3, <2>4 DEF AppInv, ListsInv, Column
  <2> QED BY <2>5, <2>6, <2>7, <2>8, <2>9 DEF AppInv
<1>14. ASSUME NEW c \in Clerks, CreateCommit(c) PROVE AppInv'
  <2> DEFINE a == clerks[c].app
             row == [here |-> TRUE, owner |-> clerks[c].owner, name |-> clerks[c].name, allowed |-> {}]
  <2>1. /\ clerks[c].at = "create" /\ rows' = [rows EXCEPT ![a] = row]
        /\ UNCHANGED <<repos, kept, secrets, losses, intended, wrote, contested>>
    BY <1>14 DEF CreateCommit
  <2> To(c, "done")
    BY <1>14 DEF CreateCommit
  <2>2. row \in AppRow /\ row.here = TRUE /\ row.allowed = {}
    BY <1>2 DEF AppRow, Clerk
  <2> HIDE DEF row
  <2>3. a \in Apps /\ a \in repos /\ intended[a] = {} /\ \A k \in Clerks \ {c} : clerks[k].app # a
    BY <1>2, <2>1 DEF AppInv, HalvesInv
  <2>4. /\ rows' \in [Apps -> AppRow] /\ rows'[a] = row
        /\ \A b \in Apps \ {a} : rows'[b] = rows[b]
    BY <1>1, <2>1, <2>2, <2>3 DEF AppTypes
  <2>5. rows'[a].here /\ \A b \in Apps \ {a} : Here(b)' = Here(b)
    BY <2>2, <2>3, <2>4 DEF Here
  <2>6. /\ clerks' \in [Clerks -> Clerk] /\ clerks'[c].at = "done" /\ clerks'[c].app = a
        /\ \A k \in Clerks \ {c} : clerks'[k] = clerks[k]
    BY <1>1, <1>2 DEF AppTypes, To, Clerk
  <2>7. AppTypes'
    <3>1. \A b \in Apps : b \in kept \/ secrets[b] # {} => rows'[b].here
      BY <1>1, <2>5 DEF AppTypes, Here
    <3> QED BY <1>1, <2>1, <2>3, <2>4, <2>6, <3>1 DEF AppTypes, Here
  <2>8. HalvesInv'
    <3>1. ASSUME NEW b \in Apps, ~Here(b)', Strange(b)' PROVE intended[b] = {}
      <4>1. b # a /\ ~Here(b) /\ Strange(b)
        BY <2>5, <2>6, <3>1 DEF Strange
      <4> QED BY <4>1 DEF AppInv, HalvesInv
    <3>2. ASSUME NEW k \in Clerks, clerks'[k].at = "create"
          PROVE  /\ ~rows'[clerks'[k].app].here /\ clerks'[k].app \in repos
                 /\ intended[clerks'[k].app] = {}
                 /\ \A l \in Clerks \ {k} : clerks'[l].app # clerks'[k].app
      <4>1. k # c /\ clerks[k].at = "create" /\ clerks[k].app \in Apps \ {a} /\ clerks'[k] = clerks[k]
        BY <1>2, <2>3, <2>6, <3>2
      <4>2. ~rows'[clerks[k].app].here
        BY <2>4, <4>1 DEF AppInv, HalvesInv, Here
      <4>3. /\ clerks[k].app \in repos /\ intended[clerks[k].app] = {}
            /\ \A l \in Clerks \ {k} : clerks[l].app # clerks[k].app
        BY <4>1 DEF AppInv, HalvesInv
      <4>4. clerks'[c].app = clerks[c].app
        BY <2>6
      <4> QED BY <2>6, <4>1, <4>2, <4>3, <4>4
    <3>3. ASSUME NEW k \in Clerks, clerks'[k].at = "delete" PROVE clerks'[k].app \notin repos
      BY <2>6, <3>3 DEF AppInv, HalvesInv
    <3> QED BY <2>1, <2>6, <3>1, <3>2, <3>3 DEF HalvesInv, Here
  <2>9. ReposMatchRows'
    <3> SUFFICES ASSUME NEW b \in Apps,
                        ~\E k \in Clerks : clerks'[k].app = b
                                         /\ clerks'[k].at \in {"create", "delete", "failed"}
                 PROVE  rows'[b].here <=> b \in repos
      BY <2>1 DEF ReposMatchRows, Here
    <3>1. CASE b = a
      BY <2>3, <2>5, <3>1
    <3>2. CASE b # a
      <4>1. ~\E k \in Clerks : clerks[k].app = b /\ clerks[k].at \in {"create", "delete", "failed"}
        BY <2>6, <3>2
      <4> QED BY <2>4, <3>2, <4>1 DEF AppInv, ReposMatchRows, Here
    <3> QED BY <3>1, <3>2
  <2>10. \A b \in Apps : OneSecret(b)'
    BY <1>3, <2>1, NoSecretLost
  <2>11. ListsInv'
    <3>1. \A b \in Apps \ contested : Here(b)' => rows'[b].allowed = intended[b]
      BY <2>2, <2>3, <2>4, <2>5 DEF AppInv, ListsInv
    <3>2. ASSUME NEW k \in Clerks, clerks'[k].at \in {"grant", "remove"}, ~clerks'[k].raced,
                 NEW m \in Column(clerks'[k].member)
          PROVE  m \in clerks'[k].seen <=> m \in rows'[clerks'[k].app].allowed
      <4>1. k # c /\ clerks'[k] = clerks[k]
        BY <2>6, <3>2
      <4>2. rows'[clerks[k].app] = rows[clerks[k].app]
        BY <1>2, <2>3, <2>4, <3>2, <4>1
      <4> QED BY <3>2, <4>1, <4>2 DEF AppInv, ListsInv
    <3> QED BY <2>1, <3>1, <3>2 DEF ListsInv, Column
  <2> QED BY <2>7, <2>8, <2>9, <2>10, <2>11 DEF AppInv
<1>15. ASSUME NEW c \in Clerks, DeleteCommit(c) PROVE AppInv'
  <2> DEFINE a == clerks[c].app
  <2>1. /\ UNCHANGED <<repos, kept, secrets, losses, intended, wrote, contested>>
        /\ clerks[c].at = "delete" /\ a \in Apps
    BY <1>2, <1>15 DEF DeleteCommit
  <2>2. CASE a \in kept \/ secrets[a] # {}
    <3>1. To(c, "failed") /\ UNCHANGED rows
      BY <1>15, <2>2 DEF DeleteCommit
    <3>2. \A b \in Apps : OneSecret(b)' /\ (secrets'[b] # {} => Here(b))
      BY <1>3, <2>1, NoSecretLost
    <3> QED BY <1>1, <2>1, <3>1, <3>2, EndKeeps DEF AppTypes
  <2>3. CASE ~(a \in kept \/ secrets[a] # {})
    <3>1. To(c, "done") /\ rows' = [rows EXCEPT ![a].here = FALSE]
      BY <1>15, <2>3 DEF DeleteCommit
    <3>2. /\ rows' \in [Apps -> AppRow] /\ rows'[a].here = FALSE
          /\ \A b \in Apps \ {a} : rows'[b] = rows[b]
          /\ \A b \in Apps : rows'[b].allowed = rows[b].allowed
      BY <1>1, <1>2, <2>1, <3>1 DEF AppTypes, AppRow
    <3>3. ~rows'[a].here /\ \A b \in Apps \ {a} : Here(b)' = Here(b)
      BY <2>1, <3>2 DEF Here
    <3>4. /\ clerks' \in [Clerks -> Clerk] /\ clerks'[c].at = "done" /\ clerks'[c].app = a
          /\ \A k \in Clerks \ {c} : clerks'[k] = clerks[k]
      BY <1>1, <1>2, <3>1 DEF AppTypes, To, Clerk
    <3>5. AppTypes'
      BY <1>1, <2>1, <2>3, <3>2, <3>3, <3>4 DEF AppTypes
    <3>6. HalvesInv'
      <4>1. ASSUME NEW b \in Apps, ~Here(b)', Strange(b)' PROVE intended[b] = {}
        <5>1. b # a /\ ~Here(b) /\ Strange(b)
          BY <3>3, <3>4, <4>1 DEF Strange
        <5> QED BY <5>1 DEF AppInv, HalvesInv
      <4>2. ASSUME NEW k \in Clerks, clerks'[k].at = "create"
            PROVE  /\ ~Here(clerks[k].app)' /\ clerks[k].app \in repos /\ intended[clerks[k].app] = {}
                   /\ k # c /\ \A l \in Clerks \ {k} : clerks'[l].app # clerks[k].app
        <5>1. k # c /\ clerks[k].at = "create" /\ clerks[k].app \in Apps
          BY <1>2, <3>4, <4>2
        <5> QED BY <3>3, <3>4, <5>1 DEF AppInv, HalvesInv
      <4>3. ASSUME NEW k \in Clerks, clerks'[k].at = "delete" PROVE clerks'[k].app \notin repos
        BY <3>4, <4>3 DEF AppInv, HalvesInv
      <4> QED BY <2>1, <3>4, <4>1, <4>2, <4>3 DEF HalvesInv, Here
    <3>7. a \notin repos
      BY <2>1 DEF AppInv, HalvesInv
    <3>8. ReposMatchRows'
      <4> SUFFICES ASSUME NEW b \in Apps,
                          ~\E k \in Clerks : clerks'[k].app = b
                                           /\ clerks'[k].at \in {"create", "delete", "failed"}
                   PROVE  rows'[b].here <=> b \in repos
        BY <2>1 DEF ReposMatchRows, Here
      <4>1. CASE b = a
        BY <3>3, <3>7, <4>1
      <4>2. CASE b # a
        <5>1. ~\E k \in Clerks : clerks[k].app = b /\ clerks[k].at \in {"create", "delete", "failed"}
          BY <3>4, <4>2
        <5> QED BY <3>2, <4>2, <5>1 DEF AppInv, ReposMatchRows, Here
      <4> QED BY <4>1, <4>2
    <3>9. \A b \in Apps : OneSecret(b)'
      BY <1>3, <2>1, NoSecretLost
    <3>10. ListsInv'
      <4>1. \A b \in Apps \ contested : rows'[b].here => rows'[b].allowed = intended[b]
        BY <3>2 DEF AppInv, ListsInv, Here
      <4>2. ASSUME NEW k \in Clerks, clerks'[k].at \in {"grant", "remove"}, ~clerks'[k].raced,
                   NEW m \in Column(clerks'[k].member)
            PROVE  m \in clerks'[k].seen <=> m \in rows'[clerks'[k].app].allowed
        <5>1. k # c /\ clerks'[k] = clerks[k] /\ clerks[k].app \in Apps
          BY <1>2, <3>4, <4>2
        <5> QED BY <3>2, <4>2, <5>1 DEF AppInv, ListsInv
      <4> QED BY <2>1, <4>1, <4>2 DEF ListsInv, Column, Here
    <3> QED BY <3>5, <3>6, <3>8, <3>9, <3>10 DEF AppInv
  <2> QED BY <2>2, <2>3
<1>16. ASSUME NEW c \in Clerks, ListCommit(c) PROVE AppInv'
  <2> DEFINE a == clerks[c].app
             m == clerks[c].member
             seen == clerks[c].seen \cap Column(m)
             array == IF clerks[c].at = "grant" THEN seen \cup {m} ELSE seen \ {m}
             list == (rows[a].allowed \ Column(m)) \cup array
  <2>1. /\ UNCHANGED <<repos, kept, secrets, losses, wrote>> /\ ListWritten(c, array)
        /\ clerks[c].at \in {"grant", "remove"} /\ a \in Apps /\ Here(a)
    BY <1>2, <1>16 DEF ListCommit
  <2>2. m \in Column(m) /\ m \in Emails \cup Groups /\ Column(m) \subseteq Emails \cup Groups
    BY <1>1, <2>1 DEF AppTypes, Column
  <2>3. list \subseteq Emails \cup Groups
    BY <1>2, <2>1, <2>2 DEF AppRow
  <2>4. /\ rows' = [rows EXCEPT ![a].allowed = list]
        /\ contested' = IF clerks[c].raced THEN contested \cup {a} ELSE contested
        /\ intended' = [intended EXCEPT ![a] = IF clerks[c].at = "grant" THEN intended[a] \cup {m}
                                                                     ELSE intended[a] \ {m}]
    BY <2>1 DEF ListWritten
  <2>5. clerks' = [k \in Clerks |->
          IF k = c THEN [clerks[k] EXCEPT !.at = "done"]
          ELSE IF clerks[k].at \in {"grant", "remove"} /\ clerks[k].app = a
                  /\ Column(clerks[k].member) = Column(m)
               THEN [clerks[k] EXCEPT !.raced = TRUE]
               ELSE clerks[k]]
    BY <2>1 DEF ListWritten
  <2>6. list = IF clerks[c].at = "grant" THEN (rows[a].allowed \ Column(m)) \cup seen \cup {m}
               ELSE (rows[a].allowed \ Column(m)) \cup (seen \ {m})
    OBVIOUS
  <2> HIDE DEF list
  <2>7. /\ rows' \in [Apps -> AppRow] /\ rows'[a].allowed = list
        /\ \A b \in Apps \ {a} : rows'[b] = rows[b]
        /\ \A b \in Apps : rows'[b].here = rows[b].here
    BY <1>1, <1>2, <2>1, <2>3, <2>4 DEF AppTypes, AppRow
  <2>8. \A b \in Apps : Here(b)' = Here(b)
    BY <2>7 DEF Here
  <2>9. /\ clerks' \in [Clerks -> Clerk]
        /\ \A k \in Clerks : /\ clerks'[k].app = clerks[k].app /\ clerks'[k].member = clerks[k].member
                             /\ clerks'[k].seen = clerks[k].seen
                             /\ clerks'[k].at = IF k = c THEN "done" ELSE clerks[k].at
    <3>1. \A k \in Clerks : /\ [clerks[k] EXCEPT !.at = "done"] \in Clerk
                            /\ [clerks[k] EXCEPT !.raced = TRUE] \in Clerk
      BY <1>2 DEF Clerk
    <3>2. clerks' \in [Clerks -> Clerk]
      BY <1>2, <2>5, <3>1
    <3>3. ASSUME NEW k \in Clerks
          PROVE  /\ clerks'[k].app = clerks[k].app /\ clerks'[k].member = clerks[k].member
                 /\ clerks'[k].seen = clerks[k].seen
                 /\ clerks'[k].at = IF k = c THEN "done" ELSE clerks[k].at
      BY <1>2, <2>5 DEF Clerk
    <3> QED BY <3>2, <3>3
  <2>10. \A k \in Clerks \ {c} :
           IF clerks[k].at \in {"grant", "remove"} /\ clerks[k].app = a
              /\ Column(clerks[k].member) = Column(m)
           THEN clerks'[k].raced ELSE clerks'[k].raced = clerks[k].raced
    BY <1>2, <2>5 DEF Clerk
  <2>11. AppTypes'
    <3>1. intended' \in [Apps -> SUBSET (Emails \cup Groups)]
      BY <1>1, <2>2, <2>4 DEF AppTypes
    <3>2. contested' \subseteq Apps
      BY <1>1, <2>1, <2>4 DEF AppTypes
    <3>3. \A k \in Clerks :
            /\ IF clerks'[k].at = "idle" THEN clerks'[k].app = NoApp ELSE clerks'[k].app \in Apps
            /\ clerks'[k].at \in {"grant", "remove"} => clerks'[k].member \in Emails \cup Groups
      BY <1>1, <2>1, <2>9 DEF AppTypes
    <3> QED BY <1>1, <2>1, <2>7, <2>8, <2>9, <3>1, <3>2, <3>3 DEF AppTypes
  <2>12. HalvesInv'
    <3>1. ASSUME NEW b \in Apps, ~Here(b), Strange(b)' PROVE intended'[b] = {}
      <4>1. b # a /\ Strange(b)
        BY <2>9, <3>1 DEF Strange
      <4> QED BY <1>1, <2>4, <3>1, <4>1 DEF AppInv, HalvesInv, AppTypes
    <3>2. ASSUME NEW k \in Clerks, clerks'[k].at = "create"
          PROVE  /\ ~Here(clerks[k].app) /\ clerks[k].app \in repos /\ intended'[clerks[k].app] = {}
                 /\ \A l \in Clerks \ {k} : clerks'[l].app # clerks[k].app
      <4>1. k # c /\ clerks[k].at = "create"
        BY <2>9, <3>2
      <4>2. clerks[k].app # a /\ clerks[k].app \in Apps
        BY <1>2, <2>1, <4>1 DEF AppInv, HalvesInv
      <4> QED BY <1>1, <2>4, <2>9, <4>1, <4>2 DEF AppInv, HalvesInv, AppTypes
    <3>3. ASSUME NEW k \in Clerks, clerks'[k].at = "delete" PROVE clerks'[k].app \notin repos
      BY <2>9, <3>3 DEF AppInv, HalvesInv
    <3>4. \A k \in Clerks : clerks'[k].at = "create" => clerks[k].app \in Apps
      BY <1>2, <2>9
    <3> QED BY <2>1, <2>8, <2>9, <3>1, <3>2, <3>3, <3>4 DEF HalvesInv
  <2>13. ReposMatchRows'
    BY <2>1, <2>8, <2>9 DEF AppInv, ReposMatchRows
  <2>14. \A b \in Apps : OneSecret(b)'
    BY <1>3, <2>1, NoSecretLost
  <2>15. ASSUME NEW b \in Apps \ contested', Here(b) PROVE rows'[b].allowed = intended'[b]
    <3>1. rows[b].allowed = intended[b]
      BY <2>4, <2>15 DEF AppInv, ListsInv
    <3>2. CASE b = a
      <4>1. ~clerks[c].raced
        BY <2>4, <2>15, <3>2
      <4>2. \A n \in Column(m) : n \in clerks[c].seen <=> n \in rows[a].allowed
        BY <2>1, <4>1 DEF AppInv, ListsInv
      <4>3. list = IF clerks[c].at = "grant" THEN rows[a].allowed \cup {m} ELSE rows[a].allowed \ {m}
        BY <2>2, <2>6, <4>2
      <4> QED BY <1>1, <2>1, <2>4, <2>7, <3>1, <3>2, <4>3 DEF AppTypes
    <3>3. CASE b # a
      BY <1>1, <2>4, <2>7, <3>1, <3>3 DEF AppTypes
    <3> QED BY <3>2, <3>3
  <2>16. ASSUME NEW k \in Clerks, clerks'[k].at \in {"grant", "remove"}, ~clerks'[k].raced,
                NEW n \in Column(clerks[k].member)
         PROVE  n \in clerks[k].seen <=> n \in rows'[clerks[k].app].allowed
    <3>1. k # c /\ clerks[k].at \in {"grant", "remove"} /\ clerks[k].app \in Apps
      BY <1>2, <2>9, <2>16
    <3>2. ~clerks[k].raced /\ ~(clerks[k].app = a /\ Column(clerks[k].member) = Column(m))
      BY <2>10, <2>16, <3>1
    <3>3. n \in clerks[k].seen <=> n \in rows[clerks[k].app].allowed
      BY <2>16, <3>1, <3>2 DEF AppInv, ListsInv
    <3>4. CASE clerks[k].app = a
      <4>1. n \notin Column(m)
        BY <2>16, <3>2, <3>4, PeopleAssumption DEF Column
      <4>2. n \in list <=> n \in rows[a].allowed
        BY <2>2, <2>6, <4>1
      <4> QED BY <2>7, <3>3, <3>4, <4>2
    <3>5. CASE clerks[k].app # a
      BY <2>7, <3>1, <3>3, <3>5
    <3> QED BY <3>4, <3>5
  <2>17. ListsInv'
    BY <2>8, <2>9, <2>15, <2>16 DEF ListsInv, Column
  <2> QED BY <2>11, <2>12, <2>13, <2>14, <2>17 DEF AppInv
<1>17. ASSUME NEW a \in Apps, Scanned(a) PROVE AppInv'
  <2>1. /\ UNCHANGED <<rows, repos, secrets, clerks, losses, intended, wrote, contested>>
        /\ kept' = kept \cup {a} /\ Here(a)
    BY <1>17 DEF Scanned
  <2>2. \A b \in Apps : Here(b)' = Here(b)
    BY <2>1 DEF Here
  <2>3. AppTypes' /\ HalvesInv'
    BY <1>1, <2>1, <2>2 DEF AppTypes, AppInv, HalvesInv, Strange, Here
  <2>4. ReposMatchRows' /\ ListsInv'
    BY <2>1, <2>2 DEF AppInv, ReposMatchRows, ListsInv, Column
  <2>5. \A b \in Apps : OneSecret(b)'
    BY <1>3, <2>1, NoSecretLost
  <2> QED BY <2>3, <2>4, <2>5 DEF AppInv
<1> QED
  BY <1>4, <1>5, <1>6, <1>7, <1>8, <1>9, <1>10, <1>11, <1>12, <1>13, <1>14, <1>15, <1>16, <1>17
     DEF AppMove, AppStep

-----------------------------------------------------------------------------
(* Both together *)

LEMMA AccountsRest == AccountInv /\ UNCHANGED accountVars => AccountInv'
<1> SUFFICES ASSUME AccountInv, UNCHANGED accountVars PROVE AccountInv'
  OBVIOUS
<1> USE DEF accountVars
<1>1. AccountTypes' /\ ReadsAreTrue'
  BY DEF AccountInv, AccountTypes, ReadsAreTrue, InProgress, Finds, ReadIsTrue, Knows,
         Administers, Admin
<1>2. AnAdminRemains' /\ OneAccountPerSubject' /\ SetupInv'
  BY DEF AccountInv, AnAdminRemains, OneAccountPerSubject, SetupInv, Admin
<1> QED BY <1>1, <1>2 DEF AccountInv

LEMMA AppsRest == AppInv /\ UNCHANGED appVars => AppInv'
<1> SUFFICES ASSUME AppInv, UNCHANGED appVars PROVE AppInv'
  OBVIOUS
<1> USE DEF appVars
<1>1. AppTypes' /\ HalvesInv'
  BY DEF AppInv, AppTypes, HalvesInv, Strange, Here
<1>2. ReposMatchRows' /\ ListsInv'
  BY DEF AppInv, ReposMatchRows, ListsInv, Column, Here
<1>3. \A a \in Apps : OneSecret(a)'
  BY NoSecretLost DEF AppInv
<1> QED BY <1>1, <1>2, <1>3 DEF AppInv

\* Accounts and apps keep their invariants, and what is served has been scanned,
\* whatever requests, logins and deploys do.
THEOREM AccessInvariant == AccessSpec => []AccessInv
<1>1. AccessInit => AccessInv
  BY AccountInitial, AppInitial DEF AccessInit, AccessInv, AppInv, AppTypes, Roles
<1>2. AccessInv /\ [AccessNext]_allAccessVars => AccessInv'
  <2> SUFFICES ASSUME AccessInv, [AccessNext]_allAccessVars PROVE AccessInv'
    OBVIOUS
  <2>1. /\ AccountInv /\ AppInv /\ badge \in [Emails -> Roles \cup {Out}] /\ served \subseteq kept
    BY DEF AccessInv
  <2>2. CASE AccountStep /\ UNCHANGED <<appVars, accessVars>>
    <3>1. UNCHANGED <<badge, served, kept>>
      BY <2>2 DEF appVars, accessVars
    <3> QED BY <2>1, <2>2, <3>1, AccountNext, AppsRest DEF AccessInv
  <2>3. ASSUME NEW c \in Clerks, AppRequest(c) PROVE AccessInv'
    <3>1. AppMove /\ UNCHANGED <<accountVars, accessVars>>
      BY <2>3 DEF AppRequest, AppMove
    <3>2. kept' = kept
      BY <2>3 DEF AppRequest, CreateRead, DeleteRead, SetRead, UnsetRead, GrantRead, RemoveRead
    <3> QED BY <2>1, <3>1, <3>2, AppNext, AccountsRest DEF AccessInv, accessVars
  <2>4. ASSUME NEW c \in Clerks, AppStep(c), UNCHANGED <<accountVars, accessVars>> PROVE AccessInv'
    <3>1. AppMove
      BY <2>4 DEF AppMove
    <3>2. kept' = kept
      BY <2>4 DEF AppStep, CreateCommit, DeleteCommit, ListCommit, RowGone, SetCommit, UnsetCommit, ClerkDies
    <3> QED BY <2>1, <2>4, <3>1, <3>2, AppNext, AccountsRest DEF AccessInv, accessVars
  <2>5. ASSUME NEW a \in Apps, Scanned(a), UNCHANGED <<accountVars, accessVars>> PROVE AccessInv'
    <3>1. AppMove
      BY <2>5 DEF AppMove
    <3>2. kept \subseteq kept'
      BY <2>5 DEF Scanned
    <3> QED BY <2>1, <2>5, <3>1, <3>2, AppNext, AccountsRest DEF AccessInv, accessVars
  <2>6. ASSUME NEW a \in Apps, Serve(a) PROVE AccessInv'
    <3>1. UNCHANGED <<accountVars, appVars, badge, kept>> /\ served' \subseteq kept
      BY <2>1, <2>6 DEF Serve, appVars
    <3> QED BY <2>1, <3>1, AccountsRest, AppsRest DEF AccessInv
  <2>7. ASSUME NEW u \in Emails, SignInAs(u) \/ SignOutOf(u) PROVE AccessInv'
    <3>1. UNCHANGED <<accountVars, appVars, served, kept>>
      BY <2>7 DEF SignInAs, SignOutOf, appVars
    <3>2. users[u].role \in Roles
      BY <2>1 DEF AccountInv, AccountTypes, UserRow
    <3>3. badge' \in [Emails -> Roles \cup {Out}]
      BY <2>1, <2>7, <3>2 DEF SignInAs, SignOutOf
    <3> QED BY <2>1, <3>1, <3>3, AccountsRest, AppsRest DEF AccessInv
  <2>8. CASE UNCHANGED allAccessVars
    <3>1. UNCHANGED <<accountVars, appVars, badge, served, kept>>
      BY <2>8 DEF allAccessVars, accessVars, appVars
    <3> QED BY <2>1, <3>1, AccountsRest, AppsRest DEF AccessInv
  <2> QED BY <2>2, <2>3, <2>4, <2>5, <2>6, <2>7, <2>8 DEF AccessNext
<1> QED BY <1>1, <1>2, PTL DEF AccessSpec

\* Every variable keeps its type, and scans, deployments and secrets refer to apps
\* that are there.
THEOREM AccessTypeCorrect == AccessSpec => []AccessTypeOK
<1>1. AccessInv => AccessTypeOK
  BY DEF AccessInv, AccountInv, AccountTypes, AppInv, AppTypes, AccessTypeOK
<1> QED BY <1>1, AccessInvariant, PTL

\* Administrators cannot lock everybody out one request at a time.
THEOREM AdminsRemain == AccessSpec => []AnAdminRemains
<1>1. AccessInv => AnAdminRemains
  BY DEF AccessInv, AccountInv
<1> QED BY <1>1, AccessInvariant, PTL

\* The wizard succeeds once, and .env holds the settings of the request that did.
THEOREM SetupHappensOnce == AccessSpec => []SetupOnce
<1>1. AccessInv => SetupOnce
  <2> SUFFICES ASSUME AccessInv, ~crossed, ~demoted, ~(deaths > 0),
                      \A d \in Desks : desks[d].at \notin {"setup", "flushed"}
               PROVE  Cardinality(setups) <= 1 /\ (setups # {} => env \in setups)
    BY DEF SetupOnce
  <2>1. setups # {} => env \in setups
    BY DEF AccessInv, AccountInv, SetupInv
  <2>2. \A e, f \in setups : e = f
    BY DEF AccessInv, AccountInv, SetupInv
  <2>3. CASE setups = {}
    BY <2>1, <2>3, FS_EmptySet
  <2>4. CASE setups # {}
    <3>1. setups = {env}
      BY <2>1, <2>2, <2>4
    <3>2. Cardinality(setups) = 1
      BY <3>1, FS_Singleton, Zenon
    <3> QED BY <2>1, <3>2
  <2> QED BY <2>3, <2>4
<1> QED BY <1>1, AccessInvariant, PTL

\* Logins that do not cross never make a second account for a subject.
THEOREM SubjectsAreUnique == AccessSpec => []OneAccountPerSubject
<1>1. AccessInv => OneAccountPerSubject
  BY DEF AccessInv, AccountInv
<1> QED BY <1>1, AccessInvariant, PTL

\* Rows and repositories come and go together, but for requests that failed or are
\* half way.
THEOREM ReposAreRight == AccessSpec => []ReposMatchRows
<1>1. AccessInv => ReposMatchRows
  BY DEF AccessInv, AppInv
<1> QED BY <1>1, AccessInvariant, PTL

\* A secret is the one that was set last, in a single row.
THEOREM SecretsAreLast == AccessSpec => []SecretIsLast
<1>1. AccessInv => SecretIsLast
  <2> SUFFICES ASSUME AccessInv, NEW a \in Apps
               PROVE  /\ {s.value : s \in secrets[a]} = {wrote[a]} \ {NoClerk}
                      /\ Cardinality(secrets[a]) <= 1
    BY DEF SecretIsLast
  <2>1. OneSecret(a)
    BY DEF AccessInv, AppInv
  <2>2. CASE secrets[a] = {} /\ wrote[a] = NoClerk
    <3>1. Cardinality(secrets[a]) <= 1
      BY <2>2, FS_EmptySet
    <3> QED BY <2>2, <3>1
  <2>3. ASSUME wrote[a] \in Clerks, NEW i \in Clerks, secrets[a] = {[id |-> i, value |-> wrote[a]]}
        PROVE  /\ {s.value : s \in secrets[a]} = {wrote[a]} \ {NoClerk}
               /\ Cardinality(secrets[a]) <= 1
    <3>1. Cardinality(secrets[a]) = 1
      BY <2>3, FS_Singleton, Zenon
    <3>2. wrote[a] # NoClerk
      BY <2>3, AppsAssumption
    <3> QED BY <2>3, <3>1, <3>2
  <2> QED BY <2>1, <2>2, <2>3 DEF OneSecret
<1> QED BY <1>1, AccessInvariant, PTL

\* nginx lets through those whom the answered grants and removals left on the
\* list, the owner, and admins and approvers: the arrays are what the requests
\* made of them unless two of them wrote at once.
THEOREM ListsAreFollowed == AccessSpec => []AccessFollowsGrants
<1>1. AccessInv => AccessFollowsGrants
  <2> SUFFICES ASSUME AccessInv, NEW u \in Emails, NEW a \in served,
                      badge[u] # Out, LookedUp(rows[a].name) = {a}, a \notin contested
               PROVE  Passes(u, rows[a].name) <=>
                        \/ badge[u] \in {"admin", "approver"}
                        \/ u = rows[a].owner \/ u \in intended[a]
                        \/ users[u].groups \cap intended[a] # {}
    BY DEF AccessFollowsGrants
  <2>1. a \in Apps /\ Here(a)
    BY DEF AccessInv, AppInv, AppTypes
  <2>2. rows[a].allowed = intended[a]
    BY <2>1 DEF AccessInv, AppInv, ListsInv
  <2>3. Passes(u, rows[a].name) <=> badge[u] \in {"admin", "approver"} \/ OnList(u, a)
    BY DEF Passes
  <2> QED BY <2>2, <2>3 DEF OnList
<1> QED BY <1>1, AccessInvariant, PTL
===============================================================================
