------------------------------- MODULE GateApps --------------------------------
(***************************************************************************)
(* App records: creating and deleting an app with its bare git repository  *)
(* (routers/apps.py, git_service.py), the list of users and groups allowed *)
(* to use it, and its secrets (routers/secrets.py, secrets_service.py).    *)
(*                                                                         *)
(* The repository is a directory and takes no part in the transaction that *)
(* writes the row.  The lists are arrays in the row: a handler reads the   *)
(* array, and writes the one it made of it.                                *)
(***************************************************************************)
EXTENDS GatePeople, Naturals, FiniteSets

CONSTANTS
    Apps,        \* ids of app_submissions
    NoApp,
    Names,       \* names submitters give their apps
    NoName,
    Clerks,      \* requests about apps, each used once
    NoClerk,
    MaxLosses    \* bound on handlers that die before the commit

ASSUME AppsAssumption ==
    /\ NoApp \notin Apps /\ NoClerk \notin Clerks
    /\ NoName \notin Names
    /\ MaxLosses \in Nat

VARIABLES
    rows,        \* app_submissions
    repos,       \* the repositories on disk
    kept,        \* apps with rows that refer to them (scans, deployments)
    secrets,     \* secret_store: the rows of the app's key, each named by the
                 \* request that inserted it, with the one that wrote its value
    clerks,      \* the requests
    losses,      \* handlers that died so far
    intended,    \* history: the list the committed grants and removals make
    wrote,       \* history: the request that set the secret last, if it is set
    contested    \* history: apps with an array that was written over one another
                 \* request had written since it was read

appVars == <<rows, repos, kept, secrets, clerks, losses, intended, wrote, contested>>

\* `allowed' holds the two arrays allowed_users and allowed_groups.
AppRow == [here: BOOLEAN, owner: Emails \cup {NoEmail}, name: Names \cup {NoName},
           allowed: SUBSET (Emails \cup Groups)]
NoRowYet == [here |-> FALSE, owner |-> NoEmail, name |-> NoName, allowed |-> {}]

SecretRow == [id: Clerks, value: Clerks]

\* A request: what it read of the row, and of the secret (`had').  It has
\* "failed" when the repository was made or removed and the row was not.
Clerk == [at: {"idle", "create", "delete", "grant", "remove", "set", "unset",
               "done", "refused", "failed"},
          app: Apps \cup {NoApp}, owner: Emails \cup {NoEmail}, name: Names \cup {NoName},
          member: Emails \cup Groups \cup {NoEmail}, seen: SUBSET (Emails \cup Groups),
          had: Clerks \cup {NoClerk}, raced: BOOLEAN]

IdleClerk == [at |-> "idle", app |-> NoApp, owner |-> NoEmail, name |-> NoName,
              member |-> NoEmail, seen |-> {}, had |-> NoClerk, raced |-> FALSE]

Here(a) == rows[a].here

\* The array a member belongs in.
Column(m) == IF m \in Groups THEN Groups ELSE Emails

Busy(c) == clerks[c].at \notin {"idle", "done", "refused", "failed"}

To(c, phase) == clerks' = [clerks EXCEPT ![c].at = phase]

-----------------------------------------------------------------------------
(* Creating and deleting *)

\* create_app: no app of that name and submitter was found, an id that no app
\* had is made up, and the repository with its hook is there before the row.
CreateRead(c, a, u, n) ==
    /\ clerks[c].at = "idle"
    /\ ~Here(a) /\ \A k \in Clerks : clerks[k].app # a
    /\ ~\E b \in Apps : Here(b) /\ rows[b].owner = u /\ rows[b].name = n
    /\ repos' = repos \cup {a}
    /\ clerks' = [clerks EXCEPT ![c] = [@ EXCEPT !.at = "create", !.app = a,
                                                 !.owner = u, !.name = n]]
    /\ UNCHANGED <<rows, kept, secrets, losses, intended, wrote, contested>>

CreateCommit(c) ==
    LET a == clerks[c].app IN
    /\ clerks[c].at = "create"
    /\ rows' = [rows EXCEPT ![a] = [here |-> TRUE, owner |-> clerks[c].owner,
                                    name |-> clerks[c].name, allowed |-> {}]]
    /\ To(c, "done")
    /\ UNCHANGED <<repos, kept, secrets, losses, intended, wrote, contested>>

\* The other endpoints read the row first.  Who may call them is in GateAccess.
Open(c, a, phase, m) ==
    /\ clerks[c].at = "idle" /\ Here(a)
    /\ clerks' = [clerks EXCEPT ![c] =
         [at |-> phase, app |-> a, owner |-> NoEmail, name |-> NoName, member |-> m,
          seen |-> rows[a].allowed, raced |-> FALSE,
          had |-> IF secrets[a] = {} THEN NoClerk ELSE (CHOOSE s \in secrets[a] : TRUE).id]]

\* delete_app removes the repository at once.
\* (mutant) It leaves the repository.
DeleteReadOnly(c, a) ==
    /\ Open(c, a, "delete", NoEmail)
    /\ UNCHANGED <<rows, repos, kept, secrets, losses, intended, wrote, contested>>

DeleteRead(c, a) ==
    /\ Open(c, a, "delete", NoEmail)
    /\ repos' = repos \ {a}
    /\ UNCHANGED <<rows, kept, secrets, losses, intended, wrote, contested>>

\* The row goes at the commit, unless another row refers to it; a row that is
\* already gone is deleted again without complaint.
\* (mutant) The tables have no foreign keys.
DeleteCommitAnyway(c) ==
    /\ clerks[c].at = "delete"
    /\ To(c, "done")
    /\ rows' = [rows EXCEPT ![clerks[c].app].here = FALSE]
    /\ UNCHANGED <<repos, kept, secrets, losses, intended, wrote, contested>>

DeleteCommit(c) ==
    LET a == clerks[c].app IN
    /\ clerks[c].at = "delete"
    /\ IF a \in kept \/ secrets[a] # {}
       THEN To(c, "failed") /\ UNCHANGED rows
       ELSE To(c, "done") /\ rows' = [rows EXCEPT ![a].here = FALSE]
    /\ UNCHANGED <<repos, kept, secrets, losses, intended, wrote, contested>>

\* The app gets a scan: its uploads and pushes go through the repository.
Scanned(a) ==
    /\ Here(a) /\ a \in repos /\ a \notin kept
    /\ kept' = kept \cup {a}
    /\ UNCHANGED <<rows, repos, secrets, clerks, losses, intended, wrote, contested>>

-----------------------------------------------------------------------------
(* Access lists *)

\* add_app_user and add_app_group refuse the owner and a member that is there;
\* remove_app_user and remove_app_group refuse one that is not.
GrantRead(c, a, m) ==
    /\ Here(a) /\ m \notin rows[a].allowed /\ m # rows[a].owner
    /\ Open(c, a, "grant", m)
    /\ UNCHANGED <<rows, repos, kept, secrets, losses, intended, wrote, contested>>

RemoveRead(c, a, m) ==
    /\ Here(a) /\ m \in rows[a].allowed
    /\ Open(c, a, "remove", m)
    /\ UNCHANGED <<rows, repos, kept, secrets, losses, intended, wrote, contested>>

\* The transaction of c commits, with the array in the place of the app's.
ListWritten(c, array) ==
    LET a == clerks[c].app
        m == clerks[c].member IN
    /\ rows' = [rows EXCEPT ![a].allowed = (@ \ Column(m)) \cup array]
    /\ clerks' = [k \in Clerks |->
         IF k = c THEN [clerks[k] EXCEPT !.at = "done"]
         ELSE IF clerks[k].at \in {"grant", "remove"} /\ clerks[k].app = a
                 /\ Column(clerks[k].member) = Column(m)
              THEN [clerks[k] EXCEPT !.raced = TRUE]
              ELSE clerks[k]]
    /\ contested' = IF clerks[c].raced THEN contested \cup {a} ELSE contested
    /\ intended' = [intended EXCEPT ![a] =
         IF clerks[c].at = "grant" THEN @ \cup {m} ELSE @ \ {m}]

\* (mutant) The new array is made of the member alone.
ListCommitAnew(c) ==
    /\ clerks[c].at \in {"grant", "remove"} /\ Here(clerks[c].app)
    /\ ListWritten(c, IF clerks[c].at = "grant" THEN {clerks[c].member} ELSE {})
    /\ UNCHANGED <<repos, kept, secrets, losses, wrote>>

\* The whole array is written, made of the one that was read.
ListCommit(c) ==
    LET m == clerks[c].member
        seen == clerks[c].seen \cap Column(m) IN
    /\ clerks[c].at \in {"grant", "remove"} /\ Here(clerks[c].app)
    /\ ListWritten(c, IF clerks[c].at = "grant" THEN seen \cup {m} ELSE seen \ {m})
    /\ UNCHANGED <<repos, kept, secrets, losses, wrote>>

\* The UPDATE of a row that was deleted meanwhile fails the call.
RowGone(c) ==
    /\ clerks[c].at \in {"grant", "remove", "set"} /\ ~Here(clerks[c].app)
    /\ To(c, "refused")
    /\ UNCHANGED <<rows, repos, kept, secrets, losses, intended, wrote, contested>>

-----------------------------------------------------------------------------
(* Secrets: one key of each app *)

SetRead(c, a) ==
    /\ Open(c, a, "set", NoEmail)
    /\ UNCHANGED <<rows, repos, kept, secrets, losses, intended, wrote, contested>>

\* set_secret updates the row it read, or inserts one.  The UPDATE of a row that
\* has gone fails the call, and so does the INSERT of a second row, by the unique
\* (submission, key).
\* (mutant) The table has no unique constraint.
SetCommitTwice(c) ==
    LET a == clerks[c].app
        row == {s \in secrets[a] : s.id = clerks[c].had} IN
    /\ clerks[c].at = "set" /\ Here(a)
    /\ clerks[c].had # NoClerk => row # {}
    /\ secrets' = [secrets EXCEPT ![a] = (@ \ row) \cup
         {[id |-> IF clerks[c].had = NoClerk THEN c ELSE clerks[c].had, value |-> c]}]
    /\ wrote' = [wrote EXCEPT ![a] = c]
    /\ To(c, "done")
    /\ UNCHANGED <<rows, repos, kept, losses, intended, contested>>

SetCommit(c) ==
    LET a == clerks[c].app
        had == clerks[c].had
        fits == IF had = NoClerk THEN secrets[a] = {} ELSE \E s \in secrets[a] : s.id = had IN
    /\ clerks[c].at = "set" /\ Here(a)
    /\ IF fits
       THEN /\ secrets' = [secrets EXCEPT ![a] =
                 {[id |-> IF had = NoClerk THEN c ELSE had, value |-> c]}]
            /\ wrote' = [wrote EXCEPT ![a] = c]
            /\ To(c, "done")
       ELSE To(c, "refused") /\ UNCHANGED <<secrets, wrote>>
    /\ UNCHANGED <<rows, repos, kept, losses, intended, contested>>

\* delete_secret, of the row that was read.  If it has gone the DELETE finds
\* nothing, which is not an error.
UnsetRead(c, a) ==
    /\ secrets[a] # {}
    /\ Open(c, a, "unset", NoEmail)
    /\ UNCHANGED <<rows, repos, kept, secrets, losses, intended, wrote, contested>>

UnsetCommit(c) ==
    LET a == clerks[c].app
        row == {s \in secrets[a] : s.id = clerks[c].had} IN
    /\ clerks[c].at = "unset"
    /\ secrets' = [secrets EXCEPT ![a] = @ \ row]
    /\ wrote' = [wrote EXCEPT ![a] = IF row = {} THEN @ ELSE NoClerk]
    /\ To(c, "done")
    /\ UNCHANGED <<rows, repos, kept, losses, intended, contested>>

\* The handler dies between its read and its commit.
ClerkDies(c) ==
    /\ Busy(c) /\ losses < MaxLosses
    /\ losses' = losses + 1
    /\ To(c, IF clerks[c].at \in {"create", "delete"} THEN "failed" ELSE "refused")
    /\ UNCHANGED <<rows, repos, kept, secrets, intended, wrote, contested>>

-----------------------------------------------------------------------------

AppsInit ==
    /\ rows = [a \in Apps |-> NoRowYet]
    /\ clerks = [c \in Clerks |-> IdleClerk]
    /\ repos = {} /\ kept = {}
    /\ secrets = [a \in Apps |-> {}]
    /\ losses = 0
    /\ intended = [a \in Apps |-> {}]
    /\ wrote = [a \in Apps |-> NoClerk]
    /\ contested = {}

\* The steps of the handlers once they have read.
AppStep(c) ==
    \/ CreateCommit(c) \/ DeleteCommit(c) \/ ListCommit(c) \/ RowGone(c)
    \/ SetCommit(c) \/ UnsetCommit(c) \/ ClerkDies(c)

-----------------------------------------------------------------------------
(* Properties *)

\* A row has its repository and a repository has its row, except while the app
\* is being created or deleted and after a request that did one half of that: it
\* died, or the delete was refused because scans, deployments or secrets refer
\* to the row.
ReposMatchRows ==
    \A a \in Apps :
        \/ Here(a) <=> a \in repos
        \/ \E c \in Clerks : clerks[c].app = a /\ clerks[c].at \in {"create", "delete", "failed"}

\* The secret of an app is the one its last successful request set, however the
\* requests interleave: there is never a second row, and a failed call changes
\* nothing.
SecretIsLast ==
    \A a \in Apps : {s.value : s \in secrets[a]} = {wrote[a]} \ {NoClerk}
        /\ Cardinality(secrets[a]) <= 1
===============================================================================
