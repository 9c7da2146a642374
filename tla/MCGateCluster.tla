----------------------------- MODULE MCGateCluster ----------------------------
(* An app with three commits; deploy messages and callers are alike.          *)
EXTENDS GateCluster, TLC

In(state) == {c \in Commits : scans[c].state \in state}
Updates == {c \in Commits : scans[c].type = "update"}
Sent == {t \in Tasks : tasks[t] # IdleTask}
NoPods == \A i \in Commits : pods[i] = "none"

Bad == (Unbuildable \cup Broken) \ In({"none"})

\* Uploads, then tasks, and nothing but the tasks moves the status any more.
ReviewedBefore ==
    /\ In({"rejected"}) \cup Updates = {}
    /\ Sent # {} => In({"queued"}) = {} /\ app.status # "in_review"

\* Deploys of two commits that run into each other and into faults.
Crowd == ReviewedBefore /\ calls = 0 /\ NoPods /\ Cardinality(Sent) <= 2

\* Deploys of one good commit, started again and again.
SameCommit ==
    /\ ReviewedBefore /\ faults = 0 /\ NoPods /\ calls <= 2
    /\ Cardinality(In({"none"})) >= 2 /\ Bad = {}
    /\ \A c \in Callers : callers[c].at \in {"idle", "restart"}

\* A request that meets two deploys and the pods.
Meeting ==
    /\ ReviewedBefore /\ faults = 0 /\ calls <= 1
    /\ Cardinality(Sent) <= 2 /\ Cardinality(Bad) <= 1

\* Requests, reviews and deploys one after the other: three requests and a commit,
\* or two requests and two commits, one of them an update.
OneByOne ==
    /\ ~disturbed
    /\ Cardinality(In({"none"})) >= IF calls = 3 THEN 2 ELSE 1
    /\ Cardinality(Updates) <= 1 /\ Cardinality(Bad) <= 1
    /\ IF \E t \in Tasks : Working(t) THEN In({"queued", "rejected"}) = {}
       ELSE \A n \in Commits : jobs[n] = NoJob
    /\ ~Settled => In({"queued", "review"}) = {} /\ ~AppLocked
    /\ app.status = "in_review" => In({"queued", "review", "rejected"}) # {} \/ approved = {}

OneConcern == OneByOne \/ (disturbed /\ (Crowd \/ SameCommit \/ Meeting))

Alike == Permutations(Tasks) \cup Permutations(Callers)
===============================================================================
