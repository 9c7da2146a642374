----------------------------- MODULE MCGateAccess -----------------------------
(* Instances of GateAccess: a system that was just installed, and one with an *)
(* administrator, two users and an app that was scanned.                      *)
EXTENDS GateAccess, TLC

CONSTANTS e1, e2, e3, s1, g1, a1, a2, n1, n2

MCConfigs == {[map |-> [g \in Groups |-> "ic"], default |-> "ic"],
              [map |-> [g \in Groups |-> "admin"], default |-> "ic"]}

\* gka-n1-% matches the container of an app called n2 as well.
MCMatches == [n \in Names |-> IF n = n1 THEN Names ELSE {n}]

\* The users of the established system are signed in, the administrator is not.
Badges == [u \in Emails |-> IF u = e1 THEN Out ELSE "ic"]

UsedDesk == [IdleDesk EXCEPT !.at = "done"]

Established(used) ==
    /\ users = [e \in Emails |->
         [here |-> TRUE, role |-> IF e = e1 THEN "admin" ELSE "ic", password |-> e # e3,
          active |-> TRUE, subject |-> IF e = e3 THEN s1 ELSE NoSubject,
          groups |-> IF e = e3 THEN Groups ELSE {}]]
    /\ config = [map |-> [g \in Groups |-> "ic"], default |-> "ic"]
    /\ env = e1 /\ setups = {e1}
    /\ desks = [d \in Desks |-> IF d \in used THEN UsedDesk ELSE IdleDesk]
    /\ deaths = 0 /\ crossed = FALSE /\ demoted = FALSE
    /\ rows = [a \in Apps |-> IF a = a1 THEN [here |-> TRUE, owner |-> e2, name |-> n1,
                                              allowed |-> {}] ELSE NoRowYet]
    /\ repos = {a1} /\ kept = {}
    /\ secrets = [a \in Apps |-> {}]
    /\ clerks = [c \in Clerks |-> IdleClerk]
    /\ losses = 0 /\ contested = {}
    /\ intended = [a \in Apps |-> {}]
    /\ wrote = [a \in Apps |-> NoClerk]
    /\ badge = Badges /\ served = {}

\* The requests about accounts run into each other, or those about apps do: three
\* of them, or fewer with changes of who is signed in and of one account.
OnlyAccounts ==
    /\ clerks = [c \in Clerks |-> IdleClerk] /\ kept = {}
    /\ badge \in {Badges, [u \in Emails |-> Out]}
    /\ \A d \in Desks : desks[d] # UsedDesk

OnlyApps ==
    /\ \E d \in Desks : desks[d] = UsedDesk
    /\ config = [map |-> [g \in Groups |-> "ic"], default |-> "ic"]
    /\ \A d \in Desks : desks[d].email \in {NoEmail, e3}
    /\ 2 * Cardinality({d \in Desks : desks[d] \notin {IdleDesk, UsedDesk}})
         + Cardinality({u \in Emails : badge[u] # Badges[u]})
         + Cardinality({c \in Clerks : clerks[c] # IdleClerk}) <= 3
    /\ Cardinality({c \in Clerks : clerks[c].app = a2}) <= 1

OneConcern == OnlyAccounts \/ OnlyApps

Alike == Permutations(Desks) \cup Permutations(Clerks)

MCAccessInit ==
    AccessInit \/ Established({}) \/ \E d \in Desks : Established(Desks \ {d})

MCAccessSpec == MCAccessInit /\ [][AccessNext]_allAccessVars
===============================================================================
