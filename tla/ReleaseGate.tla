----------------------------- MODULE ReleaseGate -----------------------------
(***************************************************************************)
(* What GatekeeperAI promises, whatever its processes, queues and retries: *)
(* every scan of a commit gets at most one verdict, an app only ever runs  *)
(* a commit whose verdict is "granted", and it runs one commit at a time.  *)
(***************************************************************************)
CONSTANTS Apps, Scans, AppOf

VARIABLES
    verdict,   \* [Scans -> {"open", "granted", "refused"}]
    live       \* [Apps -> SUBSET Scans]: the commits that run, at most one

gate == <<verdict, live>>

Decide(s, v) ==
    /\ verdict[s] = "open"
    /\ verdict' = [verdict EXCEPT ![s] = v]
    /\ UNCHANGED live

GoLive(s) ==
    /\ verdict[s] = "granted"
    /\ live[AppOf[s]] = {}
    /\ live' = [live EXCEPT ![AppOf[s]] = {s}]
    /\ UNCHANGED verdict

Retire(a) ==
    /\ live' = [live EXCEPT ![a] = {}]
    /\ UNCHANGED verdict

GateInit ==
    /\ verdict = [s \in Scans |-> "open"]
    /\ live = [a \in Apps |-> {}]

GateNext ==
    \/ \E s \in Scans : GoLive(s) \/ \E v \in {"granted", "refused"} : Decide(s, v)
    \/ \E a \in Apps : Retire(a)

GateSpec == GateInit /\ [][GateNext]_gate
=============================================================================
