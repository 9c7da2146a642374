------------------------------ MODULE MCGateScan ------------------------------
(* Commits at the edges of the scores: one finding of each kind, and several *)
(* that meet a cap or a tier's limit.                                        *)
EXTENDS GateScan

Clean == [keys |-> 0, liveKey |-> FALSE, node |-> TRUE, vulns |-> <<>>,
          urls |-> "none", pii |-> "none"]

Plain == [Clean EXCEPT !.keys = 1]

MCContents == {
    Plain,
    [Clean EXCEPT !.keys = 1, !.vulns = <<"low", "low">>],
    [Clean EXCEPT !.urls = "known", !.pii = "low"],
    [Clean EXCEPT !.vulns = <<"low", "low">>],
    [Clean EXCEPT !.keys = 3, !.urls = "unknown"],
    [Clean EXCEPT !.keys = 1, !.liveKey = TRUE, !.pii = "low"],
    [Clean EXCEPT !.vulns = <<"critical">>],
    [Clean EXCEPT !.vulns = <<"high", "critical", "low">>],
    [Clean EXCEPT !.vulns = <<"high", "high", "moderate">>],
    [Clean EXCEPT !.node = FALSE, !.vulns = <<"low", "low">>, !.urls = "known"],
    [Clean EXCEPT !.pii = "high"]}

MCAnswers == {[match |-> TRUE, flags |-> 0, caps |-> 0],
              [match |-> FALSE, flags |-> 3, caps |-> 1]}

\* Scanners that run side by side on any commit, or pages that watch a plain one
\* on which no scanner fails.
OneConcern ==
    \/ \A p \in Pages : pages[p].at = "new"
    \/ content = Plain /\ \A s \in Scanners : {results[s].status, saved[s]} \subseteq {"ok", "none"}

MCScanSpec ==
    /\ ScanInit
    /\ [][ScanNext /\ OneConcern']_scanVars
    /\ ScanFair
===============================================================================
