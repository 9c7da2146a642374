------------------------------- MODULE GateScan -------------------------------
(***************************************************************************)
(* One scan from inside: the five scanners that run_scan_pipeline          *)
(* (app/scanners/pipeline.py) runs in threads, the tier that               *)
(* compute_risk_tier makes of their results, the retries of the task, and  *)
(* the pages that watch the scan through the event stream (routers/scans.py*)
(* and ScanStream.tsx).  GateReview models what the outcome does to the    *)
(* app; here it is only a scan row.                                        *)
(*                                                                         *)
(* Events go through Redis pub/sub: those published before a subscription  *)
(* are lost to it.  Only the events that end a page's wait are modelled    *)
(* (complete, error, and the one the stream makes up); the others move the *)
(* progress ring.                                                          *)
(***************************************************************************)
EXTENDS Naturals, Sequences

CONSTANTS
    Contents,    \* commits, by what the scanners find in them
    Answers,     \* what the language model may say of one
    Pages,       \* browser pages on the scan
    MaxRetries,  \* 2 in the code
    MaxFaults,   \* bound on exceptions and crashes of the task
    MaxBreaks    \* bound on stream connections and requests that fail

ASSUME ScanAssumption ==
    /\ Contents \subseteq
         [keys: Nat, liveKey: BOOLEAN, node: BOOLEAN, vulns: Seq(STRING),
          urls: {"none", "known", "unknown"}, pii: {"none", "low", "high"}]
    /\ Answers \subseteq [match: BOOLEAN, flags: Nat, caps: Nat]
    /\ MaxRetries \in Nat /\ MaxFaults \in Nat /\ MaxBreaks \in Nat

Scanners == {"secrets", "dependency", "egress", "pii", "llm"}

VARIABLES
    content,     \* the commit: [Contents]
    row,         \* the scan: its status, tier and score
    task,        \* the Celery task: the phase of its attempt, and retries so far
    results,     \* the results of this attempt, by scanner
    saved,       \* how each of those committed with the row last came about
    pages,       \* the pages
    reruns,      \* history: attempts that started over a completed scan
    faults, breaks

scanVars == <<content, row, task, results, saved, pages, reruns, faults, breaks>>

ScanRow == [status: {"queued", "running", "complete", "failed"},
            tier: {"none", "green", "yellow", "red"}, score: Nat]

\* How a result came about.  What a program found and what is left of one that
\* said nothing ("silent") are both stored as "passed" or "flagged"; only the
\* properties tell them apart.
Outcome == {"ok", "silent", "error", "none"}
Result == [score: Nat, force: BOOLEAN, status: Outcome]
NoResult == [score |-> 0, force |-> FALSE, status |-> "none"]

\* A page: `inbox' are the events the stream has for it, `shown' the scan it
\* shows, `by' the event that ended its wait.
Page == [at: {"new", "connect", "subscribed", "listening", "closing", "refetch",
              "done", "dead"},
         inbox: Seq({"complete", "error", "failed"}), shown: ScanRow,
         by: {"none", "load", "complete", "error", "lost"}]

-----------------------------------------------------------------------------
(* The scanners *)

Least(m, n) == IF m <= n THEN m ELSE n

Scored(score, force) == [score |-> score, force |-> force, status |-> "ok"]
Failed == [score |-> 0, force |-> FALSE, status |-> "error"]
Silent == [score |-> 0, force |-> FALSE, status |-> "silent"]

\* SecretsScanner.run: a live key costs 50 and forces red.
SecretsRun(c) ==
    IF c.liveKey THEN Scored(50, TRUE) ELSE Scored(Least(25 * c.keys, 40), FALSE)

VulnScore(v) == CASE v = "critical" -> 40 [] v = "high" -> 20 [] v = "medium" -> 10
                  [] v = "low" -> 2 [] OTHER -> 0
VulnCap(v) == CASE v = "critical" -> 40 [] v = "high" -> 35 [] v = "low" -> 5
                [] OTHER -> 20

\* pip-audit gives no severities, and npm's "moderate" is not in the tables.
Severities(c) ==
    IF c.node THEN c.vulns ELSE [i \in DOMAIN c.vulns |-> "high"]

\* The worst severity so far.
\* (mutant) The last one.
LaterSeverity(worst, v) == v

WorseSeverity(worst, v) == IF VulnScore(v) > VulnScore(worst) THEN v ELSE worst

\* The parsers' loop over the findings.  The total is cut to the cap of each
\* severity as it comes, so that a later lighter one lowers it.
DependencyRun(c) ==
    LET found == Severities(c)
        sofar[i \in 0..Len(found)] ==
            IF i = 0 THEN [worst |-> "none", total |-> 0]
            ELSE [worst |-> WorseSeverity(sofar[i - 1].worst, found[i]),
                  total |-> Least(sofar[i - 1].total + VulnScore(found[i]), VulnCap(found[i]))]
        all == sofar[Len(found)]
    IN Scored(all.total, all.worst = "critical")

EgressRun(c) ==
    Scored(CASE c.urls = "none" -> 0 [] c.urls = "known" -> 10 [] OTHER -> 20, FALSE)

PiiRun(c) ==
    Scored(CASE c.pii = "none" -> 0 [] c.pii = "low" -> 20 [] OTHER -> 40, c.pii = "high")

LlmRun(answer) ==
    Scored((IF answer.match THEN 0 ELSE 25) + Least(10 * answer.flags, 20) + 10 * answer.caps,
           FALSE)

\* The programs the first two run, and the model the last one asks, may fail;
\* that scanner then has a result that adds nothing.  It is an error if the program
\* is missing, takes too long or writes no JSON.  The exit code is not looked at: a
\* program that dies without output, or npm's JSON with an error and no
\* vulnerabilities, has found nothing.
Outcomes(s) ==
    CASE s = "secrets" -> {SecretsRun(content), Failed, Silent}
      [] s = "dependency" -> {DependencyRun(content), Failed, Silent}
      [] s = "egress" -> {EgressRun(content)}
      [] s = "pii" -> {PiiRun(content)}
      [] s = "llm" -> {LlmRun(a) : a \in Answers} \cup {Failed}

Total(rs) ==
    rs["secrets"].score + rs["dependency"].score + rs["egress"].score
        + rs["pii"].score + rs["llm"].score

\* compute_risk_tier
RiskTier(rs) ==
    IF \E s \in Scanners : rs[s].force THEN "red"
    ELSE IF Total(rs) <= 29 THEN "green" ELSE IF Total(rs) <= 59 THEN "yellow" ELSE "red"

RiskScore(rs) ==
    IF (\E s \in Scanners : rs[s].force) /\ Total(rs) < 70 THEN 70 ELSE Total(rs)

-----------------------------------------------------------------------------
(* The task *)

\* _publish reaches the pages whose stream is subscribed.
Publish(event) ==
    pages' = [p \in Pages |->
        IF pages[p].at \in {"subscribed", "listening"}
        THEN [pages[p] EXCEPT !.inbox = Append(@, event)]
        ELSE pages[p]]

Start ==
    /\ task.at = "queued"
    /\ row' = [row EXCEPT !.status = "running"]
    /\ task' = [task EXCEPT !.at = "extract"]
    /\ reruns' = IF row.status = "complete" THEN reruns + 1 ELSE reruns
    /\ UNCHANGED <<content, results, saved, pages, faults, breaks>>

Extract ==
    /\ task.at = "extract"
    /\ task' = [task EXCEPT !.at = "scanning"]
    /\ UNCHANGED <<content, row, results, saved, pages, reruns, faults, breaks>>

\* git archive fails (the repository or the commit is gone): _fail_scan commits,
\* and then publishes.
ExtractFails ==
    /\ task.at = "extract" /\ faults < MaxFaults
    /\ faults' = faults + 1
    /\ row' = [row EXCEPT !.status = "failed"]
    /\ task' = [task EXCEPT !.at = "failing"]
    /\ UNCHANGED <<content, results, saved, pages, reruns, breaks>>

PublishFailed ==
    /\ task.at = "failing"
    /\ Publish("error")
    /\ task' = [task EXCEPT !.at = "ended"]
    /\ UNCHANGED <<content, row, results, saved, reruns, faults, breaks>>

\* _run_scanner_sync, in a thread of its own.
ScannerRuns(s) ==
    /\ task.at = "scanning" /\ results[s] = NoResult
    /\ \E r \in Outcomes(s) : results' = [results EXCEPT ![s] = r]
    /\ UNCHANGED <<content, row, task, saved, pages, reruns, faults, breaks>>

AllRan == \A s \in Scanners : results[s] # NoResult

\* The results, the row (and the app) in one transaction, then the event.
Persist ==
    /\ task.at = "scanning" /\ AllRan
    /\ row' = [status |-> "complete", tier |-> RiskTier(results), score |-> RiskScore(results)]
    /\ saved' = [s \in Scanners |-> results[s].status]
    /\ results' = [s \in Scanners |-> NoResult]
    /\ task' = [task EXCEPT !.at = "publish"]
    /\ UNCHANGED <<content, pages, reruns, faults, breaks>>

PublishComplete ==
    /\ task.at = "publish"
    /\ Publish("complete")
    /\ task' = [task EXCEPT !.at = "ended"]
    /\ UNCHANGED <<content, row, results, saved, reruns, faults, breaks>>

\* An exception: the database, a scanner that raises, or, after the first commit,
\* the auto-approval or the broker.  The error is published although the task is
\* sent again.
\* (mutant) However often it failed.
RaiseAgain ==
    /\ task.at \in {"queued", "extract", "scanning", "publish"} /\ faults < MaxFaults
    /\ task.at = "scanning" => AllRan
    /\ faults' = faults + 1
    /\ Publish("error")
    /\ task' = [at |-> "queued", tries |-> task.tries + 1]
    /\ results' = [s \in Scanners |-> NoResult]
    /\ UNCHANGED <<content, row, saved, reruns, breaks>>

Raise ==
    /\ task.at \in {"queued", "extract", "scanning", "publish"} /\ faults < MaxFaults
    /\ task.at = "scanning" => AllRan
    /\ faults' = faults + 1
    /\ Publish("error")
    /\ task' = IF task.tries < MaxRetries
               THEN [at |-> "queued", tries |-> task.tries + 1]
               ELSE [task EXCEPT !.at = "ended"]
    /\ results' = [s \in Scanners |-> NoResult]
    /\ UNCHANGED <<content, row, saved, reruns, breaks>>

\* The worker dies.  The task was acknowledged when it was taken.
Crash ==
    /\ task.at \notin {"queued", "ended"} /\ faults < MaxFaults
    /\ faults' = faults + 1
    /\ task' = [task EXCEPT !.at = "lost"]
    /\ results' = [s \in Scanners |-> NoResult]
    /\ UNCHANGED <<content, row, saved, pages, reruns, breaks>>

-----------------------------------------------------------------------------
(* The pages *)

Goes(p, phase) == pages' = [pages EXCEPT ![p].at = phase]

\* The page gets the scan; a finished one needs no stream.
LoadPage(p) ==
    /\ pages[p].at = "new"
    /\ pages' = [pages EXCEPT ![p] =
         IF row.status \in {"complete", "failed"}
         THEN [@ EXCEPT !.at = "done", !.shown = row, !.by = "load"]
         ELSE [@ EXCEPT !.at = "connect", !.shown = row]]
    /\ UNCHANGED <<content, row, task, results, saved, reruns, faults, breaks>>

\* event_generator subscribes before it reads the row.
Subscribe(p) ==
    /\ pages[p].at = "connect"
    /\ Goes(p, "subscribed")
    /\ UNCHANGED <<content, row, task, results, saved, reruns, faults, breaks>>

\* A finished scan gets an event made up for it, and the stream ends after it.
\* (mutant) The stream only listens.
ReadNothing(p) ==
    /\ pages[p].at = "subscribed"
    /\ Goes(p, "listening")
    /\ UNCHANGED <<content, row, task, results, saved, reruns, faults, breaks>>

ReadRow(p) ==
    /\ pages[p].at = "subscribed"
    /\ pages' = [pages EXCEPT ![p] =
         IF row.status \in {"complete", "failed"}
         THEN [@ EXCEPT !.at = "closing", !.inbox = <<row.status>>]
         ELSE [@ EXCEPT !.at = "listening"]]
    /\ UNCHANGED <<content, row, task, results, saved, reruns, faults, breaks>>

\* onmessage: complete and error end the wait, and the scan is fetched again; a
\* made-up "failed" is shown and waited on.
Receive(p) ==
    /\ pages[p].at \in {"listening", "closing"} /\ pages[p].inbox # <<>>
    /\ LET event == Head(pages[p].inbox) IN
       pages' = [pages EXCEPT ![p] =
         IF event \in {"complete", "error"}
         THEN [@ EXCEPT !.at = "refetch", !.inbox = <<>>, !.by = event]
         ELSE [@ EXCEPT !.inbox = Tail(pages[p].inbox)]]
    /\ UNCHANGED <<content, row, task, results, saved, reruns, faults, breaks>>

\* (mutant) The page shows the scan it had.
RefetchNothing(p) ==
    /\ pages[p].at = "refetch"
    /\ Goes(p, "done")
    /\ UNCHANGED <<content, row, task, results, saved, reruns, faults, breaks>>

Refetch(p) ==
    /\ pages[p].at = "refetch"
    /\ pages' = [pages EXCEPT ![p] = [@ EXCEPT !.at = "done", !.shown = row]]
    /\ UNCHANGED <<content, row, task, results, saved, reruns, faults, breaks>>

\* onerror, also when the stream ends: the page closes it, and says nothing.
StreamEnds(p) ==
    /\ pages[p].at = "closing" /\ pages[p].inbox = <<>>
    /\ Goes(p, "dead")
    /\ UNCHANGED <<content, row, task, results, saved, reruns, faults, breaks>>

\* The connection breaks, or the second fetch fails and the page keeps what it
\* showed.
Break(p) ==
    /\ breaks < MaxBreaks
    /\ breaks' = breaks + 1
    /\ \/ pages[p].at \in {"connect", "subscribed", "listening", "closing"} /\ Goes(p, "dead")
       \/ pages[p].at = "refetch"
          /\ pages' = [pages EXCEPT ![p] = [@ EXCEPT !.at = "done", !.by = "lost"]]
    /\ UNCHANGED <<content, row, task, results, saved, reruns, faults>>

-----------------------------------------------------------------------------

NewPage == [at |-> "new", inbox |-> <<>>, by |-> "none",
            shown |-> [status |-> "queued", tier |-> "none", score |-> 0]]

ScanInit ==
    /\ content \in Contents
    /\ row = [status |-> "queued", tier |-> "none", score |-> 0]
    /\ task = [at |-> "queued", tries |-> 0]
    /\ results = [s \in Scanners |-> NoResult]
    /\ saved = [s \in Scanners |-> "none"]
    /\ pages = [p \in Pages |-> NewPage]
    /\ reruns = 0 /\ faults = 0 /\ breaks = 0

TaskStep ==
    \/ Start \/ Extract \/ PublishFailed \/ Persist \/ PublishComplete
    \/ \E s \in Scanners : ScannerRuns(s)

PageStep(p) ==
    LoadPage(p) \/ Subscribe(p) \/ ReadRow(p) \/ Receive(p) \/ Refetch(p) \/ StreamEnds(p)

ScanNext ==
    \/ TaskStep \/ ExtractFails \/ Raise \/ Crash
    \/ \E p \in Pages : PageStep(p) \/ Break(p)

ScanSpec == ScanInit /\ [][ScanNext]_scanVars

\* A worker takes the task and runs it; the API, Redis and the browser answer.
ScanFair == WF_scanVars(TaskStep) /\ \A p \in Pages : WF_scanVars(PageStep(p))

-----------------------------------------------------------------------------
(* Properties *)

ScanTypeOK ==
    /\ content \in Contents
    /\ row \in ScanRow
    /\ task \in [at: {"queued", "extract", "scanning", "publish", "failing", "ended", "lost"},
                 tries: 0..MaxRetries]
    /\ results \in [Scanners -> Result] /\ saved \in [Scanners -> Outcome]
    /\ pages \in [Pages -> Page]
    /\ reruns \in 0..MaxRetries
    /\ faults \in 0..MaxFaults /\ breaks \in 0..MaxBreaks

\* Something that forces red was found, and the program that found it was heard.
Forced ==
    \/ content.liveKey /\ saved["secrets"] = "ok"
    \/ content.pii = "high"
    \/ content.node /\ (\E i \in DOMAIN content.vulns : content.vulns[i] = "critical")
       /\ saved["dependency"] = "ok"

\* A scan never comes out below red with a live key, a critical vulnerability that
\* npm reports or regulated personal data in the commit, in whatever order the
\* findings come and the scanners finish, unless the program that would have found
\* it failed, on record or not; and the tier and the score of the row agree, at
\* both limits and at the floor of 70.
GreenIsEarned ==
    row.status = "complete" =>
        /\ Forced => row.tier = "red" /\ row.score >= 70
        /\ row.tier = "green" <=> row.score \in 0..29
        /\ row.tier = "yellow" <=> row.score \in 30..59

\* A page that was told the scan is complete shows what the row says, and a page
\* that shows a tier shows the row's, unless the task ran again over it.
ShownIsCommitted ==
    \A p \in Pages :
        pages[p].at = "done" /\ reruns = 0 =>
            /\ pages[p].by = "complete" => pages[p].shown = row
            /\ pages[p].shown.status = "complete" => pages[p].shown = row

\* A page that opens a stream stops waiting: it shows a result, unless its own
\* connection broke, the scan failed before the stream was there to say so, the
\* worker crashed, or the task has given up and left the scan as it was.
WaitEnds ==
    \A p \in Pages :
        pages[p].at = "connect" ~>
            \/ pages[p].at = "done"
            \/ pages[p].at = "dead" /\ (breaks > 0 \/ row.status = "failed")
            \/ task.at = "lost"
            \/ task.at = "ended" /\ row.status \in {"queued", "running"}
===============================================================================
