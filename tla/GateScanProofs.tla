---------------------------- MODULE GateScanProofs ----------------------------
(* Theorems about GateScan, for any number of pages, findings, retries and     *)
(* faults: a green scan is earned, and a page shows what was committed.        *)
EXTENDS GateScan, WellFoundedInduction, TLAPS

-----------------------------------------------------------------------------
(* Loops over findings *)

\* Induction over the natural numbers, for a set of them.
LEMMA EveryNumber ==
    ASSUME NEW P, 0 \in P, \A n \in Nat : n \in P => n + 1 \in P
    PROVE  \A n \in Nat : n \in P
<1>1. SUFFICES ASSUME Nat \ P # {}
               PROVE  FALSE
  OBVIOUS
<1>2. PICK n \in Nat \ P : \A m \in Nat \ P : ~ <<m, n>> \in OpToRel(<, Nat)
  <2>1. Nat \ P \subseteq Nat
    OBVIOUS
  <2> QED BY <1>1, <2>1, NatLessThanWellFounded, WFMin, Zenon
<1>3. \A m \in Nat \ P : ~ m < n
  BY <1>2 DEF OpToRel
<1>4. n # 0 /\ n - 1 \in Nat /\ n - 1 < n /\ (n - 1) + 1 = n
  <2>1. n # 0
    OBVIOUS
  <2> QED BY <2>1
<1>5. n - 1 \in P
  BY <1>3, <1>4
<1> QED BY <1>4, <1>5

SoFar(W) == [worst : W, total : Nat]

LEMMA ScoresAreNumbers ==
    ASSUME NEW v
    PROVE  /\ VulnScore(v) \in 0..40 /\ VulnCap(v) \in 0..40
           /\ VulnScore(v) = 40 <=> v = "critical"
BY DEF VulnScore, VulnCap

\* A round of the loop keeps the types, and a worst severity of "critical".
LEMMA RoundKeeps ==
    ASSUME NEW W, NEW a \in SoFar(W), NEW v \in W
    PROVE  /\ WorseSeverity(a.worst, v) \in W
           /\ a.worst = "critical" \/ v = "critical" => WorseSeverity(a.worst, v) = "critical"
           /\ Least(a.total + VulnScore(v), VulnCap(v)) \in Nat
<1>1. VulnScore(a.worst) \in 0..40 /\ VulnScore(v) \in 0..40 /\ VulnCap(v) \in 0..40
  BY ScoresAreNumbers
<1>2. WorseSeverity(a.worst, v) \in W
  BY DEF SoFar, WorseSeverity
<1>3. a.worst = "critical" => WorseSeverity(a.worst, v) = "critical"
  <2>1. a.worst = "critical" => VulnScore(a.worst) = 40
    BY ScoresAreNumbers
  <2> QED BY <1>1, <2>1 DEF WorseSeverity
<1>4. a.worst # "critical" /\ v = "critical" => WorseSeverity(a.worst, v) = "critical"
  <2>1. a.worst # "critical" => VulnScore(a.worst) # 40
    BY ScoresAreNumbers
  <2>2. v = "critical" => VulnScore(v) = 40
    BY ScoresAreNumbers
  <2> QED BY <1>1, <2>1, <2>2 DEF WorseSeverity
<1>5. Least(a.total + VulnScore(v), VulnCap(v)) \in Nat
  BY <1>1 DEF SoFar, Least
<1> QED BY <1>2, <1>3, <1>4, <1>5

LEMMA SeveritiesAreListed ==
    ASSUME NEW c, c.vulns \in Seq(STRING)
    PROVE  /\ DOMAIN Severities(c) = 1..Len(Severities(c)) /\ Len(Severities(c)) \in Nat
           /\ c.node => Severities(c) = c.vulns
<1> DEFINE highs == [i \in 1..Len(c.vulns) |-> "high"]
<1>1. DOMAIN c.vulns = 1..Len(c.vulns) /\ Len(c.vulns) \in Nat
  OBVIOUS
<1>2. highs \in Seq({"high"})
  BY <1>1
<1>3. DOMAIN highs = 1..Len(highs) /\ Len(highs) \in Nat
  BY <1>1, <1>2
<1>4. Severities(c) = IF c.node THEN c.vulns ELSE highs
  BY <1>1 DEF Severities
<1> HIDE DEF highs
<1> QED BY <1>1, <1>3, <1>4

IsLoop(g, found, n) ==
    g = [i \in 0..n |->
           IF i = 0 THEN [worst |-> "none", total |-> 0]
           ELSE [worst |-> WorseSeverity(g[i - 1].worst, found[i]),
                 total |-> Least(g[i - 1].total + VulnScore(found[i]), VulnCap(found[i]))]]

\* The loop's recursive function exists.
LEMMA LoopIsDefined ==
    ASSUME NEW found, NEW n \in Nat
    PROVE  \E g : IsLoop(g, found, n)
<1> DEFINE W == {"none"} \cup {found[i] : i \in 1..n}
           first == [worst |-> "none", total |-> 0]
           Then(a, i) == [worst |-> WorseSeverity(a.worst, found[i]),
                          total |-> Least(a.total + VulnScore(found[i]), VulnCap(found[i]))]
           Runs(k) == \E g \in [0..k -> SoFar(W)] :
                        g[0] = first /\ \A i \in 1..k : g[i] = Then(g[i - 1], i)
           P == {k \in Nat : k <= n => Runs(k)}
<1>1. first \in SoFar(W)
  BY DEF SoFar
<1>2. \A i \in 1..n, a \in SoFar(W) : Then(a, i) \in SoFar(W)
  <2>1. \A i \in 1..n : found[i] \in W
    OBVIOUS
  <2> HIDE DEF W
  <2> QED BY <2>1, RoundKeeps DEF SoFar
<1>3. 0 \in P
  <2> HIDE DEF W, first, Then
  <2>1. [i \in 0..0 |-> first] \in [0..0 -> SoFar(W)] /\ [i \in 0..0 |-> first][0] = first
    BY <1>1
  <2>2. \A i \in 1..0 : FALSE
    OBVIOUS
  <2> QED BY <2>1, <2>2
<1>4. ASSUME NEW k \in Nat, k \in P
      PROVE  k + 1 \in P
  <2> HIDE DEF W, first, Then
  <2>1. SUFFICES ASSUME k + 1 <= n
                 PROVE  Runs(k + 1)
    OBVIOUS
  <2>2. PICK f \in [0..k -> SoFar(W)] : f[0] = first /\ \A i \in 1..k : f[i] = Then(f[i - 1], i)
    BY <1>4, <2>1
  <2> DEFINE g == [i \in 0..(k + 1) |-> IF i = k + 1 THEN Then(f[k], k + 1) ELSE f[i]]
  <2>3. Then(f[k], k + 1) \in SoFar(W)
    <3>1. k + 1 \in 1..n /\ k \in 0..k
      BY <2>1
    <3> QED BY <1>2, <3>1
  <2>4. g \in [0..(k + 1) -> SoFar(W)] /\ g[0] = first
    BY <2>2, <2>3
  <2>5. ASSUME NEW i \in 1..(k + 1)
        PROVE  g[i] = Then(g[i - 1], i)
    <3>1. i - 1 \in 0..(k + 1) /\ i - 1 # k + 1 /\ i \in 0..(k + 1)
      OBVIOUS
    <3>2. g[i - 1] = f[i - 1]
      BY <3>1
    <3>3. CASE i = k + 1
      BY <3>2, <3>3
    <3>4. CASE i # k + 1
      <4>1. i \in 1..k
        BY <3>4
      <4> QED BY <2>2, <3>1, <3>2, <3>4, <4>1
    <3> QED BY <3>3, <3>4
  <2> HIDE DEF g
  <2> QED BY <2>4, <2>5
<1>5. Runs(n)
  <2>1. n \in P
    <3> HIDE DEF P
    <3> QED BY <1>3, <1>4, EveryNumber
  <2> HIDE DEF Runs
  <2> QED BY <2>1
<1>6. PICK g \in [0..n -> SoFar(W)] : g[0] = first /\ \A i \in 1..n : g[i] = Then(g[i - 1], i)
  BY <1>5
<1>7. g = [i \in 0..n |-> IF i = 0 THEN first ELSE Then(g[i - 1], i)]
  <2> HIDE DEF W, first, Then
  <2> QED BY <1>6
<1> QED BY <1>7 DEF IsLoop

\* Whatever the findings and their order, the scanner has a score, and forces red
\* when one of npm's findings is critical.
LEMMA DependencyHeeds ==
    ASSUME NEW c, c.vulns \in Seq(STRING), c.node \in BOOLEAN
    PROVE  /\ DependencyRun(c) \in Result /\ DependencyRun(c).status = "ok"
           /\ c.node /\ (\E i \in DOMAIN c.vulns : c.vulns[i] = "critical") => DependencyRun(c).force
<1> DEFINE found == Severities(c)
           W == {"none"} \cup {found[i] : i \in 1..Len(found)}
           Round(h, i) == IF i = 0 THEN [worst |-> "none", total |-> 0]
                ELSE [worst |-> WorseSeverity(h[i - 1].worst, found[i]),
                      total |-> Least(h[i - 1].total + VulnScore(found[i]), VulnCap(found[i]))]
           sofar == CHOOSE g : g = [i \in 0..Len(found) |-> Round(g, i)]
<1>1. DOMAIN found = 1..Len(found) /\ Len(found) \in Nat
  BY SeveritiesAreListed
<1>4. \E g : g = [i \in 0..Len(found) |-> Round(g, i)]
  <2> HIDE DEF found
  <2>1. \E g : IsLoop(g, found, Len(found))
    BY <1>1, LoopIsDefined
  <2> QED BY <2>1 DEF IsLoop
<1>5. sofar = [i \in 0..Len(found) |-> Round(sofar, i)]
  <2> HIDE DEF found, W, Round
  <2> QED BY <1>4
<1>6. DependencyRun(c) = Scored(sofar[Len(found)].total, sofar[Len(found)].worst = "critical")
  BY DEF DependencyRun
<1> DEFINE P == {n \in Nat : n <= Len(found) =>
                   /\ sofar[n] \in SoFar(W)
                   /\ (\E i \in 1..n : found[i] = "critical") => sofar[n].worst = "critical"}
<1>7. 0 \in P
  <2>1. sofar[0] = [worst |-> "none", total |-> 0]
    <3> HIDE DEF found, sofar, W
    <3> QED BY <1>1, <1>5
  <2>2. ~ \E i \in 1..0 : found[i] = "critical"
    OBVIOUS
  <2>3. [worst |-> "none", total |-> 0] \in SoFar(W)
    BY DEF SoFar
  <2> HIDE DEF sofar, found, W
  <2> QED BY <2>1, <2>2, <2>3
<1>8. ASSUME NEW n \in Nat, n \in P
      PROVE  n + 1 \in P
  <2> HIDE DEF sofar, found, W
  <2>1. SUFFICES ASSUME n + 1 <= Len(found)
                 PROVE  /\ sofar[n + 1] \in SoFar(W)
                        /\ (\E i \in 1..(n + 1) : found[i] = "critical") => sofar[n + 1].worst = "critical"
    OBVIOUS
  <2>2. /\ sofar[n] \in SoFar(W)
        /\ (\E i \in 1..n : found[i] = "critical") => sofar[n].worst = "critical"
    BY <1>1, <1>8, <2>1
  <2>3. found[n + 1] \in W
    BY <1>1, <2>1 DEF W
  <2>4. sofar[n + 1] = [worst |-> WorseSeverity(sofar[n].worst, found[n + 1]),
                    total |-> Least(sofar[n].total + VulnScore(found[n + 1]), VulnCap(found[n + 1]))]
    <3>1. n + 1 \in 0..Len(found) /\ n + 1 # 0 /\ (n + 1) - 1 = n
      BY <1>1, <2>1
    <3>2. sofar[n + 1] = Round(sofar, n + 1)
      <4> HIDE DEF Round
      <4> QED BY <1>5, <3>1
    <3> QED BY <3>1, <3>2
  <2>5. sofar[n + 1] \in SoFar(W)
    BY <2>2, <2>3, <2>4, RoundKeeps DEF SoFar
  <2>6. ASSUME NEW i \in 1..(n + 1), found[i] = "critical"
        PROVE  sofar[n + 1].worst = "critical"
    <3>1. i \in 1..n \/ i = n + 1
      OBVIOUS
    <3> QED BY <2>2, <2>3, <2>4, <2>6, <3>1, RoundKeeps
  <2> QED BY <2>5, <2>6
<1>9. /\ sofar[Len(found)] \in SoFar(W)
      /\ (\E i \in 1..Len(found) : found[i] = "critical") => sofar[Len(found)].worst = "critical"
  <2>1. Len(found) \in P
    <3> HIDE DEF P, sofar, found, W
    <3> QED BY <1>1, <1>7, <1>8, EveryNumber
  <2> HIDE DEF sofar, found, W
  <2> QED BY <1>1, <2>1
<1>10. c.node => found = c.vulns /\ DOMAIN c.vulns = 1..Len(found)
  BY SeveritiesAreListed
<1> HIDE DEF sofar, found, W
<1> QED BY <1>6, <1>9, <1>10 DEF Scored, Result, Outcome, SoFar

-----------------------------------------------------------------------------
(* The inductive invariant *)

\* A scanner's result is one it can come to on this commit.
ResultsInv == \A s \in Scanners : results[s] = NoResult \/ results[s] \in Outcomes(s)

\* An attempt that starts over a completed scan is a retry.
RerunInv ==
    /\ reruns <= task.tries
    /\ task.at = "queued" => row.status # "complete" \/ reruns < task.tries

\* The attempt that completed the scan was the last to write the row.
RowInv ==
    /\ task.at = "publish" => row.status = "complete"
    /\ task.at \in {"extract", "scanning", "failing"} /\ reruns = 0 => row.status # "complete"

Told(page) == page.by = "complete" \/ \E i \in 1..Len(page.inbox) : page.inbox[i] = "complete"

\* Until the task starts over, a page hears of a completion only when there is
\* one, and what it shows of it is what was committed.
PagesInv ==
    \A p \in Pages : reruns = 0 =>
        /\ Told(pages[p]) => row.status = "complete"
        /\ pages[p].shown.status = "complete" => pages[p].shown = row
        /\ pages[p].at = "done" /\ pages[p].by = "complete" => pages[p].shown = row

ScanInv == ScanTypeOK /\ ResultsInv /\ GreenIsEarned /\ RerunInv /\ RowInv /\ PagesInv

-----------------------------------------------------------------------------
(* The scanners and the tier *)

LEMMA OutcomesAreResults ==
    ASSUME content \in Contents, NEW s \in Scanners
    PROVE  \A r \in Outcomes(s) : r \in Result /\ r # NoResult
<1>1. /\ content.keys \in Nat /\ content.liveKey \in BOOLEAN /\ content.node \in BOOLEAN
      /\ content.vulns \in Seq(STRING)
  BY ScanAssumption
<1>2. Failed \in Result /\ Failed # NoResult /\ Silent \in Result /\ Silent # NoResult
  BY DEF Failed, Silent, Result, Outcome, NoResult
<1>3. CASE s = "secrets"
  <2>1. SecretsRun(content) \in Result /\ SecretsRun(content) # NoResult
    BY <1>1 DEF SecretsRun, Scored, Least, Result, Outcome, NoResult
  <2> QED BY <1>2, <1>3, <2>1 DEF Outcomes
<1>4. CASE s = "dependency"
  <2>1. DependencyRun(content) \in Result /\ DependencyRun(content) # NoResult
    BY <1>1, DependencyHeeds DEF NoResult
  <2> QED BY <1>2, <1>4, <2>1 DEF Outcomes
<1>5. CASE s = "egress"
  <2>1. EgressRun(content) \in Result /\ EgressRun(content) # NoResult
    BY DEF EgressRun, Scored, Result, Outcome, NoResult
  <2> QED BY <1>5, <2>1 DEF Outcomes
<1>6. CASE s = "pii"
  <2>1. PiiRun(content) \in Result /\ PiiRun(content) # NoResult
    BY DEF PiiRun, Scored, Result, Outcome, NoResult
  <2> QED BY <1>6, <2>1 DEF Outcomes
<1>7. CASE s = "llm"
  <2>1. ASSUME NEW a \in Answers
        PROVE  LlmRun(a) \in Result /\ LlmRun(a) # NoResult
    <3>1. a.match \in BOOLEAN /\ a.flags \in Nat /\ a.caps \in Nat
      BY ScanAssumption
    <3>2. (IF a.match THEN 0 ELSE 25) + Least(10 * a.flags, 20) + 10 * a.caps \in Nat
      BY <3>1 DEF Least
    <3> QED BY <3>2 DEF LlmRun, Scored, Result, Outcome, NoResult
  <2> QED BY <1>2, <1>7, <2>1 DEF Outcomes
<1> QED BY <1>3, <1>4, <1>5, <1>6, <1>7 DEF Scanners

LEMMA TierIsOne ==
    ASSUME NEW rs \in [Scanners -> Result]
    PROVE  [status |-> "complete", tier |-> RiskTier(rs), score |-> RiskScore(rs)] \in ScanRow
<1>1. \A s \in Scanners : rs[s].score \in Nat
  BY DEF Result
<1>2. Total(rs) \in Nat
  BY <1>1 DEF Total, Scanners
<1>3. RiskTier(rs) \in {"none", "green", "yellow", "red"}
  BY DEF RiskTier
<1>4. RiskScore(rs) \in Nat
  BY <1>2 DEF RiskScore
<1> QED BY <1>3, <1>4 DEF ScanRow

\* The tier and the score of a row are of one mind.
LEMMA TierFitsScore ==
    ASSUME NEW rs \in [Scanners -> Result]
    PROVE  /\ RiskTier(rs) = "green" <=> RiskScore(rs) \in 0..29
           /\ RiskTier(rs) = "yellow" <=> RiskScore(rs) \in 30..59
           /\ (\E s \in Scanners : rs[s].force) => RiskTier(rs) = "red" /\ RiskScore(rs) >= 70
<1>1. \A s \in Scanners : rs[s].score \in Nat
  BY DEF Result
<1>2. Total(rs) \in Nat
  BY <1>1 DEF Total, Scanners
<1>3. CASE \E s \in Scanners : rs[s].force
  BY <1>2, <1>3 DEF RiskTier, RiskScore
<1>4. CASE ~ \E s \in Scanners : rs[s].force
  BY <1>2, <1>4 DEF RiskTier, RiskScore
<1> QED BY <1>3, <1>4

\* Each finding that forces red does, unless its program was not heard.
LEMMA FindingsForce ==
    ASSUME content \in Contents, \A s \in Scanners : results[s] \in Outcomes(s)
    PROVE  /\ content.liveKey /\ results["secrets"].status = "ok" => results["secrets"].force
           /\ content.pii = "high" => results["pii"].force
           /\ /\ content.node /\ (\E i \in DOMAIN content.vulns : content.vulns[i] = "critical")
              /\ results["dependency"].status = "ok"
              => results["dependency"].force
<1>1. content.liveKey \in BOOLEAN /\ content.node \in BOOLEAN /\ content.vulns \in Seq(STRING)
  BY ScanAssumption
<1>2. Failed.status = "error" /\ Silent.status = "silent"
  BY DEF Failed, Silent
<1>3. content.liveKey /\ results["secrets"].status = "ok" => results["secrets"].force
  <2>1. results["secrets"] \in {SecretsRun(content), Failed, Silent}
    BY DEF Scanners, Outcomes
  <2> QED BY <1>2, <2>1 DEF SecretsRun, Scored
<1>4. content.pii = "high" => results["pii"].force
  <2>1. results["pii"] = PiiRun(content)
    BY DEF Scanners, Outcomes
  <2>2. PiiRun(content).force = (content.pii = "high")
    BY DEF PiiRun, Scored
  <2> QED BY <2>1, <2>2
<1>5. /\ content.node /\ (\E i \in DOMAIN content.vulns : content.vulns[i] = "critical")
      /\ results["dependency"].status = "ok"
      => results["dependency"].force
  <2>1. results["dependency"] \in {DependencyRun(content), Failed, Silent}
    BY DEF Scanners, Outcomes
  <2>2. content.node /\ (\E i \in DOMAIN content.vulns : content.vulns[i] = "critical")
          => DependencyRun(content).force
    BY <1>1, DependencyHeeds
  <2> QED BY <1>2, <2>1, <2>2
<1> QED BY <1>3, <1>4, <1>5

-----------------------------------------------------------------------------
(* What a step does to pages *)

\* An event that is published.
LEMMA PublishReaches ==
    ASSUME pages \in [Pages -> Page], NEW event \in {"complete", "error"}, Publish(event)
    PROVE  /\ pages' \in [Pages -> Page]
           /\ \A p \in Pages :
                /\ pages'[p].at = pages[p].at /\ pages'[p].by = pages[p].by
                /\ pages'[p].shown = pages[p].shown
                /\ Told(pages'[p]) => Told(pages[p]) \/ event = "complete"
<1> DEFINE next(p) == IF pages[p].at \in {"subscribed", "listening"}
                      THEN [pages[p] EXCEPT !.inbox = Append(@, event)] ELSE pages[p]
<1>1. pages' = [p \in Pages |-> next(p)]
  BY DEF Publish
<1>2. ASSUME NEW p \in Pages
      PROVE  /\ next(p) \in Page
             /\ next(p).at = pages[p].at /\ next(p).by = pages[p].by
             /\ next(p).shown = pages[p].shown
             /\ Told(next(p)) => Told(pages[p]) \/ event = "complete"
  <2>1. pages[p] \in Page /\ pages[p].inbox \in Seq({"complete", "error", "failed"})
    BY DEF Page
  <2> DEFINE more == Append(pages[p].inbox, event)
  <2>2. /\ more \in Seq({"complete", "error", "failed"})
        /\ Len(more) = Len(pages[p].inbox) + 1 /\ Len(pages[p].inbox) \in Nat
        /\ \A i \in 1..Len(pages[p].inbox) : more[i] = pages[p].inbox[i]
        /\ more[Len(pages[p].inbox) + 1] = event
    BY <2>1
  <2> HIDE DEF more
  <2>3. CASE next(p) = pages[p]
    BY <2>1, <2>3
  <2>4. CASE next(p) = [pages[p] EXCEPT !.inbox = more]
    <3>1. /\ next(p) \in Page /\ next(p).at = pages[p].at /\ next(p).by = pages[p].by
          /\ next(p).shown = pages[p].shown /\ next(p).inbox = more
      BY <2>1, <2>2, <2>4 DEF Page
    <3>2. ASSUME NEW i \in 1..Len(more), more[i] = "complete", event # "complete"
          PROVE  pages[p].inbox[i] = "complete" /\ i \in 1..Len(pages[p].inbox)
      BY <2>2, <3>2
    <3>3. Told(next(p)) => Told(pages[p]) \/ event = "complete"
      BY <3>1, <3>2 DEF Told
    <3> QED BY <3>1, <3>3
  <2> QED BY <2>3, <2>4 DEF more
<1> HIDE DEF next
<1> QED BY <1>1, <1>2

\* What a page may become: it hears of a completion when there is one, and
\* shows what it did or the row.
Moves(page, new) ==
    /\ new \in Page
    /\ Told(new) => Told(page) \/ row.status = "complete"
    /\ new.shown = page.shown \/ new.shown = row
    /\ new.at = "done" /\ new.by = "complete" => new.shown = row

LEMMA PageMoves ==
    ASSUME ScanTypeOK, NEW p \in Pages, PageStep(p) \/ Break(p)
    PROVE  /\ UNCHANGED <<content, row, task, results, saved, reruns, faults>>
           /\ breaks' \in 0..MaxBreaks
           /\ \E new : Moves(pages[p], new) /\ pages' = [pages EXCEPT ![p] = new]
<1> DEFINE page == pages[p]
           Becomes(n) == Moves(page, n) /\ pages' = [pages EXCEPT ![p] = n]
<1>1. /\ page \in Page /\ page.inbox \in Seq({"complete", "error", "failed"})
      /\ page.shown \in ScanRow /\ row \in ScanRow
      /\ row.status \in {"queued", "running", "complete", "failed"}
  BY DEF ScanTypeOK, Page, ScanRow
<1>2. /\ UNCHANGED <<content, row, task, results, saved, reruns, faults>>
      /\ breaks' \in 0..MaxBreaks
  <2>1. breaks \in 0..MaxBreaks /\ MaxBreaks \in Nat
    BY ScanAssumption DEF ScanTypeOK
  <2>2. CASE PageStep(p)
    BY <2>1, <2>2 DEF PageStep, LoadPage, Subscribe, ReadRow, Receive, Refetch, StreamEnds
  <2>3. CASE Break(p)
    BY <2>1, <2>3 DEF Break
  <2> QED BY <2>2, <2>3
<1> SUFFICES \E new : Becomes(new)
  BY <1>2
\* The page goes on, and hears and shows what it did.
<1>3. ASSUME NEW phase \in {"subscribed", "listening", "dead"}, Goes(p, phase)
      PROVE  \E new : Becomes(new)
  <2> DEFINE new == [page EXCEPT !.at = phase]
  <2>1. pages' = [pages EXCEPT ![p] = new]
    BY <1>3 DEF Goes
  <2>2. /\ new \in Page /\ new.at = phase /\ new.inbox = page.inbox /\ new.by = page.by
        /\ new.shown = page.shown
    BY <1>1 DEF Page
  <2> HIDE DEF new, page
  <2>3. Moves(page, new)
    BY <2>2 DEF Moves, Told
  <2> QED BY <2>1, <2>3
<1>4. CASE LoadPage(p)
  <2> DEFINE done == [page EXCEPT !.at = "done", !.shown = row, !.by = "load"]
             waits == [page EXCEPT !.at = "connect", !.shown = row]
  <2>1. PICK new \in {done, waits} : pages' = [pages EXCEPT ![p] = new]
    BY <1>4 DEF LoadPage
  <2>2. /\ done \in Page /\ done.at = "done" /\ done.inbox = page.inbox /\ done.by = "load"
        /\ done.shown = row
    BY <1>1 DEF Page
  <2>3. /\ waits \in Page /\ waits.at = "connect" /\ waits.inbox = page.inbox /\ waits.by = page.by
        /\ waits.shown = row
    BY <1>1 DEF Page
  <2> HIDE DEF done, waits, page
  <2>4. Moves(page, done) /\ Moves(page, waits)
    BY <2>2, <2>3 DEF Moves, Told
  <2> QED BY <2>1, <2>4
<1>5. CASE ReadRow(p)
  <2>1. CASE row.status \in {"complete", "failed"}
    <3> DEFINE new == [page EXCEPT !.at = "closing", !.inbox = <<row.status>>]
    <3>1. pages' = [pages EXCEPT ![p] = new]
      BY <1>5, <2>1 DEF ReadRow
    <3>2. <<row.status>> \in Seq({"complete", "error", "failed"})
      BY <2>1
    <3>3. /\ new \in Page /\ new.at = "closing" /\ new.inbox = <<row.status>> /\ new.by = page.by
          /\ new.shown = page.shown
      BY <1>1, <3>2 DEF Page
    <3>4. Told(new) => Told(page) \/ row.status = "complete"
      BY <3>3 DEF Told
    <3> HIDE DEF new, page
    <3>5. Moves(page, new)
      BY <3>3, <3>4 DEF Moves
    <3> QED BY <3>1, <3>5
  <2>2. CASE row.status \notin {"complete", "failed"}
    <3>1. Goes(p, "listening")
      BY <1>5, <2>2 DEF ReadRow, Goes
    <3> QED BY <1>3, <3>1
  <2> QED BY <2>1, <2>2
<1>6. CASE Receive(p)
  <2> DEFINE ends == [page EXCEPT !.at = "refetch", !.inbox = <<>>, !.by = Head(page.inbox)]
             goesOn == [page EXCEPT !.inbox = Tail(page.inbox)]
  <2>1. page.inbox # <<>> /\ page.at \in {"listening", "closing"}
    BY <1>6 DEF Receive
  <2>2. /\ Head(page.inbox) = page.inbox[1] /\ 1 \in 1..Len(page.inbox)
        /\ Tail(page.inbox) \in Seq({"complete", "error", "failed"})
        /\ Len(Tail(page.inbox)) + 1 = Len(page.inbox) /\ Len(Tail(page.inbox)) \in Nat
        /\ \A i \in 1..Len(Tail(page.inbox)) : Tail(page.inbox)[i] = page.inbox[i + 1]
    BY <1>1, <2>1
  <2>3. CASE Head(page.inbox) \in {"complete", "error"}
    <3>1. pages' = [pages EXCEPT ![p] = ends]
      BY <1>6, <2>3 DEF Receive
    <3>2. /\ ends \in Page /\ ends.at = "refetch" /\ ends.inbox = <<>>
          /\ ends.by = Head(page.inbox) /\ ends.shown = page.shown
      <4>1. \A e \in {"complete", "error"} :
              LET x == [page EXCEPT !.at = "refetch", !.inbox = <<>>, !.by = e]
              IN /\ x \in Page /\ x.at = "refetch" /\ x.inbox = <<>> /\ x.by = e
                 /\ x.shown = page.shown
        <5>1. <<>> \in Seq({"complete", "error", "failed"})
          OBVIOUS
        <5> QED BY <1>1, <5>1 DEF Page
      <4> QED BY <2>3, <4>1
    <3>3. Told(ends) => Told(page)
      <4>1. \A i \in 1..Len(<<>>) : FALSE
        OBVIOUS
      <4> HIDE DEF ends, page
      <4> QED BY <2>2, <3>2, <4>1 DEF Told
    <3> HIDE DEF ends, page
    <3>4. Moves(page, ends)
      BY <3>2, <3>3 DEF Moves
    <3> QED BY <3>1, <3>4
  <2>4. CASE Head(page.inbox) \notin {"complete", "error"}
    <3>1. pages' = [pages EXCEPT ![p] = goesOn]
      BY <1>6, <2>4 DEF Receive
    <3>2. /\ goesOn \in Page /\ goesOn.at = page.at /\ goesOn.inbox = Tail(page.inbox)
          /\ goesOn.by = page.by /\ goesOn.shown = page.shown
      BY <1>1, <2>2 DEF Page
    <3>3. Told(goesOn) => Told(page)
      <4>1. \A i \in 1..Len(Tail(page.inbox)) : i + 1 \in 1..Len(page.inbox)
        <5> HIDE DEF page
        <5> QED BY <2>2
      <4> HIDE DEF goesOn, page
      <4> QED BY <2>2, <3>2, <4>1 DEF Told
    <3> HIDE DEF goesOn, page
    <3>4. Moves(page, goesOn)
      BY <2>1, <3>2, <3>3 DEF Moves
    <3> QED BY <3>1, <3>4
  <2> QED BY <2>3, <2>4
<1>7. CASE Refetch(p)
  <2> DEFINE new == [page EXCEPT !.at = "done", !.shown = row]
  <2>1. pages' = [pages EXCEPT ![p] = new]
    BY <1>7 DEF Refetch
  <2>2. /\ new \in Page /\ new.at = "done" /\ new.inbox = page.inbox /\ new.by = page.by
        /\ new.shown = row
    BY <1>1 DEF Page
  <2> HIDE DEF new, page
  <2>3. Moves(page, new)
    BY <2>2 DEF Moves, Told
  <2> QED BY <2>1, <2>3
<1>8. CASE Break(p)
  <2> DEFINE new == [page EXCEPT !.at = "done", !.by = "lost"]
  <2>1. Goes(p, "dead") \/ pages' = [pages EXCEPT ![p] = new]
    BY <1>8 DEF Break
  <2>2. /\ new \in Page /\ new.at = "done" /\ new.inbox = page.inbox /\ new.by = "lost"
        /\ new.shown = page.shown
    BY <1>1 DEF Page
  <2>3. Moves(page, new)
    <3> HIDE DEF new, page
    <3> QED BY <2>2 DEF Moves, Told
  <2> HIDE DEF new
  <2> QED BY <1>3, <2>1, <2>3
<1>9. CASE Subscribe(p)
  BY <1>3, <1>9 DEF Subscribe
<1>10. CASE StreamEnds(p)
  BY <1>3, <1>10 DEF StreamEnds
<1> HIDE DEF Becomes
<1> QED BY <1>4, <1>5, <1>6, <1>7, <1>8, <1>9, <1>10 DEF PageStep

LEMMA PageSideKeeps ==
    ASSUME ScanInv, NEW p \in Pages, PageStep(p) \/ Break(p)
    PROVE  ScanInv'
<1>1. /\ UNCHANGED <<content, row, task, results, saved, reruns, faults>>
      /\ breaks' \in 0..MaxBreaks
  BY PageMoves DEF ScanInv
<1>2. PICK new : Moves(pages[p], new) /\ pages' = [pages EXCEPT ![p] = new]
  BY PageMoves DEF ScanInv
<1>3. pages \in [Pages -> Page] /\ pages' \in [Pages -> Page]
  BY <1>2 DEF ScanInv, ScanTypeOK, Moves
<1>4. ScanTypeOK'
  BY <1>1, <1>3 DEF ScanInv, ScanTypeOK
<1>5. (ResultsInv /\ GreenIsEarned /\ RerunInv /\ RowInv)'
  BY <1>1 DEF ScanInv, ResultsInv, GreenIsEarned, Forced, RerunInv, RowInv, Outcomes
<1>6. PagesInv'
  <2>1. SUFFICES ASSUME NEW q \in Pages, reruns = 0
                 PROVE  /\ Told(pages'[q]) => row.status = "complete"
                        /\ pages'[q].shown.status = "complete" => pages'[q].shown = row
                        /\ pages'[q].at = "done" /\ pages'[q].by = "complete" => pages'[q].shown = row
    BY <1>1 DEF PagesInv, Told
  <2>2. \A x \in Pages :
          /\ Told(pages[x]) => row.status = "complete"
          /\ pages[x].shown.status = "complete" => pages[x].shown = row
          /\ pages[x].at = "done" /\ pages[x].by = "complete" => pages[x].shown = row
    BY <2>1 DEF ScanInv, PagesInv
  <2>3. pages'[q] = IF q = p THEN new ELSE pages[q]
    BY <1>2, <1>3
  <2> QED BY <1>2, <2>2, <2>3 DEF Moves
<1> QED BY <1>4, <1>5, <1>6 DEF ScanInv

-----------------------------------------------------------------------------
(* Preservation by the task *)

TaskSide == TaskStep \/ ExtractFails \/ Raise \/ Crash

LEMMA TaskSideType ==
    ASSUME ScanInv, TaskSide
    PROVE  ScanTypeOK' /\ ResultsInv' /\ content' = content
<1> USE ScanAssumption DEF ScanInv, TaskSide
<1>1. /\ content \in Contents /\ row \in ScanRow
      /\ task \in [at: {"queued", "extract", "scanning", "publish", "failing", "ended", "lost"},
                   tries: 0..MaxRetries]
      /\ results \in [Scanners -> Result] /\ saved \in [Scanners -> Outcome]
      /\ pages \in [Pages -> Page]
      /\ reruns \in 0..MaxRetries
      /\ faults \in 0..MaxFaults /\ breaks \in 0..MaxBreaks
  BY DEF ScanTypeOK
<1>2. content' = content /\ breaks' = breaks
  BY DEF TaskStep, Start, Extract, PublishFailed, Persist, PublishComplete, ScannerRuns,
         ExtractFails, Raise, Crash
<1>3. pages' \in [Pages -> Page]
  <2>1. pages' = pages \/ Publish("error") \/ Publish("complete")
    BY DEF TaskStep, Start, Extract, PublishFailed, Persist, PublishComplete, ScannerRuns,
           ExtractFails, Raise, Crash
  <2> QED BY <1>1, <2>1, PublishReaches
<1>4. NoResult \in Result /\ [s \in Scanners |-> NoResult] \in [Scanners -> Result]
  BY DEF NoResult, Result, Outcome
<1> DEFINE Rest ==
      /\ row' \in ScanRow
      /\ task' \in [at: {"queued", "extract", "scanning", "publish", "failing", "ended", "lost"},
                    tries: 0..MaxRetries]
      /\ results' \in [Scanners -> Result] /\ saved' \in [Scanners -> Outcome]
      /\ reruns' \in 0..MaxRetries
      /\ faults' \in 0..MaxFaults
      /\ \A s \in Scanners : results'[s] = NoResult \/ results'[s] \in Outcomes(s)
<1>5. ResultsInv
  OBVIOUS
<1> SUFFICES Rest
  <2>1. Rest => ScanTypeOK'
    BY <1>1, <1>2, <1>3 DEF ScanTypeOK
  <2>2. Rest => ResultsInv'
    BY <1>2 DEF ResultsInv, Outcomes
  <2> QED BY <1>2, <2>1, <2>2
<1>6. CASE Start
  <2>1. row' \in ScanRow /\ task' = [task EXCEPT !.at = "extract"]
    BY <1>1, <1>6 DEF Start, ScanRow
  <2>2. reruns' \in 0..MaxRetries
    BY <1>1, <1>6 DEF Start, RerunInv
  <2>3. Rest
    BY <1>1, <1>5, <1>6, <2>1, <2>2 DEF Start, ResultsInv
  <2> QED BY <2>3
<1>7. CASE Extract
  BY <1>1, <1>5, <1>7 DEF Extract, ResultsInv
<1>8. CASE PublishFailed
  BY <1>1, <1>5, <1>8 DEF PublishFailed, ResultsInv
<1>9. CASE Persist
  <2>1. row' \in ScanRow
    BY <1>1, <1>9, TierIsOne DEF Persist
  <2>2. saved' \in [Scanners -> Outcome]
    BY <1>1, <1>9 DEF Persist, Result
  <2> QED BY <1>1, <1>4, <1>9, <2>1, <2>2 DEF Persist
<1>10. CASE PublishComplete
  BY <1>1, <1>5, <1>10 DEF PublishComplete, ResultsInv
<1>11. ASSUME NEW s \in Scanners, ScannerRuns(s)
       PROVE  Rest
  <2>1. PICK r \in Outcomes(s) : results' = [results EXCEPT ![s] = r]
    BY <1>11 DEF ScannerRuns
  <2>2. r \in Result
    BY <1>1, OutcomesAreResults
  <2>3. /\ results' \in [Scanners -> Result]
        /\ \A x \in Scanners : results'[x] = NoResult \/ results'[x] \in Outcomes(x)
    BY <1>1, <1>5, <2>1, <2>2 DEF ResultsInv
  <2> QED BY <1>1, <1>11, <2>3 DEF ScannerRuns
<1>12. CASE ExtractFails
  <2>1. row' \in ScanRow
    BY <1>1, <1>12 DEF ExtractFails, ScanRow
  <2> QED BY <1>1, <1>5, <1>12, <2>1 DEF ExtractFails, ResultsInv
<1>13. CASE Raise
  <2>1. task' \in [at: {"queued", "extract", "scanning", "publish", "failing", "ended", "lost"},
                   tries: 0..MaxRetries]
    <3>1. task.tries \in 0..MaxRetries /\ (task.tries < MaxRetries => task.tries + 1 \in 0..MaxRetries)
      BY <1>1
    <3>2. CASE task.tries < MaxRetries
      <4>1. task' = [at |-> "queued", tries |-> task.tries + 1]
        BY <1>13, <3>2 DEF Raise
      <4> QED BY <3>1, <3>2, <4>1
    <3>3. CASE ~ (task.tries < MaxRetries)
      <4>1. task' = [task EXCEPT !.at = "ended"]
        BY <1>13, <3>3 DEF Raise
      <4> QED BY <1>1, <4>1
    <3> QED BY <3>2, <3>3
  <2> QED BY <1>1, <1>4, <1>13, <2>1 DEF Raise
<1>14. CASE Crash
  BY <1>1, <1>4, <1>14 DEF Crash
<1> HIDE DEF Rest
<1> QED BY <1>6, <1>7, <1>8, <1>9, <1>10, <1>11, <1>12, <1>13, <1>14 DEF TaskStep

LEMMA TaskSideGreen ==
    ASSUME ScanInv, TaskSide, content' = content
    PROVE  GreenIsEarned'
<1>1. CASE row' = row /\ saved' = saved
  BY <1>1 DEF ScanInv, GreenIsEarned, Forced
<1>2. CASE row'.status # "complete"
  BY <1>2 DEF GreenIsEarned
<1>3. CASE Persist
  <2>1. content \in Contents /\ results \in [Scanners -> Result]
    BY DEF ScanInv, ScanTypeOK
  <2>2. \A s \in Scanners : results[s] \in Outcomes(s)
    BY <1>3 DEF Persist, AllRan, ScanInv, ResultsInv
  <2>3. /\ row'.tier = RiskTier(results) /\ row'.score = RiskScore(results)
        /\ saved' = [s \in Scanners |-> results[s].status]
    BY <1>3 DEF Persist
  <2>4. /\ saved'["secrets"] = results["secrets"].status
        /\ saved'["dependency"] = results["dependency"].status
    BY <2>3 DEF Scanners
  <2>5. Forced' => \E s \in Scanners : results[s].force
    BY <2>1, <2>2, <2>4, FindingsForce DEF Forced, Scanners
  <2> QED BY <2>1, <2>3, <2>5, TierFitsScore DEF GreenIsEarned
<1>4. row \in [status: {"queued", "running", "complete", "failed"},
               tier: {"none", "green", "yellow", "red"}, score: Nat]
  BY DEF ScanInv, ScanTypeOK, ScanRow
<1>5. \/ row' = row /\ saved' = saved
      \/ row'.status # "complete"
      \/ Persist
  BY <1>4 DEF TaskSide, TaskStep, Start, Extract, PublishFailed, PublishComplete, ScannerRuns,
         ExtractFails, Raise, Crash
<1> QED BY <1>1, <1>2, <1>3, <1>5

\* Within one attempt the row is completed once, and last.
LEMMA TaskSideRow ==
    ASSUME ScanInv, TaskSide
    PROVE  /\ RerunInv' /\ RowInv'
           /\ reruns' = 0 => reruns = 0
           /\ reruns' = 0 => row' = row \/ row.status # "complete"
<1>1. /\ row \in [status: {"queued", "running", "complete", "failed"},
                  tier: {"none", "green", "yellow", "red"}, score: Nat]
      /\ task \in [at: {"queued", "extract", "scanning", "publish", "failing", "ended", "lost"},
                   tries: 0..MaxRetries]
      /\ reruns \in Nat /\ task.tries \in Nat
      /\ RerunInv /\ RowInv
  BY ScanAssumption DEF ScanInv, ScanTypeOK, ScanRow
<1>2. CASE Start
  <2>1. /\ row'.status = "running" /\ task'.at = "extract" /\ task'.tries = task.tries
        /\ task.at = "queued"
        /\ reruns' = IF row.status = "complete" THEN reruns + 1 ELSE reruns
    BY <1>1, <1>2 DEF Start
  <2> QED BY <1>1, <2>1 DEF RerunInv, RowInv
<1>3. CASE Extract
  BY <1>1, <1>3 DEF Extract, RerunInv, RowInv
<1>4. CASE PublishFailed
  BY <1>1, <1>4 DEF PublishFailed, RerunInv, RowInv
<1>5. CASE Persist
  BY <1>1, <1>5 DEF Persist, RerunInv, RowInv
<1>6. CASE PublishComplete
  BY <1>1, <1>6 DEF PublishComplete, RerunInv, RowInv
<1>7. ASSUME NEW s \in Scanners, ScannerRuns(s)
      PROVE  task' = task /\ row' = row /\ reruns' = reruns
  BY <1>7 DEF ScannerRuns
<1>8. CASE ExtractFails
  BY <1>1, <1>8 DEF ExtractFails, RerunInv, RowInv
<1>9. CASE Raise
  BY <1>1, <1>9 DEF Raise, RerunInv, RowInv
<1>10. CASE Crash
  BY <1>1, <1>10 DEF Crash, RerunInv, RowInv
<1>11. CASE \E s \in Scanners : ScannerRuns(s)
  BY <1>1, <1>7, <1>11 DEF RerunInv, RowInv
<1> QED
  BY <1>2, <1>3, <1>4, <1>5, <1>6, <1>8, <1>9, <1>10, <1>11 DEF TaskSide, TaskStep

LEMMA TaskSidePages ==
    ASSUME ScanInv, TaskSide
    PROVE  PagesInv'
<1>1. pages \in [Pages -> Page]
  BY DEF ScanInv, ScanTypeOK
<1>2. \/ pages' = pages
      \/ Publish("error") /\ row' = row
      \/ Publish("complete") /\ row' = row /\ row.status = "complete"
  BY DEF TaskSide, TaskStep, Start, Extract, PublishFailed, Persist, PublishComplete, ScannerRuns,
         ExtractFails, Raise, Crash, ScanInv, RowInv
<1>3. ASSUME NEW p \in Pages
      PROVE  /\ pages'[p].at = pages[p].at /\ pages'[p].by = pages[p].by
             /\ pages'[p].shown = pages[p].shown
             /\ Told(pages'[p]) => Told(pages[p]) \/ (row' = row /\ row.status = "complete")
  BY <1>1, <1>2, PublishReaches
<1>4. ASSUME NEW p \in Pages, reruns' = 0
      PROVE  /\ Told(pages'[p]) => row'.status = "complete"
             /\ pages'[p].shown.status = "complete" => pages'[p].shown = row'
             /\ pages'[p].at = "done" /\ pages'[p].by = "complete" => pages'[p].shown = row'
  <2>1. reruns = 0 /\ (row' = row \/ row.status # "complete")
    BY <1>4, TaskSideRow
  <2>2. /\ Told(pages[p]) => row.status = "complete"
        /\ pages[p].shown.status = "complete" => pages[p].shown = row
        /\ pages[p].at = "done" /\ pages[p].by = "complete" => pages[p].shown = row
    BY <2>1 DEF ScanInv, PagesInv
  <2>3. pages[p].by = "complete" => Told(pages[p])
    BY DEF Told
  <2> QED BY <1>3, <2>1, <2>2, <2>3
<1> QED BY <1>4 DEF PagesInv, Told

LEMMA ScanInvInductive == ScanInv /\ [ScanNext]_scanVars => ScanInv'
<1> SUFFICES ASSUME ScanInv, [ScanNext]_scanVars
             PROVE  ScanInv'
  OBVIOUS
<1>1. CASE UNCHANGED scanVars
  BY <1>1 DEF scanVars, ScanInv, ScanTypeOK, ResultsInv, Outcomes, GreenIsEarned, Forced, RerunInv, RowInv,
              PagesInv, Told
<1>2. CASE TaskSide
  <2>1. ScanTypeOK' /\ ResultsInv' /\ content' = content
    BY <1>2, TaskSideType
  <2>2. GreenIsEarned'
    BY <1>2, <2>1, TaskSideGreen
  <2>3. RerunInv' /\ RowInv' /\ PagesInv'
    BY <1>2, TaskSideRow, TaskSidePages
  <2> QED BY <2>1, <2>2, <2>3 DEF ScanInv
<1>3. ASSUME NEW p \in Pages, PageStep(p) \/ Break(p)
      PROVE  ScanInv'
  BY <1>3, PageSideKeeps
<1> QED BY <1>1, <1>2, <1>3 DEF ScanNext, TaskSide

LEMMA ScanInvInitial == ScanInit => ScanInv
<1> SUFFICES ASSUME ScanInit
             PROVE  ScanInv
  OBVIOUS
<1>1. row \in ScanRow /\ NoResult \in Result
  BY DEF ScanInit, ScanRow, NoResult, Result, Outcome
<1>2. NewPage \in Page /\ ~ Told(NewPage)
  <2>1. <<>> \in Seq({"complete", "error", "failed"}) /\ \A i \in 1..Len(<<>>) : FALSE
    OBVIOUS
  <2>2. NewPage.shown \in ScanRow
    BY DEF NewPage, ScanRow
  <2> QED BY <2>1, <2>2 DEF NewPage, Page, Told
<1>3. ScanTypeOK
  BY <1>1, <1>2, ScanAssumption DEF ScanInit, ScanTypeOK, Outcome
<1>4. ResultsInv /\ GreenIsEarned /\ RerunInv /\ RowInv
  BY DEF ScanInit, ResultsInv, GreenIsEarned, RerunInv, RowInv
<1>5. PagesInv
  <2>1. NewPage.shown.status = "queued" /\ NewPage.at = "new"
    BY DEF NewPage
  <2> QED BY <1>2, <2>1 DEF ScanInit, PagesInv
<1> QED BY <1>3, <1>4, <1>5 DEF ScanInv

-----------------------------------------------------------------------------
(* Theorems *)

\* The inductive invariant: results come from the commit, a row is completed once in
\* an attempt, and pages hear of it only then (pipeline.py, scans.py).
THEOREM ScanInvariant == ScanSpec => []ScanInv
<1>1. ScanInit => ScanInv
  BY ScanInvInitial
<1>2. ScanInv /\ [ScanNext]_scanVars => ScanInv'
  BY ScanInvInductive
<1> QED BY <1>1, <1>2, PTL DEF ScanSpec

\* The task and the pages keep their types: scores stay natural numbers whatever is
\* found, and neither retries nor attempts that start over exceed max_retries
\* (pipeline.py:80).
THEOREM ScanTypeCorrect == ScanSpec => []ScanTypeOK
<1>1. ScanInv => ScanTypeOK
  BY DEF ScanInv
<1> QED BY <1>1, ScanInvariant, PTL

\* compute_risk_tier and the scanners: no commit with a live key, a critical npm
\* vulnerability or regulated personal data comes out below red, or with a score below
\* 70, for any findings in any order, unless the program that would have found it
\* failed, on record or silently (secrets_scanner.py:34, dependency_scanner.py:65,82);
\* and the tier is the one the score stands for.
THEOREM GreenScansAreEarned == ScanSpec => []GreenIsEarned
<1>1. ScanInv => GreenIsEarned
  BY DEF ScanInv
<1> QED BY <1>1, ScanInvariant, PTL

\* The event stream and ScanStream.tsx: a page that heard of the completion, or shows
\* one, shows the row that was committed, for any number of pages, failures of the
\* task and broken connections.
THEOREM WhatIsShownIsCommitted == ScanSpec => []ShownIsCommitted
<1>1. ScanInv => ShownIsCommitted
  BY DEF ScanInv, PagesInv, ShownIsCommitted
<1> QED BY <1>1, ScanInvariant, PTL
===============================================================================
