------------------------------- MODULE Figures -------------------------------
(***************************************************************************)
(* What the screens compute from the results of one page and strategy:      *)
(* regressions, the change since the run before, the scores before the ones *)
(* shown; and from the latest results of the pages of a group: its card.    *)
(* The results come one by one and go with their runs, or as they age.      *)
(***************************************************************************)
EXTENDS Integers, Sequences, FiniteSetsExt, Null

CONSTANTS
  Measurements, \* what a run may measure: [performance, lcp], each a number or None
  limit,        \* entries the run history of a page shows
  MaxRows       \* bound: results kept at a time

\* Assumed of the constants wherever the module is used.
FiguresAssumption ==
  /\ limit \in Nat \ {0} /\ MaxRows \in Nat /\ None \notin Int
  /\ Measurements \subseteq [performance : Nat \cup {None}, lcp : Nat \cup {None}]

VARIABLE
  history  \* the results of the page by createdAt, or those of a group's pages

\* A failed audit has a row without scores.
Failed == [status |-> "error", performance |-> None, lcp |-> None]
Scores == {Failed} \cup {[status |-> "ok", performance |-> m.performance, lcp |-> m.lcp] : m \in Measurements}

FiguresTypeOK == history \in Seq(Scores) /\ Len(history) <= MaxRows

FiguresInit == history = <<>>

Record(r) == Len(history) < MaxRows /\ history' = Append(history, r)

\* Retention takes the oldest, a deleted run any one.
Discard(i) ==
  history' = SubSeq(history, 1, i - 1) \o SubSeq(history, i + 1, Len(history))

FiguresNext ==
  \/ \E r \in Scores : Record(r)
  \/ \E i \in DOMAIN history : Discard(i)

FiguresSpec == FiguresInit /\ [][FiguresNext]_history

-----------------------------------------------------------------------------
(* regression.service.ts *)

SUSTAINED_DROP == 10
SINGLE_RUN_DROP == 20

bucketOf(lcp) == IF lcp <= 2500 THEN "good" ELSE IF lcp > 4000 THEN "poor" ELSE "ni"
BUCKET_RANK == [good |-> 0, ni |-> 1, poor |-> 2]
Rank(r) == BUCKET_RANK[bucketOf(r.lcp)]

Ok == {i \in DOMAIN history : history[i].status = "ok"}

\* The newest successful result before i, 0 if there is none, and what a result says.
Previous(i) == Max({0} \cup {j \in Ok : j < i})
Snapshot(i) == IF i \in DOMAIN history THEN history[i] ELSE Failed

\* Variant: a drop against the older result is sustained, recovered or not.
DroppedOnce(current, previous, older) ==
  older # None /\ older - previous >= SUSTAINED_DROP

Sustained(current, previous, older) ==
  older # None /\ older - previous >= SUSTAINED_DROP /\ older - current >= SUSTAINED_DROP

\* What is flagged of the score and of the vital when result i is the newest.
ScoreFlag(i) ==
  LET current == Snapshot(i).performance
      previous == Snapshot(Previous(i)).performance
  IN IF None \in {current, previous} THEN "none"
     ELSE IF previous - current >= SINGLE_RUN_DROP THEN "single-run-drop"
     ELSE IF Sustained(current, previous, Snapshot(Previous(Previous(i))).performance) THEN "sustained-drop"
     ELSE "none"

\* The vital was measured by the three newest.
Vitals(i) == \A k \in {i, Previous(i), Previous(Previous(i))} : Snapshot(k).lcp # None

Downgraded(i) ==
  LET rank(k) == Rank(Snapshot(k))
  IN /\ Vitals(i)
     /\ rank(Previous(i)) > rank(Previous(Previous(i)))
     /\ rank(i) >= rank(Previous(i))

-----------------------------------------------------------------------------
(* results.service.ts, report.service.ts *)

Good(i) == history[i].performance # None

\* The run history of a page shows its newest results, failed ones too.
InHistory == {i \in DOMAIN history : i > Len(history) - limit}

\* The change since the last good score shown before.
performanceDelta(i) ==
  LET before == {j \in InHistory : j < i /\ Good(j)}
  IN IF Good(i) /\ before # {} THEN history[i].performance - history[Max(before)].performance ELSE None

\* The scores a report compares the newest result with.
previousScores ==
  LET before == {i \in 1..Len(history)-1 : history[i].status = "ok"}
  IN IF before = {} THEN None ELSE history[Max(before)].performance

scoreBand(s) == IF s < 50 THEN "fail" ELSE IF s < 90 THEN "average" ELSE "pass"

Total(d, S) == MapThenSumSet(LAMBDA i : d[i], S)
Scored == {i \in DOMAIN history : Good(i)}
Sum == Total([i \in Scored |-> history[i].performance], Scored)

\* Math.round of the quotient.
mean ==
  IF Scored = {} THEN None ELSE (2 * Sum + Cardinality(Scored)) \div (2 * Cardinality(Scored))

InBand(b) == Cardinality({i \in Scored : scoreBand(history[i].performance) = b})

unaudited(pageCount) ==
  LET rest == pageCount - (InBand("pass") + InBand("average") + InBand("fail"))
  IN IF rest > 0 THEN rest ELSE 0

worstPerformance == IF Scored = {} THEN None ELSE Min({history[i].performance : i \in Scored})

-----------------------------------------------------------------------------
(* What the figures promise. *)

\* A score that is back within ten points of every one of the three newest, or fell by
\* less than twenty this once, raises no flag; one that fell by twenty and stays ten
\* below where it fell from is flagged by the next audit too (detectRegressions).
FlagsAreEarned ==
  \A i \in Ok :
    LET before == Previous(i)
        score(k) == Snapshot(k).performance
        earlier == {score(before), score(Previous(before))} \ {None}
    IN score(i) # None =>
         /\ (\A s \in earlier : s - score(i) < SUSTAINED_DROP) => ScoreFlag(i) = "none"
         /\ ScoreFlag(before) = "single-run-drop" /\ score(Previous(before)) - score(i) >= SUSTAINED_DROP
              => ScoreFlag(i) # "none"

\* A vital that is in a worse band than before for two audits is flagged, unless it has
\* partly recovered; one that is back is not (detectRegressions).
WorseningIsTold ==
  \A i \in Ok :
    Vitals(i) =>
      LET rank(k) == Rank(Snapshot(k))
          worse(k) == rank(k) > rank(Previous(Previous(i)))
      IN Downgraded(i) <=> worse(i) /\ worse(Previous(i)) /\ rank(i) >= rank(Previous(i))

\* The changes a page's history shows add up to the change from its oldest good score to
\* its newest, whatever failed between them (getPageRunHistory), and the newest is the one
\* the report shows, unless the result before it has no score or is not shown.
ChangesAddUp ==
  LET shown == {i \in InHistory : Good(i)}
      steps == {i \in shown : performanceDelta(i) # None}
      n == Len(history)
  IN /\ shown # {} =>
          Total([i \in steps |-> performanceDelta(i)], steps)
            = history[Max(shown)].performance - history[Min(shown)].performance
     /\ n > 0 /\ Good(n) /\ previousScores # None /\ performanceDelta(n) # None =>
          performanceDelta(n) = history[n].performance - previousScores

\* A group's card accounts for each of its pages once, and its mean lies between its
\* pages and at most half a point from the exact one (computeAggregate,
\* computeDistribution, worstPerformance).
CardAddsUp ==
  /\ \A pageCount \in Len(history)..MaxRows :
       InBand("pass") + InBand("average") + InBand("fail") + unaudited(pageCount) = pageCount
  /\ (mean = None) = (Scored = {})
  /\ mean # None =>
       /\ worstPerformance <= mean /\ mean <= Max({history[i].performance : i \in Scored})
       /\ LET off == 2 * (mean * Cardinality(Scored) - Sum)
          IN -Cardinality(Scored) < off /\ off <= Cardinality(Scored)

\* Regressions, changes and the cards of groups are what they are said to be
\* (detectRegressions, getPageRunHistory, computeAggregate, computeDistribution).
FiguresTell == FlagsAreEarned /\ WorseningIsTold /\ ChangesAddUp /\ CardAddsUp

=============================================================================
