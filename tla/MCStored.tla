------------------------------- MODULE MCStored -------------------------------
(***************************************************************************)
(* The parts that live in one organisation's database beside the runs: the  *)
(* pages of the sitemap (Pages), the results and their evidence (Results),  *)
(* the recommendations about a result (Recommendation), the permits of the  *)
(* PSI quota (Pacing), and the figures made of results (Figures).  Each is  *)
(* explored on its own: one part moves, the others stay.  What one does to  *)
(* another is an action of both: a page row is never deleted, and a result  *)
(* that is takes its recommendations.                                       *)
(***************************************************************************)
EXTENDS Pages, Results, Recommendation, Pacing, Figures, TLC

VARIABLE part

\* Two urls of one document each, which the rule for slugs puts in two groups.
SlugOf == [u \in Urls |-> IF u = "/a/1" THEN "a" ELSE "b"]
DocumentOf == [u \in Urls |-> u]

\* Scores at the boundaries of the bands and of a drop, and vitals at those of theirs.
Measured ==
  {[performance |-> s, lcp |-> 2500] : s \in {None, 100, 89}} \cup
  {[performance |-> s, lcp |-> 2501] : s \in {90, 70}} \cup
  {[performance |-> s, lcp |-> 4001] : s \in {80, 49}} \cup
  {[performance |-> 70, lcp |-> None]}

ASSUME StoredAssumption ==
  /\ PagesAssumption /\ ResultsAssumption /\ RecommendationAssumption /\ PacingAssumption
  /\ FiguresAssumption

allVars == <<part, pageVars, resultVars, recommendationVars, vars, history>>

StoredInit ==
  /\ part \in {"pages", "results", "advice", "permits", "figures"}
  /\ PagesInit /\ ResultsInit /\ RecommendationInit /\ Init /\ FiguresInit

StoredNext ==
  \/ /\ part = "pages" /\ PagesNext
     /\ UNCHANGED <<part, resultVars, recommendationVars, vars, history>>
  \/ /\ part = "results" /\ ResultsNext
     /\ UNCHANGED <<part, pageVars, recommendationVars, vars, history>>
  \/ /\ part = "advice" /\ RecommendationNext
     /\ UNCHANGED <<part, pageVars, resultVars, vars, history>>
  \/ /\ part = "permits" /\ Next
     /\ UNCHANGED <<part, pageVars, resultVars, recommendationVars, history>>
  \/ /\ part = "figures" /\ FiguresNext
     /\ UNCHANGED <<part, pageVars, resultVars, recommendationVars, vars>>

StoredSpec == StoredInit /\ [][StoredNext]_allVars

FairSpec == StoredSpec /\ Fairness

=============================================================================
