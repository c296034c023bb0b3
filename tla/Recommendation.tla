---------------------------- MODULE Recommendation ----------------------------
(***************************************************************************)
(* The versioned AI recommendations of one audit result: callers claim the  *)
(* next version by inserting its row, generate for minutes outside any      *)
(* transaction, and save; a claim nobody finishes grows stale and is taken  *)
(* over.                                                                    *)
(***************************************************************************)
EXTENDS Naturals, FiniteSets

CONSTANTS
  Callers,        \* invocations of getOrCreateRecommendation
  KEEP_VERSIONS,  \* rows kept by the trim
  MaxVersion      \* bound: versions in the history of one result

\* Assumed of the constants wherever the module is used.
RecommendationAssumption ==
  /\ KEEP_VERSIONS \in Nat \ {0}
  /\ MaxVersion \in Nat \ {0}

VARIABLES
  rows,       \* the Recommendation row of each version
  shown,      \* the version in the AI section of the stored markdown, 0 if none
  gone,       \* the audit result has been pruned, and its rows with it
  at,         \* where each caller is
  mine,       \* the version each caller has computed or claimed
  tookOver    \* whether a claim was ever taken over from somebody still at work

recommendationVars == <<rows, shown, gone, at, mine, tookOver>>

Version == 1..MaxVersion
\* "stale" is a row still generating STALE_GENERATING_MS after it was claimed.
RowStatus == {"absent", "generating", "stale", "complete", "failed"}

RecommendationTypeOK ==
  /\ rows \in [Version -> RowStatus]
  /\ shown \in 0..MaxVersion
  /\ gone \in BOOLEAN
  /\ at \in [Callers -> {"idle", "claim", "generate"}]
  /\ mine \in [Callers -> 0..MaxVersion]
  /\ \A c \in Callers : at[c] # "idle" => mine[c] \in Version
  /\ tookOver \in BOOLEAN

Existing == {v \in Version : rows[v] # "absent"}
Newer(v) == {u \in Existing : u > v}
IsLatest(v) == v \in Existing /\ Newer(v) = {}

RecommendationInit ==
  /\ rows = [v \in Version |-> "absent"]
  /\ shown = 0
  /\ gone = FALSE
  /\ at = [c \in Callers |-> "idle"]
  /\ mine = [c \in Callers |-> 0]
  /\ tookOver = FALSE

-----------------------------------------------------------------------------

\* Variant: a claim is never stale.
BusyForEver == \E v \in Version : IsLatest(v) /\ rows[v] \in {"generating", "stale"}

\* Variant: the claim of another caller is not looked at.
NeverBusy == FALSE

\* Somebody else is mid-generation, and not for too long.
Busy == \E v \in Version : IsLatest(v) /\ rows[v] = "generating"

\* The latest row is read, and the next version computed from it.  A complete
\* latest row answers an unforced call from the cache, which changes nothing.
Ask(c) ==
  /\ at[c] = "idle"
  /\ ~gone
  /\ ~Busy
  /\ \E v \in Version :
       /\ IF Existing = {} THEN v = 1 ELSE v > 1 /\ IsLatest(v - 1)
       /\ mine' = [mine EXCEPT ![c] = v]
  /\ at' = [at EXCEPT ![c] = "claim"]
  /\ UNCHANGED <<rows, shown, gone, tookOver>>

\* The owner of an older version is still at work on it, on a claim grown stale.
OverrunBy(c) ==
  \E d \in Callers : at[d] = "generate" /\ mine[d] < mine[c] /\ rows[mine[d]] = "stale"

\* Bound: the read and the insert are milliseconds apart; KEEP_VERSIONS answers are
\* not generated in between.
Prompt(c) == Cardinality(Newer(mine[c])) < KEEP_VERSIONS

\* Variant: an upsert instead of INSERT .. ON CONFLICT DO NOTHING.
ClaimByUpsert(c) ==
  /\ at[c] = "claim"
  /\ ~gone
  /\ rows' = [rows EXCEPT ![mine[c]] = "generating"]
  /\ at' = [at EXCEPT ![c] = "generate"]
  /\ tookOver' = (tookOver \/ OverrunBy(c))
  /\ UNCHANGED <<shown, gone, mine>>

\* The insert: one of those that computed the same version gets it.
Claim(c) ==
  /\ at[c] = "claim"
  /\ Prompt(c)
  /\ \/ /\ ~gone
        /\ rows[mine[c]] = "absent"
        /\ rows' = [rows EXCEPT ![mine[c]] = "generating"]
        /\ at' = [at EXCEPT ![c] = "generate"]
        /\ tookOver' = (tookOver \/ OverrunBy(c))
     \/ /\ gone \/ rows[mine[c]] # "absent"
        /\ at' = [at EXCEPT ![c] = "idle"]
        /\ UNCHANGED <<rows, tookOver>>
  /\ UNCHANGED <<shown, gone, mine>>

\* Variant: the trim counts one row too few.
KeptOneLess == {v \in Existing : Cardinality(Newer(v)) < KEEP_VERSIONS - 1}

\* What the trim leaves: the newest rows, whatever their status.
Kept == {v \in Existing : Cardinality(Newer(v)) < KEEP_VERSIONS}

\* The saving transaction: the row, the markdown and the trim.  It fails as a whole
\* when the row is no longer there, and so does the update that marks it failed.
Save(c) ==
  /\ at[c] = "generate"
  /\ \/ /\ mine[c] \in Existing
        /\ rows' = [v \in Version |->
                      IF v \notin Kept THEN "absent"
                      ELSE IF v = mine[c] THEN "complete" ELSE rows[v]]
        /\ shown' = mine[c]
     \/ /\ mine[c] \notin Existing
        /\ UNCHANGED <<rows, shown>>
  /\ at' = [at EXCEPT ![c] = "idle"]
  /\ UNCHANGED <<gone, mine, tookOver>>

\* The provider fails or returns nothing: the claim is released as failed.
GenerationFails(c) ==
  /\ at[c] = "generate"
  /\ rows' = IF mine[c] \in Existing THEN [rows EXCEPT ![mine[c]] = "failed"] ELSE rows
  /\ at' = [at EXCEPT ![c] = "idle"]
  /\ UNCHANGED <<shown, gone, mine, tookOver>>

\* The invocation dies and leaves its claim behind.
CallerDies(c) ==
  /\ at[c] # "idle"
  /\ at' = [at EXCEPT ![c] = "idle"]
  /\ UNCHANGED <<rows, shown, gone, mine, tookOver>>

GrowStale(v) ==
  /\ rows[v] = "generating"
  /\ rows' = [rows EXCEPT ![v] = "stale"]
  /\ UNCHANGED <<shown, gone, at, mine, tookOver>>

\* Retention deletes the audit result; its recommendations cascade.
Prune ==
  /\ ~gone
  /\ gone' = TRUE
  /\ rows' = [v \in Version |-> "absent"]
  /\ shown' = 0
  /\ UNCHANGED <<at, mine, tookOver>>

Works(c) == Claim(c) \/ Save(c) \/ GenerationFails(c)

RecommendationNext ==
  \/ \E c \in Callers : Ask(c) \/ Works(c) \/ CallerDies(c)
  \/ \E v \in Version : GrowStale(v)
  \/ Prune

RecommendationSpec == RecommendationInit /\ [][RecommendationNext]_recommendationVars

(***************************************************************************)
(* A caller that claimed works until it saves, fails or dies, and time      *)
(* passes; nobody is obliged to ask.                                        *)
(***************************************************************************)
Fairness ==
  /\ \A c \in Callers : WF_recommendationVars(Works(c))
  /\ \A v \in Version : WF_recommendationVars(GrowStale(v))

-----------------------------------------------------------------------------

\* A version is generated by one caller: of those that computed the same number,
\* the insert lets one through, also when the trim has been over the history.
OneOwner ==
  \A c, d \in Callers :
    at[c] = "generate" /\ at[d] = "generate" /\ mine[c] = mine[d] /\ ~gone => c = d

\* "Keep the stored markdown in step with the newest answer": it shows the newest
\* complete version, unless a generator was overtaken by one that took over its
\* stale claim.
InStep ==
  tookOver \/ shown = 0 \/ ~\E v \in Existing : v > shown /\ rows[v] = "complete"

\* Regenerating keeps the old answer: one is dropped only with its result, or when
\* KEEP_VERSIONS rows are newer than it.
AnswersSurvive ==
  [][\A v \in Version :
       rows[v] = "complete" =>
         rows'[v] = "complete" \/ gone' \/ Cardinality(Newer(v)) >= KEEP_VERSIONS]_recommendationVars

\* The callers, their deaths and the claims that grow stale leave a history in which each
\* version is begun once, on top of the others, and finished once: Recommendation
\* implements AdviceLog (getOrCreateRecommendation).
VersionsIn(statuses) == {v \in Version : rows[v] \in statuses}
Log == INSTANCE AdviceLog WITH
  open <- VersionsIn({"generating", "stale"}), answered <- VersionsIn({"complete"}),
  failed <- VersionsIn({"failed"}), over <- gone
AdviceIsLinear == Log!Spec

\* "A crash would otherwise hold the slot forever": it never does.
SlotReopens == []<>~Busy

=============================================================================
