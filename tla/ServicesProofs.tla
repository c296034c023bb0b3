---------------------------- MODULE ServicesProofs ----------------------------
(***************************************************************************)
(* Theorems about the two services the platform pays for or is metered by:  *)
(* Recommendation, for any number of callers, versions and rows kept, and   *)
(* Pacing, for any number of steps, processes, databases, permits and       *)
(* windows.                                                                 *)
(***************************************************************************)
EXTENDS Recommendation, Pacing, FiniteSetTheorems, WellFoundedInduction, TLAPS

-----------------------------------------------------------------------------
(* Recommendation: types. *)

LEMMA Types ==
  ASSUME RecommendationAssumption
  PROVE  /\ RecommendationInit => RecommendationTypeOK
         /\ RecommendationTypeOK /\ [RecommendationNext]_recommendationVars => RecommendationTypeOK'
<1> USE DEF RecommendationAssumption, Version, RowStatus
<1>1. RecommendationInit => RecommendationTypeOK
  <2>1. 0 \in 0..MaxVersion
    OBVIOUS
  <2> QED BY <2>1 DEF RecommendationInit, RecommendationTypeOK
<1>2. ASSUME RecommendationTypeOK, NEW c \in Callers, Ask(c) PROVE RecommendationTypeOK'
  BY <1>2 DEF RecommendationTypeOK, Ask
<1>3. ASSUME RecommendationTypeOK, NEW c \in Callers, Claim(c) PROVE RecommendationTypeOK'
  BY <1>3 DEF RecommendationTypeOK, Claim, OverrunBy
<1>4. ASSUME RecommendationTypeOK, NEW c \in Callers, Save(c) PROVE RecommendationTypeOK'
  BY <1>4 DEF RecommendationTypeOK, Save, Existing
<1>5. ASSUME RecommendationTypeOK, NEW c \in Callers, GenerationFails(c) PROVE RecommendationTypeOK'
  BY <1>5 DEF RecommendationTypeOK, GenerationFails
<1>6. ASSUME RecommendationTypeOK, NEW c \in Callers, CallerDies(c) PROVE RecommendationTypeOK'
  BY <1>6 DEF RecommendationTypeOK, CallerDies
<1>7. ASSUME RecommendationTypeOK, NEW v \in Version, GrowStale(v) PROVE RecommendationTypeOK'
  BY <1>7 DEF RecommendationTypeOK, GrowStale
<1>8. RecommendationTypeOK /\ Prune => RecommendationTypeOK'
  BY DEF RecommendationTypeOK, Prune
<1>9. RecommendationTypeOK /\ UNCHANGED recommendationVars => RecommendationTypeOK'
  BY DEF RecommendationTypeOK, recommendationVars
<1> QED BY <1>1, <1>2, <1>3, <1>4, <1>5, <1>6, <1>7, <1>8, <1>9 DEF RecommendationNext, Works

\* Rows, pointers and callers keep their types; a caller past asking has a version.
THEOREM RecommendationTypeCorrect == ASSUME RecommendationAssumption PROVE RecommendationSpec => []RecommendationTypeOK
  BY Types, PTL DEF RecommendationSpec

-----------------------------------------------------------------------------
(* The history: what the trim leaves is enough to tell what it took. *)

\* At least as many rows as are kept are newer than v.
Buried(v) == Cardinality(Newer(v)) >= KEEP_VERSIONS

LEMMA HistoryIsFinite ==
  ASSUME RecommendationAssumption
  PROVE  /\ IsFiniteSet(Version)
         /\ \A S \in SUBSET Version : IsFiniteSet(S) /\ Cardinality(S) \in Nat
         /\ Existing \in SUBSET Version /\ Kept \in SUBSET Version
         /\ \A v : Newer(v) \in SUBSET Version
<1>1. IsFiniteSet(Version)
  BY FS_Interval DEF RecommendationAssumption, Version
<1>2. \A S \in SUBSET Version : IsFiniteSet(S) /\ Cardinality(S) \in Nat
  BY <1>1, FS_Subset, FS_CardinalityType
<1> QED BY <1>1, <1>2 DEF Existing, Kept, Newer

\* A larger set of newer rows buries as well.
LEMMA Monotone ==
  ASSUME RecommendationAssumption, NEW S \in SUBSET Version, NEW T \in SUBSET S
  PROVE  Cardinality(T) <= Cardinality(S)
  BY HistoryIsFinite, FS_Subset

LEMMA LeastNatural ==
  ASSUME NEW D \in SUBSET Nat, D # {}
  PROVE  \E n \in D : \A m \in D : n <= m
<1> DEFINE Less == {pair \in Nat \X Nat : pair[1] < pair[2]}
<1>1. IsWellFoundedOn(Less, Nat)
  BY NatLessThanWellFounded DEF OpToRel
<1>2. \A m, n \in Nat : m < n => <<m, n>> \in Less
  OBVIOUS
<1> HIDE DEF Less
<1>3. PICK n \in D : \A m \in D : <<m, n>> \notin Less
  BY <1>1, WFMin
<1>4. ASSUME NEW m \in D PROVE n <= m
  <2>1. m \in Nat /\ n \in Nat /\ ~(m < n)
    BY <1>2, <1>3
  <2> QED BY <2>1
<1> QED BY <1>4

\* A set of versions has a largest one.
LEMMA Largest ==
  ASSUME RecommendationAssumption, NEW S \in SUBSET Version, S # {}
  PROVE  \E x \in S : \A y \in S : y <= x
<1> DEFINE D == {MaxVersion - x : x \in S}
<1>1. \A x \in S : x \in Nat /\ MaxVersion - x \in Nat /\ MaxVersion \in Nat
  BY DEF RecommendationAssumption, Version
<1>2. PICK n \in D : \A m \in D : n <= m
  <2>1. D \in SUBSET Nat /\ D # {}
    BY <1>1
  <2> HIDE DEF D
  <2> QED BY <2>1, LeastNatural
<1>3. PICK x \in S : n = MaxVersion - x
  BY <1>2
<1>4. \A y \in S : MaxVersion - x <= MaxVersion - y
  BY <1>2, <1>3
<1> QED BY <1>1, <1>4

\* The trim buries nothing it did not find buried, and leaves buried what was: of
\* the rows it drops, the newest has enough kept ones above it.
LEMMA TrimKeepsEnough ==
  ASSUME RecommendationAssumption, NEW v \in Version, Buried(v)
  PROVE  Cardinality({u \in Kept : u > v}) >= KEEP_VERSIONS
<1> DEFINE Dropped == Newer(v) \ Kept
<1>1. {u \in Kept : u > v} \in SUBSET Version
  BY HistoryIsFinite
<1>2. CASE Dropped = {}
  <2>1. Newer(v) \subseteq {u \in Kept : u > v}
    BY <1>2 DEF Newer
  <2> QED BY <1>1, <2>1, Monotone, HistoryIsFinite DEF Buried, RecommendationAssumption
<1>3. CASE Dropped # {}
  <2>1. PICK x \in Dropped : \A y \in Dropped : y <= x
    BY <1>3, Largest, HistoryIsFinite
  <2>2. x > v /\ x \in Nat /\ v \in Nat /\ x \in Existing /\ ~(Cardinality(Newer(x)) < KEEP_VERSIONS)
    BY <2>1 DEF Newer, Kept, Existing, Version
  <2>3. Newer(x) \subseteq {u \in Kept : u > v}
    <3> SUFFICES ASSUME NEW u \in Newer(x) PROVE u \in Kept /\ u > v
      OBVIOUS
    <3>1. u \in Existing /\ u \in Nat /\ u > x
      BY DEF Newer, Existing, Version
    <3>2. u > v /\ u \in Newer(v)
      BY <2>2, <3>1 DEF Newer
    <3> QED BY <2>1, <2>2, <3>1, <3>2
  <2>4. Cardinality(Newer(x)) <= Cardinality({u \in Kept : u > v})
    BY <1>1, <2>3, Monotone
  <2> QED BY <1>1, <2>2, <2>4, HistoryIsFinite DEF RecommendationAssumption
<1> QED BY <1>2, <1>3

-----------------------------------------------------------------------------
(* The invariant. *)

\* Retention took the rows and what the markdown showed of them.
GoneIsEmpty == gone => Existing = {} /\ shown = 0

\* A version that is missing below another was trimmed.
GapsAreTrimmed == \A v \in Version : v \notin Existing /\ Newer(v) # {} => Buried(v)

\* The version before the one to be claimed was the latest when it was read, and
\* nobody was generating it.
AskedOnTop ==
  \A c \in Callers :
    at[c] = "claim" /\ ~gone =>
      \/ mine[c] = 1
      \/ mine[c] - 1 \in Existing /\ rows[mine[c] - 1] # "generating"
      \/ mine[c] - 1 \in Version /\ Buried(mine[c] - 1)

\* What a caller generates is still claimed, or trimmed.
ClaimsHold ==
  \A c \in Callers :
    at[c] = "generate" /\ ~gone =>
      \/ rows[mine[c]] \in {"generating", "stale"}
      \/ rows[mine[c]] = "absent" /\ Buried(mine[c])

\* A version under generation is the newest, unless a stale claim was passed by.
GeneratingIsNewest ==
  \A c \in Callers :
    at[c] = "generate" /\ mine[c] \in Existing => tookOver \/ Newer(mine[c]) = {}

AdviceInv ==
  /\ RecommendationTypeOK
  /\ GoneIsEmpty
  /\ GapsAreTrimmed
  /\ AskedOnTop
  /\ ClaimsHold
  /\ GeneratingIsNewest
  /\ OneOwner
  /\ InStep


LEMMA InitAdvice == ASSUME RecommendationAssumption, RecommendationInit PROVE AdviceInv
<1>1. RecommendationTypeOK
  BY Types
<1>2. Existing = {} /\ (\A v : Newer(v) = {}) /\ \A c \in Callers : at[c] = "idle"
  BY DEF RecommendationInit, Existing, Newer
<1> QED
  BY <1>1, <1>2 DEF RecommendationInit, AdviceInv, GoneIsEmpty, GapsAreTrimmed, AskedOnTop, ClaimsHold,
                    GeneratingIsNewest, OneOwner, InStep

\* What a row not absent, and a buried version, say.
LEMMA Rows ==
  ASSUME RecommendationAssumption, AdviceInv
  PROVE  /\ \A v \in Version : v \in Existing <=> rows[v] # "absent"
         /\ \A v \in Version : Buried(v) => \E u \in Existing : u > v
         /\ \A v \in Version : v \in Nat /\ v >= 1
         /\ \A c \in Callers : at[c] # "idle" => mine[c] \in Version
<1>1. ASSUME NEW v \in Version, Buried(v) PROVE \E u \in Existing : u > v
  <2>1. Newer(v) # {}
    BY <1>1, FS_EmptySet DEF Buried, RecommendationAssumption
  <2> QED BY <2>1 DEF Newer
<1> QED BY <1>1 DEF Existing, Version, AdviceInv, RecommendationTypeOK

\* A caller that computed the next version; the history stays.
LEMMA Asks ==
  ASSUME RecommendationAssumption, AdviceInv, NEW c \in Callers, Ask(c)
  PROVE  AdviceInv'
<1>1. RecommendationTypeOK'
  BY Types DEF AdviceInv, RecommendationNext
<1>2. /\ UNCHANGED <<rows, shown, gone, tookOver>>
      /\ \A d \in Callers : d # c => at'[d] = at[d] /\ mine'[d] = mine[d]
      /\ at'[c] = "claim"
  BY DEF Ask, AdviceInv, RecommendationTypeOK
<1>3. Existing' = Existing /\ \A v : Newer(v)' = Newer(v) /\ Buried(v)' = Buried(v)
  BY <1>2 DEF Existing, Newer, Buried
<1>4. mine'[c] = 1 \/ (mine'[c] - 1 \in Existing /\ rows[mine'[c] - 1] # "generating")
  BY DEF Ask, Busy, IsLatest, Existing, Version, AdviceInv, RecommendationTypeOK
<1>5. GoneIsEmpty' /\ GapsAreTrimmed' /\ InStep'
  BY <1>2, <1>3 DEF AdviceInv, GoneIsEmpty, GapsAreTrimmed, InStep
<1>6. AskedOnTop' /\ ClaimsHold' /\ GeneratingIsNewest' /\ OneOwner'
  BY <1>2, <1>3, <1>4 DEF AdviceInv, AskedOnTop, ClaimsHold, GeneratingIsNewest, OneOwner
<1> QED BY <1>1, <1>5, <1>6 DEF AdviceInv

\* A caller that stops, and the history stays.
LEMMA Stops ==
  ASSUME RecommendationAssumption, AdviceInv, RecommendationTypeOK', NEW c \in Callers,
         at' = [at EXCEPT ![c] = "idle"], UNCHANGED <<rows, shown, gone, mine, tookOver>>
  PROVE  AdviceInv'
<1>1. \A d \in Callers : at'[d] # "idle" => at[d] = at'[d]
  BY DEF AdviceInv, RecommendationTypeOK
<1>2. Existing' = Existing /\ \A v : Newer(v)' = Newer(v) /\ Buried(v)' = Buried(v)
  BY DEF Existing, Newer, Buried
<1>3. GoneIsEmpty' /\ GapsAreTrimmed' /\ InStep'
  BY <1>2 DEF AdviceInv, GoneIsEmpty, GapsAreTrimmed, InStep
<1>4. AskedOnTop' /\ ClaimsHold' /\ GeneratingIsNewest' /\ OneOwner'
  BY <1>1, <1>2 DEF AdviceInv, AskedOnTop, ClaimsHold, GeneratingIsNewest, OneOwner
<1> QED BY <1>3, <1>4 DEF AdviceInv

\* The insert goes through: the version is the newest, and who is still generating an
\* older one does so on a stale claim.
LEMMA Claims ==
  ASSUME RecommendationAssumption, AdviceInv, NEW c \in Callers, Claim(c),
         ~gone, rows[mine[c]] = "absent"
  PROVE  AdviceInv'
<1> DEFINE n == mine[c]
<1>1. RecommendationTypeOK'
  BY Types DEF AdviceInv, RecommendationNext, Works
<1>2. /\ at[c] = "claim" /\ n \in Version /\ ~Buried(n) /\ n \notin Existing
      /\ rows' = [rows EXCEPT ![n] = "generating"]
      /\ at' = [at EXCEPT ![c] = "generate"]
      /\ tookOver' = (tookOver \/ OverrunBy(c))
      /\ UNCHANGED <<shown, gone, mine>>
  <2>1. at[c] = "claim" /\ Prompt(c)
    BY DEF Claim
  <2>2. n \in Version /\ n \notin Existing /\ ~Buried(n)
    BY <2>1, Rows, HistoryIsFinite DEF Prompt, Buried, RecommendationAssumption
  <2> QED BY <2>1, <2>2 DEF Claim
<1>3. /\ \A d \in Callers : d # c => at'[d] = at[d]
      /\ at'[c] = "generate" /\ rows'[n] = "generating"
      /\ \A v \in Version : v # n => rows'[v] = rows[v]
  BY <1>2 DEF AdviceInv, RecommendationTypeOK
<1>4. Existing' = Existing \cup {n}
  BY <1>2, <1>3 DEF Existing
<1>5. Newer(n) = {}
  BY <1>2 DEF AdviceInv, GapsAreTrimmed
<1>6. \A v \in Version : Newer(v) \subseteq Newer(v)' /\ (Buried(v) => Buried(v)')
  <2> SUFFICES ASSUME NEW v \in Version
               PROVE  Newer(v) \subseteq Newer(v)' /\ (Buried(v) => Buried(v)')
    OBVIOUS
  <2>1. Newer(v) \subseteq Newer(v)' /\ Newer(v)' \in SUBSET Version
    BY <1>4, HistoryIsFinite, <1>2 DEF Newer
  <2>2. Cardinality(Newer(v)) <= Cardinality(Newer(v)')
    BY <2>1, Monotone
  <2>3. Cardinality(Newer(v)) \in Nat /\ Cardinality(Newer(v)') \in Nat
    BY <2>1, HistoryIsFinite
  <2> QED BY <2>1, <2>2, <2>3 DEF Buried, RecommendationAssumption
\* Below the new version, somebody is newer; so nobody below it is the newest.
<1>7. \A v \in Version : v < n =>
        \/ v = n - 1 /\ v \in Existing /\ rows[v] # "generating"
        \/ Newer(v) # {}
  <2> SUFFICES ASSUME NEW v \in Version, v < n, Newer(v) = {}
               PROVE  v = n - 1 /\ v \in Existing /\ rows[v] # "generating"
    OBVIOUS
  <2>1. v \in Nat /\ n \in Nat /\ v >= 1
    BY <1>2, Rows
  <2>2. \/ n - 1 \in Existing /\ rows[n - 1] # "generating"
        \/ n - 1 \in Version /\ Buried(n - 1)
    BY <1>2, <2>1 DEF AdviceInv, AskedOnTop
  <2>3. ASSUME n - 1 \in Version, Buried(n - 1) PROVE FALSE
    <3>1. PICK u \in Existing : u > n - 1
      BY <2>3, Rows
    <3>2. u > v
      BY <2>1, <3>1, Rows DEF Existing
    <3> QED BY <3>1, <3>2 DEF Newer
  <2>4. n - 1 \in Existing => v = n - 1
    BY <2>1 DEF Newer
  <2> QED BY <2>2, <2>3, <2>4
<1>8. ASSUME NEW d \in Callers, d # c, at[d] = "generate"
      PROVE  mine[d] # n /\ mine[d] \in Version
  BY <1>2, <1>8, Rows DEF AdviceInv, ClaimsHold
<1>9. GoneIsEmpty'
  BY <1>2 DEF GoneIsEmpty
<1>10. GapsAreTrimmed'
  <2> SUFFICES ASSUME NEW v \in Version, v \notin Existing', Newer(v)' # {}
               PROVE  Buried(v)'
    BY DEF GapsAreTrimmed
  <2>1. v \notin Existing /\ v # n
    BY <1>4
  <2>2. Newer(v) # {}
    <3>1. CASE v < n
      BY <3>1, <1>7, <2>1
    <3>2. CASE ~(v < n)
      BY <3>2, <1>2, <1>4, Rows DEF Newer
    <3> QED BY <3>1, <3>2
  <2> QED BY <2>1, <2>2, <1>6 DEF AdviceInv, GapsAreTrimmed
<1>11. AskedOnTop'
  <2> SUFFICES ASSUME NEW d \in Callers, at'[d] = "claim"
               PROVE  \/ mine[d] = 1
                      \/ mine[d] - 1 \in Existing' /\ rows'[mine[d] - 1] # "generating"
                      \/ mine[d] - 1 \in Version /\ Buried(mine[d] - 1)'
    BY <1>2 DEF AskedOnTop
  <2>1. d # c /\ at[d] = "claim"
    BY <1>3
  <2>2. mine[d] - 1 \in Existing => mine[d] - 1 # n /\ mine[d] - 1 \in Version
    BY <1>2 DEF Existing
  <2> QED BY <2>1, <2>2, <1>2, <1>3, <1>4, <1>6 DEF AdviceInv, AskedOnTop
<1>12. ClaimsHold'
  <2> SUFFICES ASSUME NEW d \in Callers, at'[d] = "generate"
               PROVE  \/ rows'[mine[d]] \in {"generating", "stale"}
                      \/ rows'[mine[d]] = "absent" /\ Buried(mine[d])'
    BY <1>2 DEF ClaimsHold
  <2>1. CASE d = c
    BY <2>1, <1>3
  <2>2. CASE d # c
    BY <2>2, <1>2, <1>3, <1>6, <1>8 DEF AdviceInv, ClaimsHold
  <2> QED BY <2>1, <2>2
<1>13. GeneratingIsNewest'
  <2> SUFFICES ASSUME NEW d \in Callers, at'[d] = "generate", mine[d] \in Existing', ~tookOver'
               PROVE  Newer(mine[d])' = {}
    BY <1>2 DEF GeneratingIsNewest
  <2>1. CASE d = c
    BY <2>1, <1>2, <1>4, <1>5, Rows DEF Newer
  <2>2. CASE d # c
    <3>1. at[d] = "generate" /\ mine[d] # n /\ mine[d] \in Existing /\ mine[d] \in Version /\ ~tookOver
      BY <2>2, <1>2, <1>3, <1>4, <1>8
    <3>2. Newer(mine[d]) = {} /\ rows[mine[d]] \in {"generating", "stale"}
      BY <3>1, <1>2, Rows DEF AdviceInv, GeneratingIsNewest, ClaimsHold
    <3>3. ~(mine[d] < n)
      <4> SUFFICES ASSUME mine[d] < n PROVE FALSE
        OBVIOUS
      <4>1. rows[mine[d]] # "generating"
        BY <1>7, <3>1, <3>2
      <4> QED BY <4>1, <3>1, <3>2, <1>2 DEF OverrunBy
    <3> QED BY <3>1, <3>2, <3>3, <1>2, <1>4, Rows DEF Newer
  <2> QED BY <2>1, <2>2
<1>14. OneOwner'
  BY <1>2, <1>3, <1>8 DEF AdviceInv, OneOwner
<1>15. InStep'
  BY <1>2, <1>3, <1>4 DEF AdviceInv, InStep, Existing
<1> QED BY <1>1, <1>9, <1>10, <1>11, <1>12, <1>13, <1>14, <1>15 DEF AdviceInv

\* The saving transaction: of the others' versions it takes only buried ones.
LEMMA Saves ==
  ASSUME RecommendationAssumption, AdviceInv, NEW c \in Callers, Save(c), mine[c] \in Existing
  PROVE  AdviceInv'
<1>1. RecommendationTypeOK'
  BY Types DEF AdviceInv, RecommendationNext, Works
<1>2. /\ at[c] = "generate" /\ mine[c] \in Version /\ ~gone
      /\ rows' = [v \in Version |-> IF v \notin Kept THEN "absent"
                                    ELSE IF v = mine[c] THEN "complete" ELSE rows[v]]
      /\ shown' = mine[c]
      /\ at' = [at EXCEPT ![c] = "idle"]
      /\ UNCHANGED <<gone, mine, tookOver>>
  BY DEF Save, AdviceInv, GoneIsEmpty, Existing
<1>3. /\ \A d \in Callers : at'[d] # "idle" => d # c /\ at'[d] = at[d]
      /\ Kept \subseteq Existing /\ Kept \subseteq Version
  BY <1>2 DEF AdviceInv, RecommendationTypeOK, Kept, Existing
<1>4. Existing' = Kept
  BY <1>2, <1>3 DEF Existing
<1>5. \A v \in Version : /\ Newer(v)' \subseteq Newer(v)
                         /\ Buried(v) => Buried(v)'
                         /\ v \in Existing \ Kept => Buried(v)'
  <2> SUFFICES ASSUME NEW v \in Version
               PROVE  /\ Newer(v)' \subseteq Newer(v)
                      /\ Buried(v) => Buried(v)'
                      /\ v \in Existing \ Kept => Buried(v)'
    OBVIOUS
  <2>1. Newer(v)' = {u \in Kept : u > v}
    BY <1>4 DEF Newer
  <2>2. Buried(v) => Buried(v)'
    BY <2>1, TrimKeepsEnough DEF Buried
  <2>3. v \in Existing \ Kept => Buried(v)
    BY HistoryIsFinite DEF Kept, Buried, RecommendationAssumption
  <2> QED BY <2>1, <2>2, <2>3, <1>3 DEF Newer
<1>6. GoneIsEmpty'
  BY <1>2 DEF GoneIsEmpty
<1>7. GapsAreTrimmed'
  BY <1>4, <1>5 DEF AdviceInv, GapsAreTrimmed
<1>8. AskedOnTop'
  <2> SUFFICES ASSUME NEW d \in Callers, at'[d] = "claim"
               PROVE  \/ mine[d] = 1
                      \/ mine[d] - 1 \in Existing' /\ rows'[mine[d] - 1] # "generating"
                      \/ mine[d] - 1 \in Version /\ Buried(mine[d] - 1)'
    BY <1>2 DEF AskedOnTop
  <2>1. at[d] = "claim" /\ (mine[d] - 1 \in Existing => mine[d] - 1 \in Version)
    BY <1>3 DEF Existing
  <2> QED BY <2>1, <1>2, <1>4, <1>5 DEF AdviceInv, AskedOnTop
<1>9. ClaimsHold'
  <2> SUFFICES ASSUME NEW d \in Callers, at'[d] = "generate"
               PROVE  \/ rows'[mine[d]] \in {"generating", "stale"}
                      \/ rows'[mine[d]] = "absent" /\ Buried(mine[d])'
    BY <1>2 DEF ClaimsHold
  <2>1. at[d] = "generate" /\ d # c /\ mine[d] # mine[c] /\ mine[d] \in Version
    BY <1>2, <1>3, Rows DEF AdviceInv, OneOwner
  <2>2. CASE rows[mine[d]] \in {"generating", "stale"}
    BY <2>1, <2>2, <1>2, <1>5, Rows
  <2>3. CASE rows[mine[d]] = "absent" /\ Buried(mine[d])
    BY <2>1, <2>3, <1>2, <1>3, <1>5, Rows
  <2> QED BY <2>1, <2>2, <2>3, <1>2 DEF AdviceInv, ClaimsHold
<1>10. GeneratingIsNewest' /\ OneOwner'
  <2>1. OneOwner'
    BY <1>2, <1>3 DEF AdviceInv, OneOwner
  <2>2. ASSUME NEW d \in Callers, at'[d] = "generate", mine[d] \in Existing'
        PROVE  tookOver \/ Newer(mine[d])' = {}
    <3>1. at[d] = "generate" /\ mine[d] \in Existing /\ mine[d] \in Version
      BY <2>2, <1>3, <1>4
    <3>2. Newer(mine[d])' \subseteq Newer(mine[d])
      BY <3>1, <1>2, <1>5
    <3> QED BY <3>1, <3>2 DEF AdviceInv, GeneratingIsNewest
  <2> QED BY <2>1, <2>2, <1>2 DEF GeneratingIsNewest
<1>11. InStep'
  <2>1. tookOver \/ Newer(mine[c]) = {}
    BY <1>2 DEF AdviceInv, GeneratingIsNewest
  <2> QED BY <2>1, <1>2, <1>3, <1>4 DEF InStep, Newer
<1> QED BY <1>1, <1>6, <1>7, <1>8, <1>9, <1>10, <1>11 DEF AdviceInv

\* A claim released as failed, or grown stale: the rows that exist stay, nothing else
\* becomes an answer and no claim becomes fresh.
LEMMA Worsens ==
  ASSUME RecommendationAssumption, AdviceInv, RecommendationTypeOK', UNCHANGED <<shown, gone, mine, tookOver>>,
         NEW n \in Version, n \in Existing,
         NEW s \in {"stale", "failed"}, rows' = [rows EXCEPT ![n] = s],
         \A d \in Callers : at'[d] # "idle" => at[d] = at'[d],
         \A d \in Callers : at'[d] = "generate" /\ mine[d] = n => s = "stale"
  PROVE  AdviceInv'
<1>1. rows'[n] = s /\ \A v \in Version : v # n => rows'[v] = rows[v]
  BY DEF AdviceInv, RecommendationTypeOK
<1>2. Existing' = Existing /\ \A v : Newer(v)' = Newer(v) /\ Buried(v)' = Buried(v)
  <2>1. Existing' = Existing
    BY <1>1 DEF Existing
  <2> QED BY <2>1 DEF Newer, Buried
<1>3. GoneIsEmpty' /\ GapsAreTrimmed'
  BY <1>2 DEF AdviceInv, GoneIsEmpty, GapsAreTrimmed
<1>4. InStep'
  BY <1>1, <1>2, Rows DEF AdviceInv, InStep, Existing
<1>5. AskedOnTop'
  <2>1. \A v \in Existing : rows[v] # "generating" => rows'[v] # "generating"
    BY <1>1 DEF Existing
  <2> QED BY <2>1, <1>2 DEF AdviceInv, AskedOnTop
<1>6. ClaimsHold'
  <2> SUFFICES ASSUME NEW d \in Callers, at'[d] = "generate", ~gone
               PROVE  \/ rows'[mine[d]] \in {"generating", "stale"}
                      \/ rows'[mine[d]] = "absent" /\ Buried(mine[d])'
    BY DEF ClaimsHold
  <2>1. at[d] = "generate" /\ mine[d] \in Version
    BY Rows
  <2> QED BY <2>1, <1>1, <1>2 DEF AdviceInv, ClaimsHold
<1>7. GeneratingIsNewest' /\ OneOwner'
  BY <1>2 DEF AdviceInv, GeneratingIsNewest, OneOwner
<1> QED BY <1>3, <1>4, <1>5, <1>6, <1>7 DEF AdviceInv

LEMMA Fails ==
  ASSUME RecommendationAssumption, AdviceInv, NEW c \in Callers, GenerationFails(c)
  PROVE  AdviceInv'
<1>1. RecommendationTypeOK'
  BY Types DEF AdviceInv, RecommendationNext, Works
<1>2. /\ at[c] = "generate" /\ at' = [at EXCEPT ![c] = "idle"]
      /\ UNCHANGED <<shown, gone, mine, tookOver>>
  BY DEF GenerationFails
<1>3. CASE mine[c] \notin Existing
  BY <1>1, <1>2, <1>3, Stops DEF GenerationFails
<1>4. CASE mine[c] \in Existing
  <2>1. mine[c] \in Version /\ rows' = [rows EXCEPT ![mine[c]] = "failed"] /\ ~gone
    BY <1>4 DEF GenerationFails, Existing, AdviceInv, GoneIsEmpty
  <2>2. \A d \in Callers : at'[d] # "idle" => at[d] = at'[d] /\ d # c
    BY <1>2 DEF AdviceInv, RecommendationTypeOK
  <2>3. \A d \in Callers : ~(at'[d] = "generate" /\ mine[d] = mine[c])
    BY <1>2, <2>1, <2>2 DEF AdviceInv, OneOwner
  <2> QED BY <1>1, <1>2, <1>4, <2>1, <2>2, <2>3, Worsens
<1> QED BY <1>3, <1>4

LEMMA AdviceStep == ASSUME RecommendationAssumption, AdviceInv, [RecommendationNext]_recommendationVars PROVE AdviceInv'
<1>1. RecommendationTypeOK'
  BY Types DEF AdviceInv
<1>2. ASSUME NEW c \in Callers, Claim(c) PROVE AdviceInv'
  <2>1. CASE ~gone /\ rows[mine[c]] = "absent"
    BY <1>2, <2>1, Claims
  <2>2. CASE ~(~gone /\ rows[mine[c]] = "absent")
    BY <1>1, <1>2, <2>2, Stops DEF Claim
  <2> QED BY <2>1, <2>2
<1>3. ASSUME NEW c \in Callers, Save(c) PROVE AdviceInv'
  <2>1. CASE mine[c] \in Existing
    BY <1>3, <2>1, Saves
  <2>2. CASE mine[c] \notin Existing
    BY <1>1, <1>3, <2>2, Stops DEF Save
  <2> QED BY <2>1, <2>2
<1>4. ASSUME NEW c \in Callers, CallerDies(c) PROVE AdviceInv'
  BY <1>1, <1>4, Stops DEF CallerDies
<1>5. ASSUME NEW v \in Version, GrowStale(v) PROVE AdviceInv'
  <2>1. v \in Existing /\ rows' = [rows EXCEPT ![v] = "stale"]
        /\ UNCHANGED <<shown, gone, at, mine, tookOver>>
    BY <1>5 DEF GrowStale, Existing
  <2> QED BY <1>1, <2>1, Worsens
<1>6. ASSUME Prune PROVE AdviceInv'
  <2>1. /\ gone' /\ shown' = 0 /\ UNCHANGED <<at, mine, tookOver>>
        /\ Existing' = {} /\ \A v : Newer(v)' = {}
    BY <1>6 DEF Prune, Existing, Newer
  <2> QED BY <1>1, <2>1 DEF AdviceInv, GoneIsEmpty, GapsAreTrimmed, AskedOnTop, ClaimsHold,
                            GeneratingIsNewest, OneOwner, InStep
<1>7. CASE UNCHANGED recommendationVars
  BY <1>1, <1>7 DEF recommendationVars, AdviceInv, GoneIsEmpty, GapsAreTrimmed, AskedOnTop, ClaimsHold,
               GeneratingIsNewest, OneOwner, InStep, Existing, Newer, Buried
<1> QED BY <1>2, <1>3, <1>4, <1>5, <1>6, <1>7, Asks, Fails DEF RecommendationNext, Works

LEMMA AdviceAlways == ASSUME RecommendationAssumption PROVE RecommendationSpec => []AdviceInv
  BY InitAdvice, AdviceStep, PTL DEF RecommendationSpec

\* A version is generated by one caller, whoever computed its number, dies on the
\* way or finds the history trimmed (createMany with skipDuplicates).
THEOREM VersionsHaveOneOwner == ASSUME RecommendationAssumption PROVE RecommendationSpec => []OneOwner
<1>1. AdviceInv => OneOwner
  BY DEF AdviceInv
<1> QED BY <1>1, AdviceAlways, PTL

\* The stored markdown shows the newest complete answer, unless a stale claim was
\* taken over from somebody still at work on it.
THEOREM MarkdownInStep == ASSUME RecommendationAssumption PROVE RecommendationSpec => []InStep
<1>1. AdviceInv => InStep
  BY DEF AdviceInv
<1> QED BY <1>1, AdviceAlways, PTL

\* An answer is dropped only with its result or when enough rows are newer: no failure
\* of a later generation, and no other caller, takes it back.
THEOREM AnswersAreKept == ASSUME RecommendationAssumption PROVE RecommendationSpec => AnswersSurvive
<1>1. ASSUME AdviceInv, [RecommendationNext]_recommendationVars
      PROVE  [\A v \in Version :
                rows[v] = "complete" =>
                  rows'[v] = "complete" \/ gone' \/ Cardinality(Newer(v)) >= KEEP_VERSIONS]_recommendationVars
  <2> SUFFICES ASSUME NEW v \in Version, rows[v] = "complete", RecommendationNext, ~gone', ~Buried(v)
               PROVE  rows'[v] = "complete"
    BY <1>1 DEF Buried, recommendationVars
  <2>1. v \in Existing /\ v \in Kept
    BY HistoryIsFinite DEF Existing, Kept, Buried, RecommendationAssumption
  <2>2. ASSUME NEW c \in Callers, Claim(c) PROVE rows'[v] = "complete"
    BY <1>1, <2>2 DEF Claim, AdviceInv, RecommendationTypeOK
  <2>3. ASSUME NEW c \in Callers, Save(c) PROVE rows'[v] = "complete"
    BY <2>1, <2>3 DEF Save
  <2>4. ASSUME NEW c \in Callers, GenerationFails(c) PROVE rows'[v] = "complete"
    <3>1. mine[c] # v
      BY <1>1, <2>4 DEF GenerationFails, AdviceInv, ClaimsHold
    <3> QED BY <1>1, <2>4, <3>1 DEF GenerationFails, AdviceInv, RecommendationTypeOK
  <2>5. ASSUME NEW c \in Callers, Ask(c) \/ CallerDies(c) PROVE rows'[v] = "complete"
    BY <2>5 DEF Ask, CallerDies
  <2>6. ASSUME NEW u \in Version, GrowStale(u) PROVE rows'[v] = "complete"
    BY <1>1, <2>6 DEF GrowStale, AdviceInv, RecommendationTypeOK
  <2>7. ~Prune
    BY DEF Prune
  <2> QED BY <2>2, <2>3, <2>4, <2>5, <2>6, <2>7 DEF RecommendationNext, Works
<1> QED BY <1>1, AdviceAlways, PTL DEF RecommendationSpec, AnswersSurvive

-----------------------------------------------------------------------------
(* The history implements the log. *)

OpenRows == VersionsIn({"generating", "stale"})
AnsweredRows == VersionsIn({"complete"})
FailedRows == VersionsIn({"failed"})

\* The versions of the log are the rows that exist, and the trim is the same.
LEMMA LogIsHistory ==
  ASSUME RecommendationTypeOK
  PROVE  /\ Log!Versions = Existing
         /\ \A v : Log!Above(v) = Newer(v)
         /\ Log!Remaining = Kept
<1>1. Log!Versions = Existing
  BY DEF Log!Versions, VersionsIn, Existing, RecommendationTypeOK, RowStatus
<1>2. \A v : Log!Above(v) = Newer(v)
  BY <1>1 DEF Log!Above, Newer
<1> QED BY <1>1, <1>2 DEF Log!Remaining, Kept, Cardinality, Log!Cardinality

\* The insert begins the next version: nothing is above it, and the one before it is there.
LEMMA ClaimBegins ==
  ASSUME RecommendationAssumption, AdviceInv, NEW c \in Callers, Claim(c),
         ~gone, rows[mine[c]] = "absent"
  PROVE  \E v \in {1} \cup {u + 1 : u \in Log!Versions} : Log!Begin(v)
<1> DEFINE n == mine[c]
<1>1. /\ at[c] = "claim" /\ n \in Version /\ ~Buried(n) /\ n \notin Existing
      /\ rows' = [rows EXCEPT ![n] = "generating"] /\ UNCHANGED <<shown, gone>>
  <2>1. at[c] = "claim" /\ Prompt(c)
    BY DEF Claim
  <2>2. n \in Version /\ n \notin Existing /\ ~Buried(n)
    BY <2>1, Rows, HistoryIsFinite DEF Prompt, Buried, RecommendationAssumption
  <2> QED BY <2>1, <2>2 DEF Claim
<1>2. Newer(n) = {}
  BY <1>1 DEF AdviceInv, GapsAreTrimmed
<1>3. n \in {1} \cup {u + 1 : u \in Existing}
  <2>1. n = 1 \/ n - 1 \in Existing \/ (n - 1 \in Version /\ Buried(n - 1))
    BY <1>1 DEF AdviceInv, AskedOnTop
  <2>2. ASSUME n - 1 \in Version, Buried(n - 1) PROVE FALSE
    <3>1. PICK u \in Existing : u > n - 1
      BY <2>2, Rows
    <3>2. u > n
      BY <1>1, <3>1, Rows DEF Existing
    <3> QED BY <1>2, <3>1, <3>2 DEF Newer
  <2>3. n = (n - 1) + 1
    BY <1>1, Rows
  <2> QED BY <2>1, <2>2, <2>3
<1>4. rows'[n] = "generating" /\ \A v \in Version : v # n => rows'[v] = rows[v]
  BY <1>1 DEF AdviceInv, RecommendationTypeOK
<1>5. OpenRows' = OpenRows \cup {n} /\ AnsweredRows' = AnsweredRows /\ FailedRows' = FailedRows
  BY <1>1, <1>4 DEF OpenRows, AnsweredRows, FailedRows, VersionsIn
<1>6. Log!Begin(n)
  BY <1>1, <1>2, <1>5, LogIsHistory
  DEF Log!Begin, OpenRows, AnsweredRows, FailedRows, AdviceInv
<1> QED BY <1>3, <1>6, LogIsHistory DEF AdviceInv

LEMMA SaveAnswers ==
  ASSUME RecommendationAssumption, AdviceInv, NEW c \in Callers, Save(c), mine[c] \in Existing
  PROVE  mine[c] \in OpenRows /\ Log!Answer(mine[c])
<1> DEFINE n == mine[c]
<1>1. /\ at[c] = "generate" /\ n \in Version /\ ~gone /\ UNCHANGED gone /\ shown' = n
      /\ rows' = [v \in Version |-> IF v \notin Kept THEN "absent"
                                    ELSE IF v = n THEN "complete" ELSE rows[v]]
  BY DEF Save, AdviceInv, GoneIsEmpty, Existing
<1>2. n \in OpenRows
  BY <1>1 DEF AdviceInv, ClaimsHold, Existing, OpenRows, VersionsIn
<1>3. Kept \subseteq Version
  BY HistoryIsFinite
<1>4. /\ OpenRows' = (OpenRows \ {n}) \cap Kept
      /\ AnsweredRows' = (AnsweredRows \cup {n}) \cap Kept
      /\ FailedRows' = FailedRows \cap Kept
  BY <1>1, <1>2, <1>3 DEF OpenRows, AnsweredRows, FailedRows, VersionsIn
<1>5. Log!Remaining = Kept
  BY LogIsHistory DEF AdviceInv
<1> QED BY <1>1, <1>2, <1>4, <1>5 DEF Log!Answer, OpenRows, AnsweredRows, FailedRows

LEMMA FailureFails ==
  ASSUME RecommendationAssumption, AdviceInv, NEW c \in Callers, GenerationFails(c), mine[c] \in Existing
  PROVE  mine[c] \in OpenRows /\ Log!Fail(mine[c])
<1> DEFINE n == mine[c]
<1>1. /\ at[c] = "generate" /\ n \in Version /\ ~gone /\ UNCHANGED <<gone, shown>>
      /\ rows' = [rows EXCEPT ![n] = "failed"]
  BY DEF GenerationFails, AdviceInv, GoneIsEmpty, Existing
<1>2. n \in OpenRows
  BY <1>1 DEF AdviceInv, ClaimsHold, Existing, OpenRows, VersionsIn
<1>3. rows'[n] = "failed" /\ \A v \in Version : v # n => rows'[v] = rows[v]
  BY <1>1 DEF AdviceInv, RecommendationTypeOK
<1>4. OpenRows' = OpenRows \ {n} /\ AnsweredRows' = AnsweredRows /\ FailedRows' = FailedRows \cup {n}
  BY <1>1, <1>2, <1>3 DEF OpenRows, AnsweredRows, FailedRows, VersionsIn
<1> QED BY <1>1, <1>2, <1>4 DEF Log!Fail, OpenRows, AnsweredRows, FailedRows

LEMMA StepLogs ==
  ASSUME RecommendationAssumption, AdviceInv, [RecommendationNext]_recommendationVars
  PROVE  [Log!Next]_(Log!log)
<1> DEFINE Same == UNCHANGED <<OpenRows, AnsweredRows, FailedRows, shown, gone>>
<1>1. ASSUME UNCHANGED <<rows, shown, gone>> PROVE Same
  BY <1>1 DEF OpenRows, AnsweredRows, FailedRows, VersionsIn
<1>2. ASSUME NEW c \in Callers, Claim(c) PROVE Log!Next \/ Same
  <2>1. CASE ~gone /\ rows[mine[c]] = "absent"
    BY <1>2, <2>1, ClaimBegins DEF Log!Next
  <2>2. CASE ~(~gone /\ rows[mine[c]] = "absent")
    BY <1>1, <1>2, <2>2 DEF Claim
  <2> QED BY <2>1, <2>2
<1>3. ASSUME NEW c \in Callers, Save(c) PROVE Log!Next \/ Same
  <2>1. CASE mine[c] \in Existing
    BY <1>3, <2>1, SaveAnswers DEF Log!Next, OpenRows
  <2>2. CASE mine[c] \notin Existing
    BY <1>1, <1>3, <2>2 DEF Save
  <2> QED BY <2>1, <2>2
<1>4. ASSUME NEW c \in Callers, GenerationFails(c) PROVE Log!Next \/ Same
  <2>1. CASE mine[c] \in Existing
    BY <1>4, <2>1, FailureFails DEF Log!Next, OpenRows
  <2>2. CASE mine[c] \notin Existing
    BY <1>1, <1>4, <2>2 DEF GenerationFails
  <2> QED BY <2>1, <2>2
<1>5. ASSUME NEW c \in Callers, Ask(c) \/ CallerDies(c) PROVE Same
  BY <1>1, <1>5 DEF Ask, CallerDies
<1>6. ASSUME NEW v \in Version, GrowStale(v) PROVE Same
  <2>1. /\ rows[v] = "generating" /\ rows'[v] = "stale" /\ UNCHANGED <<shown, gone>>
        /\ \A u \in Version : u # v => rows'[u] = rows[u]
    BY <1>6 DEF GrowStale, AdviceInv, RecommendationTypeOK
  <2> QED BY <2>1 DEF OpenRows, AnsweredRows, FailedRows, VersionsIn
<1>7. ASSUME Prune PROVE Log!Vanish
  <2>1. ~gone /\ gone' = TRUE /\ shown' = 0 /\ \A v \in Version : rows'[v] = "absent"
    BY <1>7 DEF Prune
  <2> QED BY <2>1 DEF Log!Vanish, VersionsIn
<1>8. CASE UNCHANGED recommendationVars
  BY <1>1, <1>8 DEF recommendationVars, Log!log, OpenRows, AnsweredRows, FailedRows
<1>9. CASE RecommendationNext
  <2>1. Log!Next \/ Same
    BY <1>2, <1>3, <1>4, <1>5, <1>6, <1>7, <1>9 DEF RecommendationNext, Works, Log!Next
  <2> QED BY <2>1 DEF Log!log, OpenRows, AnsweredRows, FailedRows
<1> QED BY <1>8, <1>9

\* Whoever asks, dies, takes over or finds the history trimmed, each version is begun once,
\* on top of the others, and answered or failed once: Recommendation implements AdviceLog
\* (getOrCreateRecommendation).
THEOREM KeepsTheLog == ASSUME RecommendationAssumption PROVE RecommendationSpec => AdviceIsLinear
<1>1. RecommendationInit => Log!Init
  BY DEF RecommendationInit, Log!Init, VersionsIn
<1>2. AdviceInv /\ [RecommendationNext]_recommendationVars => [Log!Next]_(Log!log)
  BY StepLogs
<1> QED BY <1>1, <1>2, AdviceAlways, PTL DEF RecommendationSpec, AdviceIsLinear, Log!Spec

-----------------------------------------------------------------------------
(* Pacing. *)

\* The rows and the steps belong to windows that have begun.
Past ==
  /\ \A d \in Databases : bucket[d].windowStart <= window
  /\ \A s \in Steps : step[s].window <= window

\* Who sends the upsert has a limiter; who backs off has an attempt left.
Underway ==
  \A s \in Steps :
    /\ step[s].at \in {"begun", "connected", "acquire", "upsert"} => step[s].on \in Processes
    /\ step[s].at \in {"denied", "asleep", "psi", "backoff"} => step[s].on \in Processes
    /\ step[s].at \in {"connected", "acquire", "upsert", "denied", "asleep"} => step[s].in \in Databases
    /\ step[s].at = "backoff" => step[s].attempt < PSI_MAX_ATTEMPTS

\* What the present database's row says of the present window is no less than what was
\* given in it.
RowTells ==
  \/ blurred
  \/ bucket[connection].windowStart # window /\ granted = 0
  \/ /\ bucket[connection].windowStart = window
     /\ bucket[connection].count <= max => granted <= bucket[connection].count

PacingInv == TypeOK /\ Past /\ Underway /\ RowTells /\ PermitsPerWindow

Row == [windowStart : 0..MaxWindow, count : 0..max + 1]

\* What the upsert leaves in the row is a row.
LEMMA UpsertType ==
  ASSUME PacingAssumption, NEW row \in Row, NEW w \in 0..MaxWindow
  PROVE  /\ Upsert(row, w) \in Row
         /\ Upsert(row, w).windowStart = w
         /\ Upsert(row, w).count >= 1
         /\ row.windowStart # w => Upsert(row, w).count = 1
         /\ row.windowStart = w /\ Upsert(row, w).count <= max =>
              Upsert(row, w).count = row.count + 1
  BY DEF PacingAssumption, Upsert, Row

LEMMA InitInv == ASSUME PacingAssumption, Init PROVE PacingInv
<1> USE DEF PacingAssumption, Init
<1>1. 0 \in 0..MaxWindow /\ 0 \in 0..max + 1 /\ 0 \in 0..PSI_MAX_ATTEMPTS /\ 0 \in 0..MaxRotations
      /\ 1 \in 1..MaxWindow
  OBVIOUS
<1>2. \A s \in Steps : step[s] = Idle
  OBVIOUS
<1>3. TypeOK
  <2>1. step \in [Steps -> [at : {"idle", "begun", "connected", "acquire", "upsert", "denied", "asleep", "psi",
                               "backoff"},
                         on : Processes \cup {None}, in : Databases \cup {None},
                         window : 0..MaxWindow, attempt : 0..PSI_MAX_ATTEMPTS]]
    BY <1>1 DEF Idle
  <2>2. bucket \in [Databases -> [windowStart : 0..MaxWindow, count : 0..max + 1]]
    BY <1>1
  <2> QED BY <1>1, <2>1, <2>2 DEF TypeOK, Window
<1>4. Past /\ Underway
  BY <1>2 DEF Past, Underway, Idle
<1>5. RowTells /\ PermitsPerWindow
  BY DEF RowTells, PermitsPerWindow
<1> QED BY <1>3, <1>4, <1>5 DEF PacingInv

StepRow ==
  [at : {"idle", "begun", "connected", "acquire", "upsert", "denied", "asleep", "psi", "backoff"},
   on : Processes \cup {None}, in : Databases \cup {None},
   window : 0..MaxWindow, attempt : 0..PSI_MAX_ATTEMPTS]

\* A row a step may have.
Sound(r) ==
  /\ r \in StepRow /\ r.window <= window
  /\ r.at \in {"begun", "connected", "acquire", "upsert"} => r.on \in Processes
  /\ r.at \in {"denied", "asleep", "psi", "backoff"} => r.on \in Processes
  /\ r.at \in {"connected", "acquire", "upsert", "denied", "asleep"} => r.in \in Databases
  /\ r.at = "backoff" => r.attempt < PSI_MAX_ATTEMPTS

\* One step changes its row, and nothing else the invariant speaks of changes.
LEMMA Moves ==
  ASSUME PacingAssumption, PacingInv,
         UNCHANGED <<window, connection, rotations, bucket, granted, blurred>>,
         limiter' \in [Processes -> Databases \cup {None}],
         NEW s \in Steps, NEW r, Sound(r), step' = [step EXCEPT ![s] = r]
  PROVE  PacingInv'
<1>1. step \in [Steps -> StepRow]
  BY DEF PacingInv, TypeOK, StepRow
<1>2. step' \in [Steps -> StepRow] /\ \A t \in Steps : step'[t] = IF t = s THEN r ELSE step[t]
  BY <1>1 DEF Sound
<1>3. TypeOK'
  BY <1>2 DEF PacingInv, TypeOK, StepRow, Window
<1>4. \A t \in Steps : step'[t].window <= window
  BY <1>2 DEF PacingInv, Past, Sound
<1>5. Underway'
  BY <1>2 DEF PacingInv, Underway, Sound
<1> QED BY <1>3, <1>4, <1>5 DEF PacingInv, Past, RowTells, PermitsPerWindow

\* What a step may become.
LEMMA RowOfStep ==
  ASSUME PacingAssumption, PacingInv, NEW s \in Steps
  PROVE  /\ Sound(step[s])
         /\ window \in 0..MaxWindow /\ window <= window /\ 0 \in 0..MaxWindow /\ 0 <= window
         /\ step[s].at = "backoff" => step[s].attempt + 1 \in 0..PSI_MAX_ATTEMPTS
         /\ 0 \in 0..PSI_MAX_ATTEMPTS /\ 1 \in 0..PSI_MAX_ATTEMPTS
         /\ limiter \in [Processes -> Databases \cup {None}] /\ connection \in Databases
  BY DEF PacingInv, TypeOK, Past, Underway, StepRow, Sound, PacingAssumption, Window

\* The one step that gives a permit.
LEMMA Acquires ==
  ASSUME PacingAssumption, PacingInv, NEW s \in Steps, tryAcquire(s)
  PROVE  PacingInv'
<1> DEFINE w == step[s].window
           d == step[s].in
           row == Upsert(bucket[d], w)
<1>1. /\ w \in 0..MaxWindow /\ w <= window /\ window \in 1..MaxWindow /\ MaxWindow \in Nat
      /\ max \in Nat /\ d \in Databases /\ connection \in Databases /\ granted \in Nat
      /\ blurred \in BOOLEAN
  BY DEF PacingInv, TypeOK, Past, Underway, PacingAssumption, Window, tryAcquire
<1>2. bucket \in [Databases -> Row]
  BY DEF PacingInv, TypeOK, Row
<1>3. bucket[d] \in Row
  BY <1>1, <1>2
<1>4. /\ row \in Row /\ row.windowStart = w /\ row.count >= 1
      /\ bucket[d].windowStart # w => row.count = 1
      /\ bucket[d].windowStart = w /\ row.count <= max => row.count = bucket[d].count + 1
  BY <1>1, <1>3, UpsertType
<1>5. /\ bucket' = [bucket EXCEPT ![d] = row]
      /\ UNCHANGED <<window, connection, rotations, limiter>>
      /\ blurred' = (blurred \/ w # window \/ d # connection)
  BY DEF tryAcquire, client
<1>6. granted' = IF row.count <= max THEN granted + 1 ELSE granted
  BY DEF tryAcquire
<1> HIDE DEF row
<1>7. bucket'[d] = row /\ \A e \in Databases : bucket'[e] = IF e = d THEN row ELSE bucket[e]
  BY <1>1, <1>2, <1>5
<1>8. PICK r : Sound(r) /\ step' = [step EXCEPT ![s] = r]
  <2>1. PICK place \in {"psi", "denied"} : Go(s, place)
    BY DEF tryAcquire
  <2> DEFINE q == [step[s] EXCEPT !.at = place, !.window = 0]
  <2>2. step' = [step EXCEPT ![s] = q]
    BY <2>1 DEF Go
  <2>3. Sound(q)
    BY <2>1, RowOfStep DEF Sound, StepRow, tryAcquire
  <2> HIDE DEF q
  <2> QED BY <2>2, <2>3
<1>9. /\ step' \in [Steps -> StepRow]
      /\ \A t \in Steps : step'[t] = IF t = s THEN r ELSE step[t]
  BY <1>8 DEF PacingInv, TypeOK, StepRow, Sound
<1>10. TypeOK'
  <2>1. bucket' \in [Databases -> Row]
    BY <1>1, <1>2, <1>4, <1>5
  <2>2. granted' \in Nat /\ blurred' \in BOOLEAN
    BY <1>1, <1>5, <1>6
  <2> QED BY <2>1, <2>2, <1>5, <1>9 DEF TypeOK, PacingInv, Row, StepRow, Window
<1>11. Past'
  <2>1. \A t \in Steps : step'[t].window <= window
    BY <1>8, <1>9 DEF Past, PacingInv, Sound
  <2>2. \A e \in Databases : bucket'[e].windowStart <= window
    BY <1>1, <1>4, <1>7 DEF Past, PacingInv
  <2> QED BY <2>1, <2>2, <1>5 DEF Past
<1>12. Underway'
  BY <1>8, <1>9 DEF Underway, PacingInv, Sound
<1>13. RowTells' /\ PermitsPerWindow'
  <2>1. CASE blurred'
    BY <2>1 DEF RowTells, PermitsPerWindow
  <2>2. CASE ~blurred'
    <3>1. ~blurred /\ w = window /\ d = connection
      BY <2>2, <1>5
    <3>2. /\ bucket'[connection'] = row /\ window' = window /\ connection' = connection
          /\ row.windowStart = window
      BY <3>1, <1>4, <1>5, <1>7
    <3>3. \/ bucket[connection].windowStart # window /\ granted = 0
          \/ /\ bucket[connection].windowStart = window
             /\ bucket[connection].count <= max => granted <= bucket[connection].count
      BY <3>1 DEF RowTells, PacingInv
    <3>4. row.count <= max => granted' <= row.count
      <4> SUFFICES ASSUME row.count <= max PROVE granted' <= row.count
        OBVIOUS
      <4>1. granted' = granted + 1 /\ row.count \in Nat /\ bucket[d].count \in Nat
        BY <1>3, <1>4, <1>6 DEF Row
      <4>2. CASE bucket[d].windowStart # window /\ granted = 0
        BY <4>1, <4>2, <1>4, <3>1
      <4>3. CASE bucket[d].windowStart = window /\ (bucket[d].count <= max => granted <= bucket[d].count)
        BY <4>1, <4>3, <1>1, <1>4, <3>1
      <4> QED BY <4>2, <4>3, <3>1, <3>3
    <3>5. granted' <= max
      <4>1. CASE row.count <= max
        BY <4>1, <3>4, <1>1, <1>4, <1>6 DEF Row
      <4>2. CASE ~(row.count <= max)
        BY <4>2, <3>1, <1>6 DEF PermitsPerWindow, PacingInv
      <4> QED BY <4>1, <4>2
    <3> QED BY <3>2, <3>4, <3>5 DEF RowTells, PermitsPerWindow
  <2> QED BY <2>1, <2>2
<1> QED BY <1>10, <1>11, <1>12, <1>13 DEF PacingInv

\* In a window that begins nothing was given yet, and every row is of an earlier one.
LEMMA Rolls ==
  ASSUME PacingAssumption, PacingInv, RollOver
  PROVE  PacingInv'
<1>1. TypeOK'
  <2>1. window' \in Window /\ granted' \in Nat
    BY DEF PacingInv, TypeOK, RollOver, PacingAssumption, Window
  <2>2. blurred' \in BOOLEAN
    BY DEF RollOver
  <2>3. UNCHANGED <<connection, rotations, limiter, bucket, step>>
    BY DEF RollOver, client
  <2> QED BY <2>1, <2>2, <2>3 DEF PacingInv, TypeOK, Window
<1>2. Past' /\ bucket[connection].windowStart # window'
  <2>1. window \in Nat /\ connection \in Databases /\ window' = window + 1
        /\ bucket \in [Databases -> Row] /\ step \in [Steps -> StepRow]
        /\ bucket' = bucket /\ step' = step
    BY DEF PacingInv, TypeOK, RollOver, Window, Row, StepRow, client, PacingAssumption
  <2>2. \A e \in Databases : bucket[e].windowStart \in Nat /\ bucket[e].windowStart <= window
    BY <2>1 DEF PacingInv, Past, Row, PacingAssumption
  <2>3. \A t \in Steps : step[t].window \in Nat /\ step[t].window <= window
    BY <2>1 DEF PacingInv, Past, StepRow, PacingAssumption
  <2> QED BY <2>1, <2>2, <2>3 DEF Past
<1>3. RowTells' /\ PermitsPerWindow' /\ Underway'
  BY <1>2 DEF PacingInv, RowTells, PermitsPerWindow, Underway, RollOver, PacingAssumption, client
<1> QED BY <1>1, <1>2, <1>3 DEF PacingInv

\* The window of the change is blurred, so the new database's row owes it nothing.
LEMMA Rotates ==
  ASSUME PacingAssumption, PacingInv, NEW d \in Databases, Rotate(d)
  PROVE  PacingInv'
<1>1. TypeOK'
  BY DEF PacingInv, TypeOK, Rotate, PacingAssumption
<1>2. Past' /\ Underway' /\ RowTells' /\ PermitsPerWindow'
  BY DEF PacingInv, Past, Underway, RowTells, PermitsPerWindow, Rotate
<1> QED BY <1>1, <1>2 DEF PacingInv

LEMMA NextInv == ASSUME PacingAssumption, PacingInv, [Next]_vars PROVE PacingInv'
<1>1. ASSUME NEW s \in Steps, NEW p \in Processes, Begin(s, p) PROVE PacingInv'
  <2> DEFINE r == [Idle EXCEPT !.at = "begun", !.on = p, !.attempt = 1]
  <2>1. Sound(r)
    BY <1>1, RowOfStep DEF Sound, StepRow, Begin, Idle
  <2>2. step' = [step EXCEPT ![s] = r]
    BY <1>1 DEF Begin, Idle
  <2>3. UNCHANGED <<window, connection, rotations, limiter, bucket, granted, blurred>>
    BY <1>1 DEF Begin, client
  <2> HIDE DEF r
  <2> QED BY <2>1, <2>2, <2>3, Moves, RowOfStep
<1>2. ASSUME NEW s \in Steps, Cached(s) PROVE PacingInv'
  <2> DEFINE r == [step[s] EXCEPT !.at = "acquire", !.in = limiter[step[s].on]]
  <2>1. Sound(r)
    BY <1>2, RowOfStep DEF Sound, StepRow, Cached
  <2>2. step' = [step EXCEPT ![s] = r]
    BY <1>2 DEF Cached
  <2>3. UNCHANGED <<window, connection, rotations, limiter, bucket, granted, blurred>>
    BY <1>2 DEF Cached, client
  <2> HIDE DEF r
  <2> QED BY <2>1, <2>2, <2>3, Moves, RowOfStep
<1>3. ASSUME NEW s \in Steps, Connect(s) PROVE PacingInv'
  <2> DEFINE r == [step[s] EXCEPT !.at = "connected", !.in = connection]
  <2>1. Sound(r)
    BY <1>3, RowOfStep DEF Sound, StepRow, Connect
  <2>2. step' = [step EXCEPT ![s] = r]
    BY <1>3 DEF Connect
  <2>3. UNCHANGED <<window, connection, rotations, limiter, bucket, granted, blurred>>
    BY <1>3 DEF Connect, client
  <2> HIDE DEF r
  <2> QED BY <2>1, <2>2, <2>3, Moves, RowOfStep
<1>4. ASSUME NEW s \in Steps, KeepLimiter(s) PROVE PacingInv'
  <2> DEFINE r == [step[s] EXCEPT !.at = "acquire"]
  <2>1. Sound(r) /\ step[s].on \in Processes /\ step[s].in \in Databases
    BY <1>4, RowOfStep DEF Sound, StepRow, KeepLimiter
  <2>2. step' = [step EXCEPT ![s] = r]
    BY <1>4 DEF KeepLimiter
  <2>3. limiter' \in [Processes -> Databases \cup {None}]
    BY <1>4, <2>1, RowOfStep DEF KeepLimiter
  <2>4. UNCHANGED <<window, connection, rotations, bucket, granted, blurred>>
    BY <1>4 DEF KeepLimiter
  <2> HIDE DEF r
  <2> QED BY <2>1, <2>2, <2>3, <2>4, Moves
<1>5. ASSUME NEW s \in Steps, ComputeWindow(s) PROVE PacingInv'
  <2> DEFINE r == [step[s] EXCEPT !.at = "upsert", !.window = window]
  <2>1. Sound(r)
    BY <1>5, RowOfStep DEF Sound, StepRow, ComputeWindow
  <2>2. step' = [step EXCEPT ![s] = r]
    BY <1>5 DEF ComputeWindow
  <2>3. UNCHANGED <<window, connection, rotations, limiter, bucket, granted, blurred>>
    BY <1>5 DEF ComputeWindow, client
  <2> HIDE DEF r
  <2> QED BY <2>1, <2>2, <2>3, Moves, RowOfStep
<1>6. ASSUME NEW s \in Steps, Sleep(s) PROVE PacingInv'
  <2> DEFINE r == [step[s] EXCEPT !.at = "asleep", !.window = window]
  <2>1. Sound(r)
    BY <1>6, RowOfStep DEF Sound, StepRow, Sleep
  <2>2. step' = [step EXCEPT ![s] = r]
    BY <1>6 DEF Sleep
  <2>3. UNCHANGED <<window, connection, rotations, limiter, bucket, granted, blurred>>
    BY <1>6 DEF Sleep, client
  <2> HIDE DEF r
  <2> QED BY <2>1, <2>2, <2>3, Moves, RowOfStep
<1>7. ASSUME NEW s \in Steps, Wake(s) PROVE PacingInv'
  <2> DEFINE r == [step[s] EXCEPT !.at = "acquire", !.window = 0]
  <2>1. Sound(r)
    BY <1>7, RowOfStep DEF Sound, StepRow, Wake, Go
  <2>2. step' = [step EXCEPT ![s] = r]
    BY <1>7 DEF Wake, Go
  <2>3. UNCHANGED <<window, connection, rotations, limiter, bucket, granted, blurred>>
    BY <1>7 DEF Wake, client
  <2> HIDE DEF r
  <2> QED BY <2>1, <2>2, <2>3, Moves, RowOfStep
<1>8. ASSUME NEW s \in Steps, Answer(s) PROVE PacingInv'
  <2>1. UNCHANGED <<window, connection, rotations, limiter, bucket, granted, blurred>>
    BY <1>8 DEF Answer, client
  <2>2. CASE step' = [step EXCEPT ![s] = Idle]
    <3>1. Sound(Idle)
      BY RowOfStep DEF Sound, StepRow, Idle
    <3> QED BY <2>1, <2>2, <3>1, Moves, RowOfStep
  <2>3. CASE step[s].attempt < PSI_MAX_ATTEMPTS /\ Go(s, "backoff")
    <3> DEFINE r == [step[s] EXCEPT !.at = "backoff", !.window = 0]
    <3>1. Sound(r)
      BY <1>8, <2>3, RowOfStep DEF Sound, StepRow, Answer
    <3>2. step' = [step EXCEPT ![s] = r]
      BY <2>3 DEF Go
    <3> HIDE DEF r
    <3> QED BY <2>1, <3>1, <3>2, Moves, RowOfStep
  <2> QED BY <1>8, <2>2, <2>3 DEF Answer
<1>9. ASSUME NEW s \in Steps, Retry(s) PROVE PacingInv'
  <2> DEFINE r == [step[s] EXCEPT !.at = "begun", !.in = None, !.attempt = @ + 1]
  <2>1. Sound(r)
    BY <1>9, RowOfStep DEF Sound, StepRow, Retry
  <2>2. step' = [step EXCEPT ![s] = r]
    BY <1>9 DEF Retry
  <2>3. UNCHANGED <<window, connection, rotations, limiter, bucket, granted, blurred>>
    BY <1>9 DEF Retry, client
  <2> HIDE DEF r
  <2> QED BY <2>1, <2>2, <2>3, Moves, RowOfStep
<1>10. ASSUME NEW s \in Steps, Die(s) PROVE PacingInv'
  <2> DEFINE r == Idle
  <2>1. Sound(r)
    BY <1>10, RowOfStep DEF Sound, StepRow, Die, Idle
  <2>2. step' = [step EXCEPT ![s] = r]
    BY <1>10 DEF Die, Idle
  <2>3. UNCHANGED <<window, connection, rotations, limiter, bucket, granted, blurred>>
    BY <1>10 DEF Die, client
  <2> HIDE DEF r
  <2> QED BY <2>1, <2>2, <2>3, Moves, RowOfStep
<1>11. ASSUME NEW p \in Processes, Recycle(p) PROVE PacingInv'
  BY <1>11 DEF Recycle, PacingInv, TypeOK, Past, Underway, RowTells, PermitsPerWindow
<1>12. CASE UNCHANGED vars
  BY <1>12 DEF vars, client, PacingInv, TypeOK, Past, Underway, RowTells, PermitsPerWindow
<1> QED
  BY <1>1, <1>2, <1>3, <1>4, <1>5, <1>6, <1>7, <1>8, <1>9, <1>10, <1>11, <1>12,
     Acquires, Rolls, Rotates DEF Next

LEMMA PacingAlways == ASSUME PacingAssumption PROVE Spec => []PacingInv
  BY InitInv, NextInv, PTL DEF Spec

\* The limiters, the rows and the steps keep their types whatever interleaves.
THEOREM PacingTypeCorrect == ASSUME PacingAssumption PROVE Spec => []TypeOK
<1>1. PacingInv => TypeOK BY DEF PacingInv
<1> QED BY <1>1, PacingAlways, PTL

\* However many steps ask, retry and die, in however many processes, no window of the quota
\* gives more than its permits, unless an upsert came late or the organisation changed
\* its database while a process still counted in the old one (PsiRateLimiter).
THEOREM QuotaIsKept == ASSUME PacingAssumption PROVE Spec => []PermitsPerWindow
<1>1. PacingInv => PermitsPerWindow BY DEF PacingInv
<1> QED BY <1>1, PacingAlways, PTL

===============================================================================
