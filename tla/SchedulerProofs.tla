---------------------------- MODULE SchedulerProofs ----------------------------
(***************************************************************************)
(* Type correctness of Scheduler, and that two runs of one site are active  *)
(* together only when their creators raced, for any number of rows, ticks,  *)
(* callers, edits and crashes.                                              *)
(***************************************************************************)
EXTENDS Scheduler, FiniteSetTheorems, TLAPS

\* The name chosen for a new row is a free one.
LEMMA FreshIsFree ==
  ASSUME Free # {}
  PROVE  Fresh \in Free
PROOF BY DEF Fresh

LEMMA HoldingIsCounted == Cardinality(Holding) \in Nat
PROOF
<1>1. IsFiniteSet(Holding)
  BY SchedulerAssumption, FS_Subset, Holding \subseteq Ticks DEF Holding
<1>2. QED
  BY <1>1, FS_CardinalityType

-----------------------------------------------------------------------------
(* Type correctness. *)

LEMMA TypeInit == Init => TypeOK
PROOF
<1>1. (CHOOSE c \in Crons : TRUE) \in Crons
  BY SchedulerAssumption
<1>2. ASSUME Init PROVE TypeOK
  <2> DEFINE first == CHOOSE c \in Crons : TRUE
  <2>a. sched = [enabled |-> TRUE, cron |-> first, next |-> "later", nextOf |-> first]
    BY <1>2, Zenon DEF Init
  <2>b. first \in Crons
    BY <1>1, Zenon
  <2> HIDE DEF first
  <2>1. sched \in [enabled : BOOLEAN, cron : Crons, next : {"none", "later", "due"},
                   nextOf : Crons]
    BY <2>a, <2>b
  <2>2. sched.enabled => sched.next # "none"
    BY <2>a
  <2>3. 0 \in 0..MaxSaves /\ 0 \in 0..MaxCrashes
    BY SchedulerAssumption
  <2>4. QED
    BY <1>2, <2>1, <2>2, <2>3 DEF Init, TypeOK
<1>3. QED
  BY <1>2

LEMMA EndKeepsTypes ==
  ASSUME TypeOK, NEW c \in Starters, End(c)
  PROVE  /\ at' \in [Starters -> {"idle", "due?", "advance", "guard", "create", "launch"}]
         /\ holds' \in [Starters -> Crons \cup {None}]
         /\ rivals' \in [Starters -> SUBSET Runs]
         /\ mine' \in [Starters -> Runs \cup {None}]
         /\ \A d \in Starters : at'[d] = "advance" => holds'[d] \in Crons
         /\ \A d \in Starters : at'[d] = "launch" => mine'[d] \in Runs
PROOF BY DEF TypeOK, End, Go

\* Every step of every actor keeps the types.
LEMMA TypeStep == TypeOK /\ [Next]_vars => TypeOK'
PROOF
<1> SUFFICES ASSUME TypeOK, [Next]_vars PROVE TypeOK'
  OBVIOUS
<1> USE SchedulerAssumption
<1>1. ASSUME NEW t \in Ticks, Reconcile(t) PROVE TypeOK'
  <2>1. t \in Starters
    BY DEF Starters
  <2>2. PICK old \in SUBSET {r \in Runs : run[r] = "running"} :
          /\ run' = [r \in Runs |-> IF r \in old THEN "none" ELSE run[r]]
          /\ started' = (started \cup {r \in Runs : run[r] = "running"}) \ old
          /\ Forget(old)
    BY <1>1 DEF Reconcile
  <2>3. beside' \in [Runs -> SUBSET Runs] /\ rivals' \in [Starters -> SUBSET Runs]
    BY <2>2 DEF Forget, TypeOK
  <2>4. /\ run' \in [Runs -> {"none", "running", "paused"}]
        /\ started' \subseteq Runs
    BY <2>2 DEF TypeOK
  <2>5. /\ at' = [at EXCEPT ![t] = "due?"]
        /\ UNCHANGED <<holds, mine, sched, fired, together, saves, crashes>>
    BY <1>1 DEF Reconcile, Go, schedule, budget
  <2>6. /\ at' \in [Starters -> {"idle", "due?", "advance", "guard", "create", "launch"}]
        /\ \A c \in Starters : at'[c] = "advance" => holds'[c] \in Crons
        /\ \A c \in Starters : at'[c] = "launch" => mine'[c] \in Runs
    BY <2>1, <2>5 DEF TypeOK
  <2>7. QED
    BY <2>3, <2>4, <2>5, <2>6 DEF TypeOK
<1>2. ASSUME NEW t \in Ticks, ReadDue(t) PROVE TypeOK'
  <2>1. t \in Starters
    BY DEF Starters
  <2>2. together' \in Nat
    BY <1>2, HoldingIsCounted DEF ReadDue, TypeOK
  <2>3. CASE sched.enabled /\ sched.next = "due"
    BY <1>2, <2>1, <2>2, <2>3 DEF ReadDue, TypeOK, Go, rows, budget
  <2>4. CASE ~(sched.enabled /\ sched.next = "due")
    BY <1>2, <2>1, <2>2, <2>4 DEF ReadDue, TypeOK, Go, rows, budget
  <2>5. QED
    BY <2>3, <2>4
<1>3. ASSUME NEW t \in Ticks, Advance(t) PROVE TypeOK'
  <2>1. t \in Starters
    BY DEF Starters
  <2>2. QED
    BY <1>3, <2>1 DEF Advance, TypeOK, Go, rows, budget
<1>4. ASSUME NEW t \in Ticks, Plan(t) PROVE TypeOK'
  <2>1. t \in Starters
    BY DEF Starters
  <2>2. CASE PassGuard(t)
    BY <1>4, <2>1, <2>2 DEF Plan, PassGuard, TypeOK, Go, rows, budget
  <2>3. CASE End(t) /\ UNCHANGED rows
    BY <1>4, <2>1, <2>3, EndKeepsTypes DEF Plan, TypeOK, rows, budget
  <2>4. QED
    BY <1>4, <2>2, <2>3 DEF Plan
<1>5. ASSUME NEW c \in Callers, Ask(c) PROVE TypeOK'
  <2>1. c \in Starters
    BY DEF Starters
  <2>2. QED
    BY <1>5, <2>1 DEF Ask, PassGuard, TypeOK, Go, rows, schedule, budget
<1>6. ASSUME NEW c \in Starters, CreateRun(c) PROVE TypeOK'
  <2>1. Fresh \in Runs
    BY <1>6, FreshIsFree DEF CreateRun, Free
  <2>2. rivals' \in [Starters -> SUBSET Runs]
    BY <1>6, <2>1 DEF CreateRun, TypeOK
  <2>3. QED
    BY <1>6, <2>1, <2>2 DEF CreateRun, TypeOK, Go, schedule, budget
<1>7. ASSUME NEW c \in Starters, NothingToAudit(c) PROVE TypeOK'
  BY <1>7, EndKeepsTypes DEF NothingToAudit, TypeOK, rows, schedule, budget
<1>8. ASSUME NEW c \in Starters, Launch(c) PROVE TypeOK'
  BY <1>8, EndKeepsTypes DEF Launch, TypeOK, Active, schedule, budget
<1>9. ASSUME NEW c \in Starters, Die(c) PROVE TypeOK'
  BY <1>9, EndKeepsTypes DEF Die, TypeOK, rows, schedule
<1>10. ASSUME NEW r \in Runs, RunCloses(r) PROVE TypeOK'
  BY <1>10 DEF RunCloses, Close, Forget, TypeOK, schedule, budget
<1>11. ASSUME NEW r \in Runs, Control(r) PROVE TypeOK'
  <2>1. CASE Close(r)
    BY <1>11, <2>1 DEF Control, Close, Forget, TypeOK, schedule, budget
  <2>2. CASE run' = [run EXCEPT ![r] = "paused"] /\ UNCHANGED <<started, beside, rivals>>
    BY <1>11, <2>2 DEF Control, TypeOK, schedule, budget
  <2>3. CASE run' = [run EXCEPT ![r] = "running"] /\ UNCHANGED <<started, beside, rivals>>
    BY <1>11, <2>3 DEF Control, TypeOK, schedule, budget
  <2>4. QED
    BY <1>11, <2>1, <2>2, <2>3 DEF Control
<1>12. ASSUME BecomeDue PROVE TypeOK'
  BY <1>12 DEF BecomeDue, TypeOK, rows, work, budget
<1>13. ASSUME NEW enabled \in BOOLEAN, NEW cron \in Crons, SaveSchedule(enabled, cron)
       PROVE  TypeOK'
  BY <1>13 DEF SaveSchedule, TypeOK, rows, work
<1>14. CASE UNCHANGED vars
  BY <1>14 DEF TypeOK, vars, rows, schedule, work, budget
<1>15. QED
  BY <1>1, <1>2, <1>3, <1>4, <1>5, <1>6, <1>7, <1>8, <1>9, <1>10, <1>11, <1>12, <1>13,
     <1>14 DEF Next, TickSteps, StartSteps

\* Every row, starter and schedule of a site keeps its type, and an enabled schedule
\* always has a next firing: nothing a tick or an edit does leaves it without one.
THEOREM TypeCorrect == Spec => []TypeOK
PROOF BY TypeInit, TypeStep, PTL DEF Spec

-----------------------------------------------------------------------------
(* The overlap guard. *)

\* A starter that passed the guard has seen created every run that is active now:
\* there was none when it looked.
GuardSawNone == \A c \in Starters : at[c] = "create" => Active \subseteq rivals[c]

OverlapInv == TypeOK /\ GuardSawNone /\ OneRunUnlessRaced

LEMMA OverlapInit == Init => GuardSawNone /\ OneRunUnlessRaced
PROOF BY DEF Init, GuardSawNone, OneRunUnlessRaced, Active, Starters

\* Closing runs removes them from the active ones and from every history alike.
LEMMA ClosingKeepsOverlap ==
  ASSUME OverlapInv, NEW closed \in SUBSET Runs, Forget(closed),
         Active' \subseteq Active \ closed,
         \A c \in Starters : at'[c] = "create" => at[c] = "create"
  PROVE  GuardSawNone' /\ OneRunUnlessRaced'
PROOF
<1>1. GuardSawNone'
  BY DEF OverlapInv, GuardSawNone, Forget
<1>2. OneRunUnlessRaced'
  <2> SUFFICES ASSUME NEW r \in Active', NEW s \in Active', r # s
               PROVE  s \in beside'[r] \/ r \in beside'[s]
    BY DEF OneRunUnlessRaced
  <2>1. /\ r \in Active /\ s \in Active
        /\ r \notin closed /\ s \notin closed
        /\ r \in Runs /\ s \in Runs
    BY DEF Active
  <2>2. s \in beside[r] \/ r \in beside[s]
    BY <2>1 DEF OverlapInv, OneRunUnlessRaced
  <2>3. QED
    BY <2>1, <2>2 DEF Forget
<1>3. QED
  BY <1>1, <1>2

\* Steps that create and close nothing, and let nobody through the guard.
LEMMA QuietKeepsOverlap ==
  ASSUME OverlapInv, Active' \subseteq Active, UNCHANGED beside,
         \A c \in Starters : at'[c] = "create" => at[c] = "create" /\ rivals'[c] = rivals[c]
  PROVE  GuardSawNone' /\ OneRunUnlessRaced'
PROOF
<1>1. GuardSawNone'
  BY DEF OverlapInv, GuardSawNone
<1>2. OneRunUnlessRaced'
  BY DEF OverlapInv, OneRunUnlessRaced
<1>3. QED
  BY <1>1, <1>2

LEMMA GuardKeepsOverlap ==
  ASSUME OverlapInv, NEW c \in Starters, PassGuard(c)
  PROVE  GuardSawNone' /\ OneRunUnlessRaced'
PROOF
<1>1. Active = {} /\ Active' = {}
  BY DEF PassGuard, rows, Active
<1>2. QED
  BY <1>1 DEF GuardSawNone, OneRunUnlessRaced

LEMMA CreateKeepsOverlap ==
  ASSUME OverlapInv, NEW c \in Starters, CreateRun(c)
  PROVE  GuardSawNone' /\ OneRunUnlessRaced'
PROOF
<1>1. Fresh \in Runs /\ Fresh \notin Active
  BY FreshIsFree DEF CreateRun, Free, Active
<1>2. Active' \subseteq Active \cup {Fresh}
  BY <1>1 DEF CreateRun, OverlapInv, TypeOK, Active
<1>3. Active \subseteq rivals[c]
  BY DEF OverlapInv, GuardSawNone, CreateRun
<1>4. GuardSawNone'
  <2> SUFFICES ASSUME NEW d \in Starters, at'[d] = "create"
               PROVE  Active' \subseteq rivals'[d]
    BY DEF GuardSawNone
  <2>1. d # c /\ at[d] = "create"
    BY DEF CreateRun, Go, OverlapInv, TypeOK
  <2>2. rivals'[d] = rivals[d] \cup {Fresh}
    BY <2>1 DEF CreateRun
  <2>3. QED
    BY <1>2, <2>1, <2>2 DEF OverlapInv, GuardSawNone
<1>5. OneRunUnlessRaced'
  <2> SUFFICES ASSUME NEW r \in Active', NEW s \in Active', r # s
               PROVE  s \in beside'[r] \/ r \in beside'[s]
    BY DEF OneRunUnlessRaced
  <2>1. r \in Runs /\ s \in Runs
    BY DEF Active
  <2>2. beside' = [beside EXCEPT ![Fresh] = rivals[c]] /\ beside \in [Runs -> SUBSET Runs]
    BY DEF CreateRun, OverlapInv, TypeOK
  <2>3. CASE r = Fresh
    BY <1>1, <1>2, <1>3, <2>1, <2>2, <2>3
  <2>4. CASE s = Fresh
    BY <1>1, <1>2, <1>3, <2>1, <2>2, <2>4
  <2>5. CASE r # Fresh /\ s # Fresh
    BY <1>2, <2>1, <2>2, <2>5 DEF OverlapInv, OneRunUnlessRaced
  <2>6. QED
    BY <2>3, <2>4, <2>5
<1>6. QED
  BY <1>4, <1>5

LEMMA OverlapStep == OverlapInv /\ [Next]_vars => GuardSawNone' /\ OneRunUnlessRaced'
PROOF
<1> SUFFICES ASSUME OverlapInv, [Next]_vars PROVE GuardSawNone' /\ OneRunUnlessRaced'
  OBVIOUS
<1> USE DEF OverlapInv
<1>a. Ticks \subseteq Starters /\ Callers \subseteq Starters
  BY DEF Starters
<1>1. ASSUME NEW t \in Ticks, Reconcile(t) PROVE GuardSawNone' /\ OneRunUnlessRaced'
  <2>1. PICK old \in SUBSET {r \in Runs : run[r] = "running"} :
          /\ run' = [r \in Runs |-> IF r \in old THEN "none" ELSE run[r]]
          /\ Forget(old)
    BY <1>1 DEF Reconcile
  <2>2. Active' \subseteq Active \ old
    BY <2>1 DEF Active
  <2>3. \A c \in Starters : at'[c] = "create" => at[c] = "create"
    BY <1>1, <1>a DEF Reconcile, Go, TypeOK
  <2>4. old \in SUBSET Runs
    OBVIOUS
  <2>5. QED
    BY <2>1, <2>2, <2>3, <2>4, ClosingKeepsOverlap
<1>2. ASSUME NEW t \in Ticks, ReadDue(t) \/ Advance(t)
      PROVE  GuardSawNone' /\ OneRunUnlessRaced'
  <2>1. Active' = Active /\ UNCHANGED beside
    BY <1>2 DEF ReadDue, Advance, rows, Active
  <2>2. \A c \in Starters : at'[c] = "create" => at[c] = "create" /\ rivals'[c] = rivals[c]
    BY <1>2, <1>a DEF ReadDue, Advance, Go, TypeOK
  <2>3. QED
    BY <2>1, <2>2, QuietKeepsOverlap
<1>3. ASSUME NEW c \in Starters, End(c), UNCHANGED <<run, beside>>
      PROVE  GuardSawNone' /\ OneRunUnlessRaced'
  <2>1. Active' = Active
    BY <1>3 DEF Active
  <2>2. \A d \in Starters : at'[d] = "create" => at[d] = "create" /\ rivals'[d] = rivals[d]
    BY <1>3 DEF End, Go, TypeOK
  <2>3. QED
    BY <1>3, <2>1, <2>2, QuietKeepsOverlap
<1>4. ASSUME NEW t \in Ticks, Plan(t) PROVE GuardSawNone' /\ OneRunUnlessRaced'
  BY <1>3, <1>4, <1>a, GuardKeepsOverlap DEF Plan, rows
<1>5. ASSUME NEW c \in Callers, Ask(c) PROVE GuardSawNone' /\ OneRunUnlessRaced'
  BY <1>5, <1>a, GuardKeepsOverlap DEF Ask
<1>6. ASSUME NEW c \in Starters, NothingToAudit(c) \/ Launch(c) \/ Die(c)
      PROVE  GuardSawNone' /\ OneRunUnlessRaced'
  BY <1>3, <1>6 DEF NothingToAudit, Launch, Die, rows
<1>7. ASSUME NEW r \in Runs, Close(r), UNCHANGED at
      PROVE  GuardSawNone' /\ OneRunUnlessRaced'
  <2>1. Active' \subseteq Active \ {r}
    BY <1>7 DEF Close, Active, TypeOK
  <2>2. QED
    BY <1>7, <2>1, ClosingKeepsOverlap, {r} \in SUBSET Runs DEF Close
<1>8. ASSUME NEW r \in Runs, RunCloses(r) PROVE GuardSawNone' /\ OneRunUnlessRaced'
  BY <1>7, <1>8 DEF RunCloses
<1>9. ASSUME NEW r \in Runs, Control(r) PROVE GuardSawNone' /\ OneRunUnlessRaced'
  <2>1. CASE Close(r)
    BY <1>7, <1>9, <2>1 DEF Control
  <2>2. CASE ~Close(r)
    <3>1. Active' = Active /\ UNCHANGED <<beside, rivals, at>>
      BY <1>9, <2>2 DEF Control, Active, TypeOK
    <3>2. QED
      BY <3>1, QuietKeepsOverlap
  <2>3. QED
    BY <2>1, <2>2
<1>10. ASSUME \/ BecomeDue
              \/ \E enabled \in BOOLEAN, cron \in Crons : SaveSchedule(enabled, cron)
              \/ UNCHANGED vars
       PROVE  GuardSawNone' /\ OneRunUnlessRaced'
  <2>1. UNCHANGED <<run, beside, rivals, at>>
    BY <1>10 DEF BecomeDue, SaveSchedule, vars, rows, work
  <2>2. QED
    BY <2>1, QuietKeepsOverlap DEF Active
<1>11. QED
  BY <1>1, <1>2, <1>4, <1>5, <1>6, <1>8, <1>9, <1>10, CreateKeepsOverlap
     DEF Next, TickSteps, StartSteps

\* Two runs of one site are active together only if one was created between the
\* other's guard and its creation, whoever holds, stops, resumes or buries runs and
\* whoever dies: the overlap guard leaks through that window and nowhere else.
THEOREM OverlapNeedsRace == Spec => []OneRunUnlessRaced
PROOF
<1>1. Init => OverlapInv
  BY TypeInit, OverlapInit DEF OverlapInv
<1>2. OverlapInv /\ [Next]_vars => OverlapInv'
  BY TypeStep, OverlapStep DEF OverlapInv
<1>3. OverlapInv => OneRunUnlessRaced
  BY DEF OverlapInv
<1>4. QED
  BY <1>1, <1>2, <1>3, PTL DEF Spec

-----------------------------------------------------------------------------
(* A firing. *)

Awaiting == {t \in Ticks : at[t] \in {"advance", "guard"}}

(***************************************************************************)
(* FiredOnce is not inductive: the ticks that may still plan the firing     *)
(* count as well, and none of them is past advancing while the schedule is  *)
(* still due.                                                               *)
(***************************************************************************)
StillDue == sched.next = "due" => fired = 0 /\ \A t \in Ticks : at[t] # "guard"
FiringInv == fired + Cardinality(Awaiting) <= together /\ StillDue

LEMMA AwaitingIsCounted ==
  /\ IsFiniteSet(Awaiting) /\ Cardinality(Awaiting) \in Nat
  /\ IsFiniteSet(Awaiting') /\ Cardinality(Awaiting') \in Nat
PROOF
<1>1. IsFiniteSet(Awaiting) /\ IsFiniteSet(Awaiting')
  BY SchedulerAssumption, FS_Subset, Awaiting \subseteq Ticks, Awaiting' \subseteq Ticks
  DEF Awaiting
<1>2. QED
  BY <1>1, FS_CardinalityType

LEMMA FiringInit == Init => FiringInv
PROOF
<1> SUFFICES ASSUME Init PROVE FiringInv
  OBVIOUS
<1>1. \A t \in Ticks : at[t] = "idle"
  BY DEF Init, Starters
<1>2. Cardinality(Awaiting) = 0 /\ Awaiting = {}
  BY <1>1, FS_EmptySet DEF Awaiting
<1>3. QED
  BY <1>1, <1>2 DEF Init, FiringInv, StillDue

\* Steps that fire nothing, and after which no more ticks await it than before.
LEMMA FewerAwait ==
  ASSUME TypeOK, FiringInv, UNCHANGED <<fired, together>>,
         \A t \in Ticks : /\ at'[t] \in {"advance", "guard"} => at[t] \in {"advance", "guard"}
                          /\ sched'.next = "due" /\ at'[t] = "guard" => at[t] = "guard",
         sched'.next = "due" => sched.next = "due"
  PROVE  FiringInv'
PROOF
<1>1. Awaiting' \subseteq Awaiting
  BY DEF Awaiting
<1>2. Cardinality(Awaiting') <= Cardinality(Awaiting)
  BY <1>1, AwaitingIsCounted, FS_Subset
<1>3. QED
  BY <1>2, AwaitingIsCounted DEF FiringInv, StillDue, TypeOK

\* A tick that reads the schedule due is one more that holds the firing.
LEMMA ReadKeepsFiring ==
  ASSUME TypeOK, FiringInv, NEW t \in Ticks, ReadDue(t)
  PROVE  FiringInv'
PROOF
<1>0. t \in Starters /\ Ticks \subseteq Starters /\ UNCHANGED <<sched, fired>>
  BY DEF Starters, ReadDue
<1>1. CASE ~(sched.enabled /\ sched.next = "due")
  <2>1. UNCHANGED together /\ \A s \in Ticks : at'[s] = IF s = t THEN "idle" ELSE at[s]
    BY <1>0, <1>1 DEF ReadDue, Go, TypeOK
  <2>2. QED
    BY <1>0, <2>1, FewerAwait
<1>2. CASE sched.enabled /\ sched.next = "due"
  <2>1. /\ fired = 0 /\ Awaiting = Holding
        /\ \A s \in Ticks : at[s] # "guard"
    BY <1>2 DEF FiringInv, StillDue, Awaiting, Holding
  <2>2. \A s \in Ticks : at'[s] = IF s = t THEN "advance" ELSE at[s]
    BY <1>0, <1>2 DEF ReadDue, Go, TypeOK
  <2>3. Awaiting' = Awaiting \cup {t} /\ t \notin Awaiting
    BY <2>2 DEF Awaiting, ReadDue
  <2>4. Cardinality(Awaiting') = Cardinality(Holding) + 1
    BY <2>1, <2>3, AwaitingIsCounted, FS_AddElement
  <2>5. together' >= Cardinality(Holding) + 1
    BY <1>2, HoldingIsCounted DEF ReadDue, TypeOK
  <2>6. together' \in Nat
    BY <1>2, HoldingIsCounted DEF ReadDue, TypeOK
  <2>7. QED
    BY <1>0, <2>1, <2>2, <2>4, <2>5, <2>6, HoldingIsCounted DEF FiringInv, StillDue
<1>3. QED
  BY <1>1, <1>2

\* Planning spends one of those that awaited.
LEMMA PlanKeepsFiring ==
  ASSUME TypeOK, FiringInv, NEW t \in Ticks, Plan(t)
  PROVE  FiringInv'
PROOF
<1>0. t \in Starters /\ Ticks \subseteq Starters
  BY DEF Starters
<1>1. /\ at[t] = "guard" /\ sched.next # "due" /\ sched' = sched
      /\ fired' = fired + 1 /\ together' = together
  BY DEF Plan, FiringInv, StillDue
<1>2. at'[t] \in {"create", "idle"} /\ \A s \in Ticks : s # t => at'[s] = at[s]
  BY <1>0 DEF Plan, PassGuard, End, Go, TypeOK
<1>3. t \in Awaiting /\ Awaiting' = Awaiting \ {t}
  BY <1>1, <1>2 DEF Awaiting
<1>4. Cardinality(Awaiting') = Cardinality(Awaiting) - 1
  BY <1>3, AwaitingIsCounted, FS_RemoveElement
<1>5. QED
  BY <1>1, <1>4, AwaitingIsCounted DEF FiringInv, StillDue, TypeOK

LEMMA FiringStep == TypeOK /\ FiringInv /\ [Next]_vars => FiringInv'
PROOF
<1> SUFFICES ASSUME TypeOK, FiringInv, [Next]_vars PROVE FiringInv'
  OBVIOUS
<1>a. Ticks \subseteq Starters /\ Callers \subseteq Starters /\ Ticks \cap Callers = {}
  BY SchedulerAssumption DEF Starters
<1>1. ASSUME NEW t \in Ticks, Reconcile(t) PROVE FiringInv'
  <2>1. UNCHANGED schedule /\ \A s \in Ticks : at'[s] = IF s = t THEN "due?" ELSE at[s]
    BY <1>1, <1>a DEF Reconcile, Go, TypeOK
  <2>2. QED
    BY <2>1, FewerAwait DEF schedule
<1>2. ASSUME NEW t \in Ticks, Advance(t) PROVE FiringInv'
  <2>1. /\ at[t] = "advance" /\ sched'.next = "later" /\ UNCHANGED <<fired, together>>
        /\ \A s \in Ticks : at'[s] = IF s = t THEN "guard" ELSE at[s]
    BY <1>2, <1>a DEF Advance, Go, TypeOK
  <2>2. QED
    BY <2>1, FewerAwait
<1>3. ASSUME NEW c \in Callers, Ask(c) PROVE FiringInv'
  <2>1. UNCHANGED schedule /\ \A s \in Ticks : at'[s] = at[s]
    BY <1>3, <1>a DEF Ask, PassGuard, Go, TypeOK
  <2>2. QED
    BY <2>1, FewerAwait DEF schedule
<1>4. ASSUME NEW c \in Starters, StartSteps(c) \/ Die(c) PROVE FiringInv'
  <2>1. /\ UNCHANGED schedule
        /\ \E place \in {"idle", "launch"} : \A s \in Ticks :
             at'[s] = IF s = c THEN place ELSE at[s]
    BY <1>4, <1>a DEF StartSteps, CreateRun, NothingToAudit, Launch, Die, End, Go, TypeOK
  <2>2. QED
    BY <2>1, FewerAwait DEF schedule
<1>5. ASSUME NEW r \in Runs, RunCloses(r) \/ Control(r) PROVE FiringInv'
  <2>1. UNCHANGED <<schedule, at>>
    BY <1>5 DEF RunCloses, Control
  <2>2. QED
    BY <2>1, FewerAwait DEF schedule
<1>6. ASSUME BecomeDue PROVE FiringInv'
  <2>1. /\ fired' = 0 /\ together' = 0 /\ \A t \in Ticks : at'[t] \in {"idle", "due?"}
    BY <1>6 DEF BecomeDue, work
  <2>2. Cardinality(Awaiting') = 0
    <3>1. Awaiting' = {}
      BY <2>1 DEF Awaiting
    <3>2. QED
      BY <3>1, FS_EmptySet
  <2>3. QED
    BY <2>1, <2>2 DEF FiringInv, StillDue
<1>7. ASSUME NEW enabled \in BOOLEAN, NEW cron \in Crons, SaveSchedule(enabled, cron)
      PROVE  FiringInv'
  <2>1. UNCHANGED <<fired, together, at>> /\ sched'.next # "due"
    BY <1>7 DEF SaveSchedule, work
  <2>2. QED
    BY <2>1, FewerAwait
<1>8. CASE UNCHANGED vars
  <2>1. UNCHANGED <<schedule, at>>
    BY <1>8 DEF vars, work
  <2>2. QED
    BY <2>1, FewerAwait DEF schedule
<1>9. QED
  BY <1>1, <1>2, <1>3, <1>4, <1>5, <1>6, <1>7, <1>8, ReadKeepsFiring, PlanKeepsFiring
     DEF Next, TickSteps

\* A firing is planned at most once for each tick that held it at one time: advancing
\* the schedule before planning keeps every later tick from firing it again, even when
\* the one that advanced it dies.
THEOREM FiresOnce == Spec => []FiredOnce
PROOF
<1>1. TypeOK /\ FiringInv => FiredOnce
  BY AwaitingIsCounted DEF FiringInv, FiredOnce, TypeOK
<1>2. QED
  BY <1>1, FiringInit, FiringStep, TypeInit, TypeStep, PTL DEF Spec

=============================================================================
