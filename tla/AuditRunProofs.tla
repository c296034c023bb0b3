---------------------------- MODULE AuditRunProofs ----------------------------
(***************************************************************************)
(* Theorems about AuditRun, for every number of pairs, workflows, users,    *)
(* attempts, crashes and rejected steps, with or without a cron tick.       *)
(***************************************************************************)
EXTENDS AuditRun, FiniteSetTheorems, TLAPS

-----------------------------------------------------------------------------
(* Types. *)

LEMMA ConstantStates ==
  /\ IdleStep \in StepState
  /\ FirstCall \in StepState
  /\ SettledStep \in StepState
  /\ IdleTick \in TickState
BY BoundsAssumption DEF IdleStep, FirstCall, SettledStep, IdleTick, StepState, TickState, Status

LEMMA SubsetsFinite ==
  ASSUME NEW S \in SUBSET Pairs
  PROVE  IsFiniteSet(S) /\ Cardinality(S) \in Nat
BY PairsAssumption, FS_Subset, FS_CardinalityType

\* Returning from a workflow and clearing its steps keep the types.
LEMMA ReturnTypes ==
  ASSUME TypeOK, NEW w \in Workflows
  PROVE  /\ ClearSteps(w) => step' \in [Workflows \X Slot -> StepState]
         /\ Return(w) => /\ step' \in [Workflows \X Slot -> StepState]
                         /\ todo' \in [Workflows -> SUBSET Pairs]
                         /\ phase' \in [Workflows -> {"idle", "loop", "batch", "held", "backstop"}]
<1>1. ClearSteps(w) => step' \in [Workflows \X Slot -> StepState]
  <2>1. \A wx \in Workflows \X Slot :
          (IF wx[1] = w THEN IdleStep ELSE step[wx]) \in StepState
    BY ConstantStates, Zenon DEF TypeOK
  <2>. QED
    BY <2>1, Zenon DEF ClearSteps
<1>. QED
  BY <1>1 DEF TypeOK, Return, GoTo

\* A step that is replaced, or moves, is still a step.
LEMMA SetTypes ==
  ASSUME TypeOK, NEW w \in Workflows, NEW x \in Slot, NEW s \in StepState
  PROVE  [step EXCEPT ![<<w, x>>] = s] \in [Workflows \X Slot -> StepState]
BY DEF TypeOK

LEMMA MoveTypes ==
  ASSUME TypeOK, NEW w \in Workflows, NEW x \in Slot, NEW at \in {"fin", "notify"},
         at = "notify" => step[<<w, x>>].at = "finwrite"
  PROVE  [step EXCEPT ![<<w, x>>].at = at] \in [Workflows \X Slot -> StepState]
<1>1. step[<<w, x>>] \in StepState
  BY DEF TypeOK
<1>2. [step[<<w, x>>] EXCEPT !.at = at] \in StepState
  BY <1>1 DEF StepState
<1>. QED
  BY <1>1, <1>2 DEF TypeOK

LEMMA JudgeTypes ==
  ASSUME TypeOK, NEW w \in Workflows, NEW x \in Slot, NEW at \in {"finwrite", "notify"},
         NEW saw \in Status
  PROVE  [step EXCEPT ![<<w, x>>].at = at, ![<<w, x>>].saw = saw]
           \in [Workflows \X Slot -> StepState]
<1>1. step[<<w, x>>] \in StepState
  BY DEF TypeOK
<1>2. saw # "none"
  BY DEF Status, Terminal
<1>3. [step[<<w, x>>] EXCEPT !.at = at, !.saw = saw] \in StepState
  BY <1>1, <1>2 DEF StepState
<1>. QED
  BY <1>1, <1>3 DEF TypeOK

LEMMA InitTypes == Init => TypeOK
<1>. SUFFICES ASSUME Init PROVE TypeOK
  OBVIOUS
<1>1. step \in [Workflows \X Slot -> StepState] /\ tick \in TickState
  BY ConstantStates, Zenon DEF Init
<1>2. totalJobs \in Nat /\ completedJobs \in Nat /\ failedJobs \in Nat
  BY SubsetsFinite DEF Init
<1>3. /\ notices \in 0..NoticeCap /\ landed \in 0..(BatchSize + 1)
      /\ crashes \in 0..MaxCrashes /\ rejects \in 0..MaxRejects
  BY BoundsAssumption DEF Init
<1>4. /\ kind \in Kinds /\ plan \in SUBSET Pairs /\ live \in SUBSET Pairs
      /\ status \in Status /\ launched \in BOOLEAN /\ overdue \in BOOLEAN
  BY DEF Init, Status
<1>5. /\ results \in [Pairs -> Outcome]
      /\ phase \in [Workflows -> {"idle", "loop", "batch", "held", "backstop"}]
      /\ todo \in [Workflows -> SUBSET Pairs]
      /\ intent \in [Users -> {"none", "pause", "resume", "stop", "done"}]
  BY DEF Init, Outcome
<1>. QED
  BY <1>1, <1>2, <1>3, <1>4, <1>5 DEF TypeOK

LEMMA LaunchTypes ==
  ASSUME TypeOK, NEW w \in Workflows, Launch(w)
  PROVE  TypeOK'
BY DEF TypeOK, Launch, StartWorkflow, row, env

LEMMA WorkflowTypes ==
  ASSUME TypeOK, NEW w \in Workflows, WorkflowMoves(w)
  PROVE  TypeOK'
<1>1. ASSUME NEW batch \in SUBSET todo[w], StartBatch(w, batch)
      PROVE  TypeOK'
  BY <1>1, ConstantStates DEF TypeOK, StartBatch, GoTo, made, row, env
<1>2. ASSUME CheckStatus(w)
      PROVE  TypeOK'
  BY <1>2, ReturnTypes DEF TypeOK, CheckStatus, GoTo, made, row, env
<1>3. ASSUME PollHeld(w)
      PROVE  TypeOK'
  BY <1>3, ReturnTypes DEF TypeOK, PollHeld, GoTo, made, row, env
<1>4. ASSUME ReconcileIfNeeded(w)
      PROVE  TypeOK'
  <2>1. CASE status # "running"
    BY <1>4, <2>1, ReturnTypes DEF TypeOK, ReconcileIfNeeded, made, row, env
  <2>2. CASE status = "running"
    <3>1. step' \in [Workflows \X Slot -> StepState]
      <4>1. Backstop \in Slot
        BY DEF Slot
      <4>2. [step EXCEPT ![<<w, Backstop>>].at = "fin"] \in [Workflows \X Slot -> StepState]
        BY <4>1, MoveTypes
      <4>. QED
        BY <1>4, <2>2, <4>2, Zenon DEF ReconcileIfNeeded
    <3>. QED
      BY <1>4, <2>2, <3>1 DEF TypeOK, ReconcileIfNeeded, GoTo, made, row, env
  <2>. QED
    BY <2>1, <2>2
<1>5. ASSUME BackstopDone(w)
      PROVE  TypeOK'
  BY <1>5, ReturnTypes DEF TypeOK, BackstopDone, made, row, env
<1>. QED
  BY <1>1, <1>2, <1>3, <1>4, <1>5 DEF WorkflowMoves

\* A transaction touches the results, the two counters and the count of late rows.
LEMMA RecordTypes ==
  ASSUME TypeOK, NEW p \in Pairs, NEW outcome \in {"ok", "error"},
         RecordAuditResult(p, outcome)
  PROVE  /\ results' \in [Pairs -> Outcome]
         /\ completedJobs' \in Nat
         /\ failedJobs' \in Nat
         /\ landed' \in 0..(BatchSize + 1)
BY BoundsAssumption DEF TypeOK, RecordAuditResult, Outcome, Smaller

LEMMA MeasureTypes ==
  ASSUME TypeOK, NEW w \in Workflows, NEW p \in Pairs, NEW outcome \in {"ok", "error"},
         Measure(w, p, outcome)
  PROVE  TypeOK'
<1>1. step' \in [Workflows \X Slot -> StepState]
  <2>1. p \in Slot
    BY DEF Slot
  <2>2. [step EXCEPT ![<<w, p>>].at = "fin"] \in [Workflows \X Slot -> StepState]
    BY <2>1, MoveTypes
  <2>3. [step EXCEPT ![<<w, p>>] = SettledStep] \in [Workflows \X Slot -> StepState]
    BY <2>1, ConstantStates, SetTypes
  <2>. QED
    BY <2>2, <2>3, Zenon DEF Measure, AfterRecord, Settle
<1>. QED
  BY <1>1, RecordTypes DEF TypeOK, Measure, made

LEMMA StepTypes ==
  ASSUME TypeOK, NEW w \in Workflows, NEW p \in Pairs, StepMoves(w, p)
  PROVE  TypeOK'
<1>1. ASSUME KeyDenied(w, p)
      PROVE  TypeOK'
  <2>1. step' \in [Workflows \X Slot -> StepState]
    BY <1>1, ConstantStates DEF KeyDenied, Settle, TypeOK
  <2>. QED
    BY <1>1, <2>1, RecordTypes DEF TypeOK, KeyDenied, made
<1>2. ASSUME AttemptFails(w, p)
      PROVE  TypeOK'
  <2>1. /\ step[<<w, p>>] \in StepState
        /\ step[<<w, p>>].tries + 1 \in 1..PSI_MAX_ATTEMPTS
    BY <1>2, BoundsAssumption DEF AttemptFails, StepState, Slot, TypeOK
  <2>2. step' \in [Workflows \X Slot -> StepState]
    BY <1>2, <2>1 DEF AttemptFails, TypeOK, StepState
  <2>. QED
    BY <1>2, <2>2 DEF TypeOK, AttemptFails, made, row, env
<1>. QED
  BY <1>1, <1>2, MeasureTypes DEF StepMoves, AttemptsExhausted

LEMMA FinalizeTypes ==
  ASSUME TypeOK, NEW w \in Workflows, NEW x \in Slot, Finalizes(w, x)
  PROVE  TypeOK'
<1>1. ASSUME FinalizeRead(w, x)
      PROVE  TypeOK'
  <2>1. Verdict \in Status /\ status \in Status
    BY DEF Verdict, Status, Terminal, TypeOK
  <2>2. /\ [step EXCEPT ![<<w, x>>].at = "notify", ![<<w, x>>].saw = status]
             \in [Workflows \X Slot -> StepState]
        /\ [step EXCEPT ![<<w, x>>].at = "finwrite", ![<<w, x>>].saw = Verdict]
             \in [Workflows \X Slot -> StepState]
    BY <2>1, JudgeTypes
  <2>3. step' \in [Workflows \X Slot -> StepState]
    BY <1>1, <2>2, Zenon DEF FinalizeRead
  <2>. QED
    BY <1>1, <2>3 DEF TypeOK, FinalizeRead, made, row, env
<1>2. ASSUME FinalizeWrite(w, x)
      PROVE  TypeOK'
  <2>1. step[<<w, x>>].at = "finwrite" /\ step[<<w, x>>] \in StepState
    BY <1>2 DEF FinalizeWrite, TypeOK
  <2>2. status' \in Status
    BY <1>2, <2>1 DEF FinalizeWrite, StepState
  <2>3. [step EXCEPT ![<<w, x>>].at = "notify"] \in [Workflows \X Slot -> StepState]
    BY <2>1, MoveTypes
  <2>4. step' \in [Workflows \X Slot -> StepState]
    BY <1>2, <2>3, Zenon DEF FinalizeWrite
  <2>. QED
    BY <1>2, <2>2, <2>4 DEF TypeOK, FinalizeWrite, made, env
<1>3. ASSUME Notify(w, x)
      PROVE  TypeOK'
  <2>1. step' \in [Workflows \X Slot -> StepState]
    BY <1>3, ConstantStates DEF Notify, Settle, TypeOK
  <2>2. notices' \in 0..NoticeCap
    BY <1>3, BoundsAssumption DEF Notify, TypeOK
  <2>. QED
    BY <1>3, <2>1, <2>2 DEF TypeOK, Notify, made, row
<1>. QED
  BY <1>1, <1>2, <1>3 DEF Finalizes

\* The tick, its reads and its writes.
LEMMA TickTypes ==
  ASSUME TypeOK, TickMoves
  PROVE  TypeOK'
<1>1. ASSUME TickOpen
      PROVE  TypeOK'
  BY <1>1, ConstantStates DEF TickOpen, TypeOK, TickState, made, row, wf, env
<1>2. ASSUME TickBury
      PROVE  TypeOK'
  BY <1>2, ConstantStates DEF TickBury, TypeOK, Status, Terminal, made, wf, env
<1>3. ASSUME TickExpand
      PROVE  TypeOK'
  <2>1. ExpandedScope \in SUBSET Pairs
    BY DEF ExpandedScope, TypeOK
  <2>2. tick' \in TickState
    BY <1>3, <2>1 DEF TickExpand, TypeOK, TickState
  <2>. QED
    BY <1>3, <2>2 DEF TickExpand, TypeOK, made, row, wf, env
<1>4. ASSUME TickCount
      PROVE  TypeOK'
  <2>1. Recorded \in SUBSET Pairs /\ Errors \in SUBSET Pairs
    BY DEF Recorded, Errors
  <2>2. tick' \in TickState
    BY <1>4, <2>1 DEF TickCount, TypeOK, TickState
  <2>. QED
    BY <1>4, <2>2 DEF TickCount, TypeOK, made, row, wf, env
<1>5. ASSUME RefuseGrowth
      PROVE  TypeOK'
  BY <1>5, ConstantStates DEF RefuseGrowth, TypeOK, Status, Terminal, made, wf, env
<1>6. ASSUME ResumeWrite
      PROVE  TypeOK'
  <2>1. /\ tick.scope \in SUBSET Pairs
        /\ tick.seen \in SUBSET Pairs
        /\ tick.bad \in SUBSET Pairs
    BY DEF TypeOK, TickState
  <2>2. /\ Cardinality(tick.scope) \in Nat
        /\ Cardinality(tick.seen) \in Nat
        /\ Cardinality(tick.bad) \in Nat
    BY <2>1, SubsetsFinite
  <2>3. totalJobs' \in Nat
    BY <1>6, <2>2 DEF ResumeWrite, Smaller, Larger, TypeOK
  <2>4. tick' \in TickState
    BY <1>6 DEF ResumeWrite, TypeOK, TickState
  <2>5. completedJobs' \in Nat /\ failedJobs' \in Nat /\ status' \in Status
    BY <1>6, <2>2 DEF ResumeWrite, Status
  <2>. QED
    BY <1>6, <2>3, <2>4, <2>5 DEF ResumeWrite, TypeOK, made, wf, env
<1>7. ASSUME NEW w \in Workflows, ResumeDispatch(w)
      PROVE  TypeOK'
  <2>1. diffMissingPairs(tick.scope, tick.seen) \in SUBSET Pairs
    BY DEF diffMissingPairs, TypeOK, TickState
  <2>. QED
    BY <1>7, <2>1, ConstantStates DEF ResumeDispatch, StartWorkflow, TypeOK, made, row, env
<1>. QED
  BY <1>1, <1>2, <1>3, <1>4, <1>5, <1>6, <1>7 DEF TickMoves

LEMMA PeopleTypes ==
  ASSUME TypeOK
  PROVE  /\ \A u \in Users, action \in {"pause", "resume", "stop"} :
              ControlRead(u, action) => TypeOK'
         /\ \A u \in Users : ControlWrite(u) => TypeOK'
         /\ \A p \in Churn : IngestFlips(p) => TypeOK'
         /\ BecomeOverdue => TypeOK'
<1>1. ASSUME NEW u \in Users, NEW action \in {"pause", "resume", "stop"},
             ControlRead(u, action)
      PROVE  TypeOK'
  BY <1>1 DEF ControlRead, TypeOK, made, row, wf, env
<1>2. ASSUME NEW u \in Users, ControlWrite(u)
      PROVE  TypeOK'
  <2>1. status' \in Status
    BY <1>2 DEF ControlWrite, StatusOf, Status, Terminal
  <2>2. landed' \in 0..(BatchSize + 1)
    BY <1>2, BoundsAssumption DEF ControlWrite, TypeOK
  <2>. QED
    BY <1>2, <2>1, <2>2 DEF ControlWrite, TypeOK, made, wf
<1>3. ASSUME NEW p \in Churn, IngestFlips(p)
      PROVE  TypeOK'
  BY <1>3, ChurnAssumption DEF IngestFlips, TypeOK, made, row, wf
<1>4. ASSUME BecomeOverdue
      PROVE  TypeOK'
  BY <1>4 DEF BecomeOverdue, TypeOK, made, row, wf
<1>. QED
  BY <1>1, <1>2, <1>3, <1>4

LEMMA FaultTypes ==
  ASSUME TypeOK, Faults
  PROVE  TypeOK'
<1>1. Crash => crashes' \in 0..MaxCrashes
  BY BoundsAssumption DEF Crash, TypeOK
<1>2. ASSUME LaunchLost
      PROVE  TypeOK'
  BY <1>1, <1>2 DEF LaunchLost, TypeOK, row, wf
<1>3. ASSUME TickDies
      PROVE  TypeOK'
  BY <1>1, <1>3, ConstantStates DEF TickDies, TypeOK, made, row, wf
<1>4. ASSUME NEW w \in Workflows, BackstopDies(w)
      PROVE  TypeOK'
  BY <1>1, <1>4, ReturnTypes DEF BackstopDies, GoTo, TypeOK, made, row
<1>5. ASSUME NEW w \in Workflows, WorkflowDies(w)
      PROVE  TypeOK'
  BY <1>1, <1>5, ReturnTypes DEF WorkflowDies, TypeOK, made, row
<1>6. ASSUME NEW w \in Workflows, NEW p \in Pairs, StepDies(w, p)
      PROVE  TypeOK'
  <2>1. step' \in [Workflows \X Slot -> StepState]
    BY <1>6, ConstantStates DEF StepDies, TypeOK
  <2>. QED
    BY <1>1, <1>6, <2>1 DEF StepDies, TypeOK, made, row
<1>7. ASSUME NEW w \in Workflows, NEW p \in Pairs, FinalizeThrows(w, p)
      PROVE  TypeOK'
  <2>1. CASE step[<<w, p>>].tries < PSI_MAX_ATTEMPTS
    <3>1. step[<<w, p>>].tries + 1 \in 1..PSI_MAX_ATTEMPTS
      BY <2>1, BoundsAssumption DEF StepState, Slot, TypeOK
    <3>2. [FirstCall EXCEPT !.tries = step[<<w, p>>].tries + 1] \in StepState
      BY <3>1, ConstantStates DEF StepState, FirstCall
    <3>3. step' \in [Workflows \X Slot -> StepState]
      BY <1>7, <2>1, <3>2, ConstantStates DEF FinalizeThrows, Settle, TypeOK
    <3>. QED
      BY <1>1, <1>7, <3>3 DEF FinalizeThrows, TypeOK, made, row
  <2>2. CASE ~(step[<<w, p>>].tries < PSI_MAX_ATTEMPTS)
    <3>1. step' \in [Workflows \X Slot -> StepState]
      BY <1>7, <2>2, ConstantStates DEF FinalizeThrows, Settle, TypeOK
    <3>. QED
      BY <1>1, <1>7, <3>1 DEF FinalizeThrows, TypeOK, made, row
  <2>. QED
    BY <2>1, <2>2
<1>8. ASSUME NEW w \in Workflows, NEW p \in Pairs, StepRejected(w, p)
      PROVE  TypeOK'
  <2>1. step' \in [Workflows \X Slot -> StepState]
    BY <1>8, ConstantStates DEF StepRejected, Settle, TypeOK
  <2>2. rejects' \in 0..MaxRejects
    BY <1>8, BoundsAssumption DEF StepRejected, TypeOK
  <2>. QED
    BY <1>8, <2>1, <2>2 DEF StepRejected, TypeOK, made, row
<1>. QED
  BY <1>2, <1>3, <1>4, <1>5, <1>6, <1>7, <1>8 DEF Faults

\* Every variable keeps its type: in particular the verdict a finalizer writes is
\* always one it has computed.
THEOREM TypeCorrect == Spec => []TypeOK
<1>1. TypeOK /\ [Next]_vars => TypeOK'
  <2>. SUFFICES ASSUME TypeOK, [Next]_vars
                PROVE  TypeOK'
    OBVIOUS
  <2>1. CASE UNCHANGED vars
    BY <2>1 DEF TypeOK, vars
  <2>2. CASE Next
    BY <2>2, LaunchTypes, WorkflowTypes, StepTypes, FinalizeTypes, TickTypes, PeopleTypes,
       FaultTypes DEF Next
  <2>. QED
    BY <2>1, <2>2
<1>. QED
  BY <1>1, InitTypes, PTL DEF Spec

-----------------------------------------------------------------------------
(* The row and the rows: what any step does to the counters.                 *)

\* A step that leaves the counters and the results alone, and in which the tick
\* keeps what it has counted, forgets it, or counts now.
Quiet ==
  /\ UNCHANGED <<results, completedJobs, failedJobs, totalJobs>>
  /\ \/ tick'.seen = tick.seen /\ tick'.bad = tick.bad
     \/ tick'.seen = {} /\ tick'.bad = {}
     \/ tick'.seen = Recorded /\ tick'.bad = Errors

Records(p, outcome) == RecordAuditResult(p, outcome) /\ UNCHANGED <<totalJobs, tick>>

LEMMA QuietTick ==
  ASSUME TypeOK, TickMoves
  PROVE  Quiet \/ ResumeWrite
<1>1. TickOpen => Quiet
  BY DEF TickOpen, Quiet, IdleTick, TypeOK, TickState, row
<1>2. TickBury => Quiet
  BY DEF TickBury, Quiet, IdleTick
<1>3. TickExpand => Quiet
  BY DEF TickExpand, Quiet, TypeOK, TickState, row
<1>4. TickCount => Quiet
  BY DEF TickCount, Quiet, TypeOK, TickState, row
<1>5. RefuseGrowth => Quiet
  BY DEF RefuseGrowth, Quiet, IdleTick
<1>6. ASSUME NEW w \in Workflows, ResumeDispatch(w)
      PROVE  Quiet
  BY <1>6 DEF ResumeDispatch, Quiet, IdleTick, row
<1>. QED
  BY <1>1, <1>2, <1>3, <1>4, <1>5, <1>6 DEF TickMoves

LEMMA QuietFaults ==
  ASSUME Faults
  PROVE  Quiet
<1>1. LaunchLost => Quiet
  BY DEF LaunchLost, Quiet, row
<1>2. TickDies => Quiet
  BY DEF TickDies, Quiet, IdleTick, row
<1>3. ASSUME NEW w \in Workflows, BackstopDies(w) \/ WorkflowDies(w)
      PROVE  Quiet
  BY <1>3 DEF BackstopDies, WorkflowDies, Quiet, row
<1>4. ASSUME NEW w \in Workflows, NEW p \in Pairs,
             StepDies(w, p) \/ FinalizeThrows(w, p) \/ StepRejected(w, p)
      PROVE  Quiet
  BY <1>4 DEF StepDies, FinalizeThrows, StepRejected, Quiet, row
<1>. QED
  BY <1>1, <1>2, <1>3, <1>4 DEF Faults

\* Only the transaction and the resume touch the counters.
LEMMA Effects ==
  ASSUME TypeOK, [Next]_vars
  PROVE  \/ \E p \in Pairs, outcome \in {"ok", "error"} : Records(p, outcome)
         \/ ResumeWrite
         \/ Quiet
<1>1. ASSUME NEW w \in Workflows, Launch(w)
      PROVE  Quiet
  BY <1>1 DEF Launch, Quiet, row
<1>2. ASSUME NEW w \in Workflows, WorkflowMoves(w)
      PROVE  Quiet
  BY <1>2 DEF WorkflowMoves, StartBatch, CheckStatus, PollHeld, ReconcileIfNeeded,
              BackstopDone, Quiet, row
<1>3. ASSUME NEW w \in Workflows, NEW p \in Pairs, StepMoves(w, p)
      PROVE  Quiet \/ \E outcome \in {"ok", "error"} : Records(p, outcome)
  <2>1. ASSUME NEW outcome \in {"ok", "error"}, Measure(w, p, outcome)
        PROVE  Records(p, outcome)
    BY <2>1 DEF Measure, Records
  <2>2. KeyDenied(w, p) => Records(p, "error")
    BY DEF KeyDenied, Records
  <2>3. AttemptFails(w, p) => Quiet
    BY DEF AttemptFails, Quiet, row
  <2>. QED
    BY <1>3, <2>1, <2>2, <2>3 DEF StepMoves, AttemptsExhausted
<1>4. ASSUME NEW w \in Workflows, NEW x \in Slot, Finalizes(w, x)
      PROVE  Quiet
  BY <1>4 DEF Finalizes, FinalizeRead, FinalizeWrite, Notify, Quiet, row
<1>5. ASSUME NEW u \in Users, NEW action \in {"pause", "resume", "stop"},
             ControlRead(u, action)
      PROVE  Quiet
  BY <1>5 DEF ControlRead, Quiet, row
<1>6. ASSUME NEW u \in Users, ControlWrite(u)
      PROVE  Quiet
  BY <1>6 DEF ControlWrite, Quiet
<1>7. ASSUME NEW p \in Churn, IngestFlips(p)
      PROVE  Quiet
  BY <1>7 DEF IngestFlips, Quiet, row
<1>8. BecomeOverdue => Quiet
  BY DEF BecomeOverdue, Quiet, row
<1>9. UNCHANGED vars => Quiet
  BY DEF Quiet, vars
<1>. QED
  BY <1>1, <1>2, <1>3, <1>4, <1>5, <1>6, <1>7, <1>8, <1>9, QuietTick, QuietFaults DEF Next

\* A transaction either adds its pair to the rows and to the count, or does nothing.
LEMMA RecordEffect ==
  ASSUME TypeOK, NEW p \in Pairs, NEW outcome \in {"ok", "error"},
         RecordAuditResult(p, outcome)
  PROVE  \/ /\ p \notin Recorded /\ p \notin Errors
            /\ Recorded' = Recorded \cup {p}
            /\ Errors' = IF outcome = "error" THEN Errors \cup {p} ELSE Errors
            /\ completedJobs' = completedJobs + 1
            /\ failedJobs' = IF outcome = "error" THEN failedJobs + 1 ELSE failedJobs
            /\ \A q \in Pairs : q # p => results'[q] = results[q]
         \/ UNCHANGED <<results, completedJobs, failedJobs>>
<1>1. CASE results[p] # "none"
  BY <1>1 DEF RecordAuditResult
<1>2. CASE results[p] = "none"
  <2>1. /\ results'[p] = outcome
        /\ \A q \in Pairs : q # p => results'[q] = results[q]
    BY <1>2 DEF RecordAuditResult, TypeOK
  <2>2. p \notin Recorded /\ p \notin Errors
    BY <1>2 DEF Recorded, Errors
  <2>3. Recorded' = Recorded \cup {p}
    BY <2>1 DEF Recorded
  <2>4. Errors' = IF outcome = "error" THEN Errors \cup {p} ELSE Errors
    BY <1>2, <2>1 DEF Errors
  <2>. QED
    BY <1>2, <2>1, <2>2, <2>3, <2>4 DEF RecordAuditResult
<1>. QED
  BY <1>1, <1>2

LEMMA RowsFinite ==
  /\ IsFiniteSet(Recorded) /\ IsFiniteSet(Errors)
  /\ Cardinality(Recorded) \in Nat /\ Cardinality(Errors) \in Nat
BY SubsetsFinite DEF Recorded, Errors

(***************************************************************************)
(* NeverOvercounts is not inductive: a resume sets the counters from what   *)
(* the tick counted earlier, so that has to be rows as well.                *)
(***************************************************************************)
CountInv ==
  /\ NeverOvercounts
  /\ tick.seen \subseteq Recorded
  /\ tick.bad \subseteq Errors

LEMMA CountInit == Init => CountInv
<1>. SUFFICES ASSUME Init PROVE CountInv
  OBVIOUS
<1>1. Recorded = {} /\ Errors = {}
  BY DEF Init, Recorded, Errors
<1>. QED
  BY <1>1, FS_EmptySet DEF Init, CountInv, NeverOvercounts, IdleTick

LEMMA CountRecord ==
  ASSUME TypeOK, CountInv, NEW p \in Pairs, NEW outcome \in {"ok", "error"},
         Records(p, outcome)
  PROVE  CountInv'
<1>1. CASE UNCHANGED <<results, completedJobs, failedJobs>>
  BY <1>1 DEF Records, CountInv, NeverOvercounts, Recorded, Errors
<1>2. CASE /\ p \notin Recorded /\ p \notin Errors
           /\ Recorded' = Recorded \cup {p}
           /\ Errors' = IF outcome = "error" THEN Errors \cup {p} ELSE Errors
           /\ completedJobs' = completedJobs + 1
           /\ failedJobs' = IF outcome = "error" THEN failedJobs + 1 ELSE failedJobs
  <2>1. /\ Cardinality(Recorded') = Cardinality(Recorded) + 1
        /\ outcome = "error" => Cardinality(Errors') = Cardinality(Errors) + 1
    BY <1>2, RowsFinite, FS_AddElement
  <2>2. NeverOvercounts'
    BY <1>2, <2>1, RowsFinite DEF CountInv, NeverOvercounts, TypeOK
  <2>. QED
    BY <1>2, <2>2 DEF CountInv, Records
<1>. QED
  BY <1>1, <1>2, RecordEffect DEF Records

LEMMA CountResume ==
  ASSUME TypeOK, CountInv, ResumeWrite
  PROVE  /\ CountInv'
         /\ Cardinality(tick.seen) \in 0..Cardinality(Recorded)
         /\ Cardinality(tick.bad) \in 0..Cardinality(Errors)
<1>1. UNCHANGED <<Recorded, Errors>> /\ tick'.seen = tick.seen /\ tick'.bad = tick.bad
  BY DEF ResumeWrite, Recorded, Errors, TypeOK, TickState
<1>2. /\ Cardinality(tick.seen) <= Cardinality(Recorded)
      /\ Cardinality(tick.bad) <= Cardinality(Errors)
  BY RowsFinite, FS_Subset DEF CountInv
<1>3. Cardinality(tick.seen) \in Nat /\ Cardinality(tick.bad) \in Nat
  BY SubsetsFinite DEF TypeOK, TickState
<1>. QED
  BY <1>1, <1>2, <1>3, RowsFinite DEF ResumeWrite, CountInv, NeverOvercounts

LEMMA CountQuiet ==
  ASSUME CountInv, Quiet
  PROVE  CountInv'
BY DEF Quiet, CountInv, NeverOvercounts, Recorded, Errors

\* The counters of the row never claim more than its results, whatever the ticks,
\* the redeliveries and the crashes do meanwhile.
THEOREM NeverClaimsTooMuch == Spec => []NeverOvercounts
<1>1. TypeOK /\ CountInv /\ [Next]_vars => CountInv'
  BY Effects, CountRecord, CountResume, CountQuiet
<1>2. CountInv => NeverOvercounts
  BY DEF CountInv
<1>. QED
  BY <1>1, <1>2, CountInit, TypeCorrect, PTL DEF Spec

\* Without a cron tick nothing rewrites the counters, and they are the rows exactly,
\* whatever is replayed.
LEMMA TickStaysIdle ==
  ASSUME CronEnabled = FALSE, tick.at = "idle", [Next]_vars
  PROVE  UNCHANGED tick
<1>1. ASSUME NEW w \in Workflows, WorkflowMoves(w) \/ Launch(w)
      PROVE  UNCHANGED tick
  BY <1>1 DEF WorkflowMoves, StartBatch, CheckStatus, PollHeld, ReconcileIfNeeded,
              BackstopDone, Launch
<1>2. ASSUME NEW w \in Workflows, NEW p \in Pairs, StepMoves(w, p)
      PROVE  UNCHANGED tick
  BY <1>2 DEF StepMoves, Measure, KeyDenied, AttemptFails, AttemptsExhausted
<1>3. ASSUME NEW w \in Workflows, NEW x \in Slot, Finalizes(w, x)
      PROVE  UNCHANGED tick
  BY <1>3 DEF Finalizes, FinalizeRead, FinalizeWrite, Notify
<1>4. TickMoves \/ TickDies => FALSE
  BY DEF TickMoves, TickOpen, TickBury, TickExpand, TickCount, RefuseGrowth, ResumeWrite,
         ResumeDispatch, TickDies
<1>5. Faults => UNCHANGED tick
  BY <1>4 DEF Faults, LaunchLost, BackstopDies, WorkflowDies, StepDies, FinalizeThrows,
              StepRejected
<1>6. ASSUME NEW u \in Users,
             ControlWrite(u) \/ \E action \in {"pause", "resume", "stop"} : ControlRead(u, action)
      PROVE  UNCHANGED tick
  BY <1>6 DEF ControlWrite, ControlRead
<1>7. BecomeOverdue \/ (\E p \in Churn : IngestFlips(p)) => UNCHANGED tick
  BY DEF BecomeOverdue, IngestFlips
<1>8. UNCHANGED vars => UNCHANGED tick
  BY DEF vars
<1>. QED
  BY <1>1, <1>2, <1>3, <1>4, <1>5, <1>6, <1>7, <1>8 DEF Next

\* Where nobody calls the tick endpoint the counters of a run equal its result rows, under
\* any redelivery, crash, hold or stop: the row and its increment are one transaction.
THEOREM ExactWithoutCron ==
  ASSUME CronEnabled = FALSE
  PROVE  Spec => []CountersMatchRows
<1>. DEFINE Exact == tick.at = "idle" /\ CountersMatchRows
<1>1. Init => Exact
  <2>. SUFFICES ASSUME Init PROVE tick.at = "idle" /\ CountersMatchRows
    OBVIOUS
  <2>1. Recorded = {} /\ Errors = {}
    BY DEF Init, Recorded, Errors
  <2>. QED
    BY <2>1, FS_EmptySet DEF Init, CountersMatchRows, IdleTick
<1>2. TypeOK /\ Exact /\ [Next]_vars => Exact'
  <2>. SUFFICES ASSUME TypeOK, tick.at = "idle", CountersMatchRows, [Next]_vars
                PROVE  CountersMatchRows'
    BY TickStaysIdle
  <2>1. ASSUME NEW p \in Pairs, NEW outcome \in {"ok", "error"}, Records(p, outcome)
        PROVE  CountersMatchRows'
    <3>1. CASE UNCHANGED <<results, completedJobs, failedJobs>>
      BY <3>1 DEF CountersMatchRows, Recorded, Errors
    <3>2. CASE /\ p \notin Recorded /\ p \notin Errors
               /\ Recorded' = Recorded \cup {p}
               /\ Errors' = IF outcome = "error" THEN Errors \cup {p} ELSE Errors
               /\ completedJobs' = completedJobs + 1
               /\ failedJobs' = IF outcome = "error" THEN failedJobs + 1 ELSE failedJobs
      <4>1. /\ Cardinality(Recorded') = Cardinality(Recorded) + 1
            /\ outcome = "error" => Cardinality(Errors') = Cardinality(Errors) + 1
        BY <3>2, RowsFinite, FS_AddElement
      <4>. QED
        BY <3>2, <4>1 DEF CountersMatchRows
    <3>. QED
      BY <2>1, <3>1, <3>2, RecordEffect DEF Records
  <2>2. Quiet => CountersMatchRows'
    BY DEF Quiet, CountersMatchRows, Recorded, Errors
  <2>3. ~ResumeWrite
    BY DEF ResumeWrite
  <2>. QED
    BY <2>1, <2>2, <2>3, Effects
<1>3. Exact => CountersMatchRows
  OBVIOUS
<1>. QED
  BY <1>1, <1>2, <1>3, TypeCorrect, PTL DEF Spec

\* A row of a pair is never replaced, however often the pair is measured again.
THEOREM WrittenOnce == Spec => RowsAreWrittenOnce
<1>1. TypeOK /\ [Next]_vars =>
        [\A p \in Pairs : results[p] # "none" => results'[p] = results[p]]_vars
  <2>. SUFFICES ASSUME TypeOK, [Next]_vars, NEW q \in Pairs, results[q] # "none"
                PROVE  results'[q] = results[q]
    OBVIOUS
  <2>1. ASSUME NEW p \in Pairs, NEW outcome \in {"ok", "error"}, Records(p, outcome)
        PROVE  results'[q] = results[q]
    BY <2>1, RecordEffect DEF Records, Recorded
  <2>. QED
    BY <2>1, Effects DEF ResumeWrite, Quiet
<1>. QED
  BY <1>1, TypeCorrect, PTL DEF Spec, RowsAreWrittenOnce

\* The work a run committed to at creation never grows.
THEOREM CommitmentNeverGrows == Spec => NeverGrows
<1>1. TypeOK /\ [Next]_vars => [totalJobs' <= totalJobs]_vars
  <2>. SUFFICES ASSUME TypeOK, [Next]_vars
                PROVE  totalJobs' <= totalJobs
    OBVIOUS
  <2>1. ASSUME ResumeWrite
        PROVE  totalJobs' <= totalJobs
    <3>1. /\ Cardinality(tick.scope) \in Nat
          /\ Cardinality(tick.seen) \in Nat
      BY SubsetsFinite DEF TypeOK, TickState
    <3>. QED
      BY <2>1, <3>1 DEF ResumeWrite, Smaller, Larger, TypeOK
  <2>2. Quiet \/ (\E p \in Pairs, outcome \in {"ok", "error"} : Records(p, outcome))
          => totalJobs' <= totalJobs
    BY DEF Quiet, Records, TypeOK
  <2>. QED
    BY <2>1, <2>2, Effects
<1>. QED
  BY <1>1, TypeCorrect, PTL DEF Spec, NeverGrows

LedgerOfRun == <<Recorded, Errors, completedJobs, failedJobs, totalJobs>>

\* The row implements the ledger: each of its steps records one new pair, recounts,
\* or leaves what the ledger speaks of alone.
THEOREM KeepsTheLedger == Spec => LedgerSpec
<1>1. Init => Ledger!Init
  BY SubsetsFinite DEF Init, Ledger!Init, Recorded, Errors
<1>2. TypeOK /\ CountInv /\ [Next]_vars => [Ledger!Next]_(Ledger!ledger)
  <2>. SUFFICES ASSUME TypeOK, CountInv, [Next]_vars
                PROVE  Ledger!Next \/ UNCHANGED LedgerOfRun
    BY DEF Ledger!ledger, LedgerOfRun
  <2>1. ASSUME NEW p \in Pairs, NEW outcome \in {"ok", "error"}, Records(p, outcome)
        PROVE  Ledger!Record(p) \/ UNCHANGED LedgerOfRun
    BY <2>1, RecordEffect DEF Records, Ledger!Record, Recorded, Errors, LedgerOfRun
  <2>2. ASSUME ResumeWrite
        PROVE  Ledger!Recount
    <3>1. totalJobs' \in 0..totalJobs
      <4>1. /\ Cardinality(tick.scope) \in Nat
            /\ Cardinality(tick.seen) \in Nat
        BY SubsetsFinite DEF TypeOK, TickState
      <4>. QED
        BY <2>2, <4>1 DEF ResumeWrite, Smaller, Larger, TypeOK
    <3>2. completedJobs' \in 0..Cardinality(Recorded)
      BY <2>2, CountResume DEF ResumeWrite
    <3>3. failedJobs' \in 0..Cardinality(Errors)
      BY <2>2, CountResume DEF ResumeWrite
    <3>4. Recorded' = Recorded /\ Errors' = Errors
      BY <2>2 DEF ResumeWrite, Recorded, Errors
    <3>. QED
      BY <3>1, <3>2, <3>3, <3>4 DEF Ledger!Recount, Cardinality, Ledger!Cardinality
  <2>3. Quiet => UNCHANGED LedgerOfRun
    BY DEF Quiet, Recorded, Errors, LedgerOfRun
  <2>. QED
    BY <2>1, <2>2, <2>3, Effects DEF Ledger!Next
<1>3. TypeOK /\ CountInv /\ [Next]_vars => CountInv'
  BY Effects, CountRecord, CountResume, CountQuiet
<1>. QED
  BY <1>1, <1>2, <1>3, CountInit, TypeCorrect, PTL DEF Spec, LedgerSpec, Ledger!Spec

-----------------------------------------------------------------------------
(* One workflow at a time: what a step may be when no tick resumes the run.  *)

\* Status changes only by who read it open: a finalizer, a control or a tick.
\* A closed run stays closed while there is none of them.
THEOREM StaysClosed == Spec => ClosedStaysClosed
<1>1. TypeOK /\ [Next]_vars => [(status \in Terminal /\ NoStaleWriter) => status' = status]_vars
  <2>. SUFFICES ASSUME TypeOK, Next, status \in Terminal, NoStaleWriter
                PROVE  status' = status
    BY DEF vars
  <2>1. ASSUME NEW w \in Workflows, Launch(w) \/ WorkflowMoves(w)
        PROVE  status' = status
    BY <2>1 DEF Launch, WorkflowMoves, StartBatch, CheckStatus, PollHeld, ReconcileIfNeeded,
                BackstopDone, row
  <2>2. ASSUME NEW w \in Workflows, NEW p \in Pairs, StepMoves(w, p)
        PROVE  status' = status
    BY <2>2 DEF StepMoves, Measure, KeyDenied, AttemptFails, AttemptsExhausted, row
  <2>3. ASSUME NEW w \in Workflows, NEW x \in Slot, Finalizes(w, x)
        PROVE  status' = status
    BY <2>3 DEF Finalizes, FinalizeRead, FinalizeWrite, Notify, row, NoStaleWriter
  <2>4. TickMoves => status' = status
    BY DEF TickMoves, TickOpen, TickBury, TickExpand, TickCount, RefuseGrowth, ResumeWrite,
           ResumeDispatch, row, NoStaleWriter, Terminal
  <2>5. ASSUME NEW u \in Users,
               ControlWrite(u) \/ \E action \in {"pause", "resume", "stop"} : ControlRead(u, action)
        PROVE  status' = status
    BY <2>5 DEF ControlWrite, ControlRead, row, NoStaleWriter
  <2>6. BecomeOverdue \/ (\E p \in Churn : IngestFlips(p)) => status' = status
    BY DEF BecomeOverdue, IngestFlips, row
  <2>7. Faults => status' = status
    BY DEF Faults, LaunchLost, TickDies, BackstopDies, WorkflowDies, StepDies, FinalizeThrows,
           StepRejected, row
  <2>. QED
    BY <2>1, <2>2, <2>3, <2>4, <2>5, <2>6, <2>7 DEF Next
<1>. QED
  BY <1>1, TypeCorrect, PTL DEF Spec, ClosedStaysClosed

Finishing == {"fin", "finwrite", "notify"}

\* A workflow starts once, and until a batch is out its steps are idle.
OneWorkflow ==
  /\ tick.at = "idle"
  /\ \A w \in Workflows : Alive(w) => launched
  /\ \A w, v \in Workflows : Alive(w) /\ Alive(v) => w = v
  /\ \A w \in Workflows, p \in Pairs : phase[w] # "batch" => step[<<w, p>>].at = "idle"
  /\ \A w \in Workflows : phase[w] # "backstop" => step[<<w, Backstop>>].at = "idle"
  /\ \A w \in Workflows : phase[w] \in {"idle", "backstop"} => todo[w] = {}

\* It works at pairs of its run only, and finalizes at those it has recorded.
OfThePlan ==
  /\ totalJobs = Cardinality(plan)
  /\ Recorded \subseteq plan
  /\ \A w \in Workflows : todo[w] \subseteq plan
  /\ \A w \in Workflows, p \in Pairs :
       /\ step[<<w, p>>].at # "idle" => p \in plan
       /\ step[<<w, p>>].at \in Finishing => p \in Recorded
  /\ \A w \in Workflows, x \in Slot :
       step[<<w, x>>].at = "finwrite" => step[<<w, x>>].saw \in {"completed", "failed"}

LoneInv == TypeOK /\ CountersMatchRows /\ OneWorkflow /\ OfThePlan

\* The three ways a row of step changes.
Becomes(w, x, s) ==
  /\ s \in StepState
  /\ \A v \in Workflows, y \in Slot :
       step'[<<v, y>>] = IF v = w /\ y = x THEN s ELSE step[<<v, y>>]
Clears(w) ==
  \A v \in Workflows, y \in Slot :
    IF v = w THEN step'[<<v, y>>].at = "idle" ELSE step'[<<v, y>>] = step[<<v, y>>]
Turns(w, at, pairs) ==
  \A v \in Workflows :
    /\ phase'[v] = IF v = w THEN at ELSE phase[v]
    /\ todo'[v] = IF v = w THEN pairs ELSE todo[v]

counts == <<results, completedJobs, failedJobs>>
told == <<intent, notices>>

\* Launch.
Starts(w) ==
  /\ ~launched /\ launched'
  /\ ~Alive(w)
  /\ Turns(w, "loop", plan)
  /\ UNCHANGED <<step, status, counts, told, landed, rejects>>

\* StartBatch.
Dispatches(w, batch) ==
  /\ phase[w] = "loop"
  /\ batch \subseteq todo[w] /\ Cardinality(batch) <= BatchSize
  /\ Turns(w, "batch", todo[w] \ batch)
  /\ \A v \in Workflows, y \in Slot :
       step'[<<v, y>>] = IF v = w /\ y \in batch THEN FirstCall ELSE step[<<v, y>>]
  /\ UNCHANGED <<launched, status, counts, told, landed, rejects>>

\* CheckStatus, PollHeld, BackstopDone, and what ends a workflow or its backstop.
Leaves(w, at) ==
  /\ Alive(w)
  /\ Clears(w)
  /\ \/ at = "idle" /\ Turns(w, at, {})
     \/ at = "loop" /\ Turns(w, at, todo[w]) /\ Settled(w) /\ status = "running"
     \/ at = "loop" /\ Turns(w, at, todo[w]) /\ phase[w] = "backstop"
     \/ at = "held" /\ Turns(w, at, todo[w]) /\ Settled(w) /\ phase[w] = "batch"
  /\ UNCHANGED <<launched, status, counts, told, landed, rejects>>

\* ReconcileIfNeeded, when it finds the run open.
BacksUp(w) ==
  /\ phase[w] = "loop" /\ todo[w] = {} /\ status = "running"
  /\ Turns(w, "backstop", {})
  /\ \E s : s.at = "fin" /\ Becomes(w, Backstop, s)
  /\ UNCHANGED <<launched, status, counts, told, landed, rejects>>

\* Measure and KeyDenied.
Lands(w, p) ==
  /\ step[<<w, p>>].at = "call"
  /\ \E outcome \in {"ok", "error"} : RecordAuditResult(p, outcome)
  /\ \E s : /\ Becomes(w, p, s)
            /\ s.at = "settled" \/ (s.at = "fin" /\ ReadyToFinalize(p))
  /\ UNCHANGED <<phase, todo, launched, status, told, rejects>>

\* AttemptFails, StepDies, FinalizeThrows and StepRejected.
Retries(w, p) ==
  /\ step[<<w, p>>].at \notin {"idle", "settled"}
  /\ \E s : /\ Becomes(w, p, s)
            /\ \/ s.at = "call" /\ UNCHANGED rejects
               \/ s.at = "settled" /\ UNCHANGED rejects /\ step[<<w, p>>].at \in Finishing
               \/ s.at = "settled" /\ rejects' = rejects + 1 /\ step[<<w, p>>].at = "call"
  /\ UNCHANGED <<phase, todo, launched, status, counts, told, landed>>

\* FinalizeRead, FinalizeWrite and Notify.
Judges(w, x) ==
  /\ \E s : /\ Becomes(w, x, s)
            /\ \/ /\ step[<<w, x>>].at = "fin"
                  /\ \/ s.at = "finwrite" /\ s.saw = Verdict
                     \/ s.at = "notify" /\ status \in Terminal
                  /\ UNCHANGED <<status, notices>>
               \/ /\ step[<<w, x>>].at = "finwrite" /\ s.at = "notify"
                  /\ status' = step[<<w, x>>].saw
                  /\ UNCHANGED notices
               \/ /\ step[<<w, x>>].at = "notify" /\ s.at = "settled"
                  /\ notices' \in {notices, notices + 1}
                  /\ UNCHANGED status
  /\ UNCHANGED <<phase, todo, launched, counts, intent, landed, rejects>>

\* People, the clock, an ingest, and the launch that is lost.
Outside ==
  /\ launched => launched'
  /\ \/ UNCHANGED <<status, intent, landed>>
     \/ UNCHANGED <<status, landed>> /\ \E u \in Users : intent'[u] # "none"
     \/ /\ \E u \in Users : intent'[u] # "none"
        /\ \/ status' \in {"paused", "cancelled"} /\ landed' = 0
           \/ status' = "running" /\ UNCHANGED landed
  /\ UNCHANGED <<step, phase, todo, counts, notices, rejects>>

Effect ==
  /\ UNCHANGED <<kind, plan, totalJobs, tick>>
  /\ \/ \E w \in Workflows : Starts(w) \/ BacksUp(w)
     \/ \E w \in Workflows : \E batch \in SUBSET todo[w] : Dispatches(w, batch)
     \/ \E w \in Workflows, at \in {"idle", "loop", "held"} : Leaves(w, at)
     \/ \E w \in Workflows, p \in Pairs : Lands(w, p) \/ Retries(w, p)
     \/ \E w \in Workflows, x \in Slot : Judges(w, x)
     \/ Outside

LEMMA StepAt ==
  ASSUME TypeOK, NEW w \in Workflows, NEW x \in Slot
  PROVE  /\ <<w, x>> \in Workflows \X Slot
         /\ step[<<w, x>>] \in StepState
         /\ \A s \in StepState : step' = [step EXCEPT ![<<w, x>>] = s] => Becomes(w, x, s)
         /\ Pairs \subseteq Slot /\ Backstop \in Slot
BY DEF TypeOK, Becomes, Slot

LEMMA Clearing ==
  ASSUME TypeOK, NEW w \in Workflows, ClearSteps(w)
  PROVE  Clears(w)
BY DEF ClearSteps, Clears, IdleStep

LEMMA Turning ==
  ASSUME TypeOK, NEW w \in Workflows
  PROVE  /\ \A at : GoTo(w, at) /\ UNCHANGED todo => Turns(w, at, todo[w])
         /\ Return(w) => Turns(w, "idle", {}) /\ Clears(w)
<1>1. Return(w) => Clears(w)
  BY Clearing DEF Return
<1>. QED
  BY <1>1 DEF TypeOK, GoTo, Return, Turns

\* A step that is replaced by another.
LEMMA Replaced ==
  ASSUME LoneInv, NEW w \in Workflows, NEW x \in Slot, NEW s \in StepState,
         step' = [step EXCEPT ![<<w, x>>] = s]
  PROVE  Becomes(w, x, s)
BY StepAt DEF LoneInv

LEMMA WorkflowEffect ==
  ASSUME LoneInv, NEW w \in Workflows, Launch(w) \/ WorkflowMoves(w)
  PROVE  Effect
<1>. USE DEF LoneInv
<1>1. ASSUME Launch(w)
      PROVE  Effect
  <2>1. Turns(w, "loop", plan)
    BY <1>1 DEF Launch, StartWorkflow, Turns, TypeOK
  <2>. QED
    BY <1>1, <2>1 DEF Launch, StartWorkflow, Effect, Starts, counts, told, row, env
<1>2. ASSUME NEW batch \in SUBSET todo[w], StartBatch(w, batch)
      PROVE  Effect
  <2>1. Turns(w, "batch", todo[w] \ batch)
    BY <1>2 DEF StartBatch, GoTo, Turns, TypeOK
  <2>2. \A v \in Workflows, y \in Slot :
          step'[<<v, y>>] = IF v = w /\ y \in batch THEN FirstCall ELSE step[<<v, y>>]
    BY <1>2 DEF StartBatch
  <2>3. Cardinality(batch) <= BatchSize
    <3>1. todo[w] \in SUBSET Pairs
      BY DEF TypeOK
    <3>2. Cardinality(todo[w]) \in Nat
      BY <3>1, SubsetsFinite
    <3>. QED
      BY <1>2, <3>2, BoundsAssumption DEF StartBatch, Smaller
  <2>4. Dispatches(w, batch)
    BY <1>2, <2>1, <2>2, <2>3 DEF StartBatch, Dispatches, counts, told, made, row, env
  <2>. QED
    BY <1>2, <2>4 DEF Effect, StartBatch, made, row, env
<1>3. ASSUME CheckStatus(w) \/ PollHeld(w) \/ BackstopDone(w)
             \/ (ReconcileIfNeeded(w) /\ status # "running")
      PROVE  Effect
  <2>1. Alive(w) /\ UNCHANGED <<launched, status, counts, told, landed, rejects>>
        /\ UNCHANGED <<kind, plan, totalJobs, tick>>
    BY <1>3 DEF Alive, CheckStatus, PollHeld, BackstopDone, ReconcileIfNeeded, counts, told,
                made, row, env
  <2>2. Return(w) => Leaves(w, "idle")
    BY <2>1, Turning DEF Leaves
  <2>3. phase[w] = "held" => Settled(w)
    BY StepAt DEF OneWorkflow, Settled, Slot
  <2>4. ASSUME phase[w] = "held", UNCHANGED step
        PROVE  Clears(w)
    BY <2>4, StepAt DEF OneWorkflow, Clears, Slot
  <2>5. \E at \in {"idle", "loop", "held"} : Leaves(w, at)
    <3>1. CASE CheckStatus(w)
      BY <3>1, <2>1, <2>2, Turning, Clearing DEF CheckStatus, Leaves
    <3>2. CASE PollHeld(w)
      BY <3>2, <2>1, <2>2, <2>3, <2>4, Turning DEF PollHeld, Leaves
    <3>3. CASE BackstopDone(w) \/ (ReconcileIfNeeded(w) /\ status # "running")
      BY <3>3, <2>2 DEF BackstopDone, ReconcileIfNeeded
    <3>. QED
      BY <1>3, <3>1, <3>2, <3>3
  <2>. QED
    BY <2>1, <2>5 DEF Effect
<1>4. ASSUME ReconcileIfNeeded(w), status = "running"
      PROVE  Effect
  <2>. DEFINE s == [step[<<w, Backstop>>] EXCEPT !.at = "fin"]
  <2>1. Backstop \in Slot /\ step[<<w, Backstop>>] \in StepState
    BY StepAt DEF Slot
  <2>2. s \in StepState /\ s.at = "fin"
    BY <2>1 DEF StepState
  <2>3. step' = [step EXCEPT ![<<w, Backstop>>] = s]
    BY <1>4 DEF ReconcileIfNeeded
  <2>. HIDE DEF s
  <2>4. Becomes(w, Backstop, s)
    BY <2>1, <2>2, <2>3, Replaced
  <2>5. Turns(w, "backstop", {}) /\ phase[w] = "loop" /\ todo[w] = {}
    BY <1>4 DEF ReconcileIfNeeded, GoTo, Turns, TypeOK
  <2>6. BacksUp(w)
    BY <1>4, <2>2, <2>4, <2>5 DEF ReconcileIfNeeded, BacksUp, counts, told, made, row, env
  <2>. QED
    BY <1>4, <2>6 DEF ReconcileIfNeeded, Effect, made, row, env
<1>. QED
  BY <1>1, <1>2, <1>3, <1>4 DEF WorkflowMoves

LEMMA LandingEffect ==
  ASSUME LoneInv, NEW w \in Workflows, NEW p \in Pairs, NEW outcome \in {"ok", "error"},
         Measure(w, p, outcome) \/ (outcome = "error" /\ KeyDenied(w, p))
  PROVE  Effect
<1>1. p \in Slot /\ step[<<w, p>>] \in StepState
  BY StepAt DEF LoneInv, Slot
<1>2. \E s : Becomes(w, p, s) /\ (s.at = "settled" \/ (s.at = "fin" /\ ReadyToFinalize(p)))
  <2>1. CASE Settle(w, p)
    <3>1. Becomes(w, p, SettledStep)
      BY <2>1, <1>1, Replaced, ConstantStates DEF Settle
    <3>. QED
      BY <3>1 DEF SettledStep
  <2>2. CASE ReadyToFinalize(p) /\ step' = [step EXCEPT ![<<w, p>>].at = "fin"]
    <3>. DEFINE s == [step[<<w, p>>] EXCEPT !.at = "fin"]
    <3>1. s \in StepState /\ s.at = "fin"
      BY <1>1 DEF StepState
    <3>2. step' = [step EXCEPT ![<<w, p>>] = s]
      BY <2>2
    <3>. HIDE DEF s
    <3>3. Becomes(w, p, s)
      BY <3>1, <3>2, <1>1, Replaced
    <3>. QED
      BY <2>2, <3>1, <3>3
  <2>. QED
    BY <2>1, <2>2 DEF Measure, KeyDenied, AfterRecord
<1>3. Lands(w, p)
  BY <1>2 DEF Measure, KeyDenied, Lands, told, made
<1>. QED
  BY <1>3 DEF Measure, KeyDenied, Effect, made, RecordAuditResult

LEMMA StepEffect ==
  ASSUME LoneInv, NEW w \in Workflows, NEW p \in Pairs,
         StepMoves(w, p) \/ StepDies(w, p) \/ FinalizeThrows(w, p) \/ StepRejected(w, p)
  PROVE  Effect
<1>1. p \in Slot /\ step[<<w, p>>] \in StepState
  BY StepAt DEF LoneInv, Slot
<1>2. ASSUME AttemptFails(w, p)
      PROVE  Retries(w, p)
  <2>. DEFINE s == [step[<<w, p>>] EXCEPT !.tries = step[<<w, p>>].tries + 1]
  <2>1. s \in StepState /\ s.at = "call" /\ step[<<w, p>>].at = "call"
    BY <1>1, <1>2, BoundsAssumption DEF AttemptFails, StepState
  <2>2. step' = [step EXCEPT ![<<w, p>>] = s]
    BY <1>2 DEF AttemptFails
  <2>3. Becomes(w, p, s)
    <3>. HIDE DEF s
    <3>. QED
      BY <2>1, <2>2, <1>1, Replaced
  <2>. HIDE DEF s
  <2>. QED
    BY <1>2, <2>1, <2>3 DEF AttemptFails, Retries, counts, told, made, row, env
<1>3. ASSUME StepDies(w, p)
      PROVE  Retries(w, p)
  <2>1. Becomes(w, p, FirstCall) /\ FirstCall.at = "call"
    BY <1>1, <1>3, ConstantStates, Replaced DEF StepDies, FirstCall
  <2>. QED
    BY <1>3, <2>1 DEF StepDies, Retries, counts, told, made, row
<1>4. ASSUME FinalizeThrows(w, p)
      PROVE  Retries(w, p)
  <2>. DEFINE s == [FirstCall EXCEPT !.tries = step[<<w, p>>].tries + 1]
  <2>1. CASE step[<<w, p>>].tries < PSI_MAX_ATTEMPTS
    <3>1. s \in StepState /\ s.at = "call"
      BY <1>1, <2>1, BoundsAssumption, ConstantStates DEF FirstCall, StepState
    <3>2. step' = [step EXCEPT ![<<w, p>>] = s]
      BY <1>1, <1>4, <2>1, BoundsAssumption DEF FinalizeThrows, StepState
    <3>. HIDE DEF s
    <3>3. Becomes(w, p, s)
      BY <3>1, <3>2, <1>1, Replaced
    <3>. QED
      BY <1>4, <3>1, <3>3 DEF FinalizeThrows, Retries, counts, told, made, row
  <2>2. CASE ~(step[<<w, p>>].tries < PSI_MAX_ATTEMPTS)
    <3>1. Becomes(w, p, SettledStep) /\ SettledStep.at = "settled"
      BY <1>1, <1>4, <2>2, ConstantStates, Replaced DEF FinalizeThrows, Settle, SettledStep
    <3>. QED
      BY <1>4, <3>1 DEF FinalizeThrows, Retries, Finishing, counts, told, made, row
  <2>. QED
    BY <2>1, <2>2
<1>5. ASSUME StepRejected(w, p)
      PROVE  Retries(w, p)
  <2>1. Becomes(w, p, SettledStep) /\ SettledStep.at = "settled"
    BY <1>1, <1>5, ConstantStates, Replaced DEF StepRejected, Settle, SettledStep
  <2>. QED
    BY <1>5, <2>1 DEF StepRejected, Retries, counts, told, made, row
<1>6. AttemptFails(w, p) \/ StepDies(w, p) \/ FinalizeThrows(w, p) \/ StepRejected(w, p)
        => UNCHANGED <<kind, plan, totalJobs, tick>>
  BY DEF AttemptFails, StepDies, FinalizeThrows, StepRejected, made, row
<1>. QED
  BY <1>2, <1>3, <1>4, <1>5, <1>6, LandingEffect DEF Effect, StepMoves, AttemptsExhausted

LEMMA FinalizeEffect ==
  ASSUME LoneInv, NEW w \in Workflows, NEW x \in Slot, Finalizes(w, x)
  PROVE  Effect
<1>1. step[<<w, x>>] \in StepState
  BY StepAt DEF LoneInv
<1>2. Verdict \in Status /\ Verdict # "none" /\ status \in Status /\ status # "none"
  BY DEF Verdict, Status, Terminal, LoneInv, TypeOK
<1>3. ASSUME FinalizeRead(w, x)
      PROVE  Judges(w, x)
  <2>. DEFINE seen(at, saw) == [step[<<w, x>>] EXCEPT !.at = at, !.saw = saw]
  <2>1. \A at \in {"notify", "finwrite"}, saw \in Status \ {"none"} :
          seen(at, saw) \in StepState /\ seen(at, saw).at = at /\ seen(at, saw).saw = saw
    BY <1>1 DEF StepState
  <2>2. \/ status \in Terminal /\ step' = [step EXCEPT ![<<w, x>>] = seen("notify", status)]
        \/ step' = [step EXCEPT ![<<w, x>>] = seen("finwrite", Verdict)]
    BY <1>3 DEF FinalizeRead
  <2>3. step[<<w, x>>].at = "fin"
    BY <1>3 DEF FinalizeRead
  <2>. HIDE DEF seen
  <2>4. \/ status \in Terminal /\ Becomes(w, x, seen("notify", status))
        \/ Becomes(w, x, seen("finwrite", Verdict))
    BY <2>1, <2>2, <1>2, Replaced
  <2>5. UNCHANGED <<phase, todo, launched, counts, intent, landed, rejects, status, notices>>
    BY <1>3 DEF FinalizeRead, counts, made, row, env
  <2>. QED
    BY <2>1, <2>3, <2>4, <2>5, <1>2 DEF Judges
<1>4. ASSUME FinalizeWrite(w, x)
      PROVE  Judges(w, x)
  <2>. DEFINE s == [step[<<w, x>>] EXCEPT !.at = "notify"]
  <2>1. s \in StepState /\ s.at = "notify"
    BY <1>1, <1>4 DEF FinalizeWrite, StepState
  <2>2. step' = [step EXCEPT ![<<w, x>>] = s]
    BY <1>4 DEF FinalizeWrite
  <2>. HIDE DEF s
  <2>3. Becomes(w, x, s)
    BY <2>1, <2>2, Replaced
  <2>. QED
    BY <1>4, <2>1, <2>3 DEF FinalizeWrite, Judges, counts, made, env
<1>5. ASSUME Notify(w, x)
      PROVE  Judges(w, x)
  <2>1. Becomes(w, x, SettledStep) /\ SettledStep.at = "settled"
    BY <1>5, ConstantStates, Replaced DEF Notify, Settle, SettledStep
  <2>. QED
    BY <1>5, <2>1 DEF Notify, Judges, counts, made, row
<1>6. UNCHANGED <<kind, plan, totalJobs, tick>>
  BY DEF Finalizes, FinalizeRead, FinalizeWrite, Notify, made, row
<1>. QED
  BY <1>3, <1>4, <1>5, <1>6 DEF Finalizes, Effect

\* Without a cron tick a step is one of these.
LEMMA LoneEffects ==
  ASSUME CronEnabled = FALSE, LoneInv, [Next]_vars
  PROVE  Effect
<1>1. ASSUME NEW u \in Users, NEW action \in {"pause", "resume", "stop"},
             ControlRead(u, action)
      PROVE  Effect
  <2>1. intent'[u] = action /\ action # "none"
    BY <1>1 DEF ControlRead, LoneInv, TypeOK
  <2>. QED
    BY <1>1, <2>1 DEF ControlRead, Effect, Outside, counts, made, row, wf, env
<1>2. ASSUME NEW u \in Users, ControlWrite(u)
      PROVE  Effect
  <2>1. intent'[u] # "none"
    BY <1>2 DEF ControlWrite, LoneInv, TypeOK
  <2>2. \/ status' \in {"paused", "cancelled"} /\ landed' = 0
        \/ status' = "running" /\ landed' = landed
    BY <1>2 DEF ControlWrite, StatusOf, Decided
  <2>. QED
    BY <1>2, <2>1, <2>2 DEF ControlWrite, Effect, Outside, counts, made, wf
<1>3. BecomeOverdue \/ LaunchLost \/ (\E p \in Churn : IngestFlips(p)) \/ UNCHANGED vars
        => Effect
  BY DEF BecomeOverdue, LaunchLost, IngestFlips, vars, Effect, Outside, counts, made, row, wf
<1>4. ~TickMoves /\ ~TickDies
  BY DEF TickMoves, TickDies, TickOpen, TickBury, TickExpand, TickCount, RefuseGrowth,
         ResumeWrite, ResumeDispatch, LoneInv, OneWorkflow
<1>5. ASSUME NEW w \in Workflows, BackstopDies(w) \/ WorkflowDies(w)
      PROVE  Effect
  <2>1. Alive(w) /\ UNCHANGED <<launched, status, counts, told, landed, rejects>>
        /\ UNCHANGED <<kind, plan, totalJobs, tick>>
    BY <1>5 DEF Alive, BackstopDies, WorkflowDies, counts, told, made, row
  <2>2. WorkflowDies(w) => Leaves(w, "idle")
    BY <2>1, Turning DEF WorkflowDies, Leaves, LoneInv
  <2>3. BackstopDies(w) => Leaves(w, "loop")
    BY <2>1, Turning, Clearing DEF BackstopDies, Leaves, LoneInv
  <2>. QED
    BY <1>5, <2>1, <2>2, <2>3 DEF Effect
<1>. QED
  BY <1>1, <1>2, <1>3, <1>4, <1>5, WorkflowEffect, StepEffect, FinalizeEffect DEF Next, Faults

LEMMA LoneInit == Init => LoneInv
<1>. SUFFICES ASSUME Init PROVE LoneInv
  OBVIOUS
<1>1. \A w \in Workflows, x \in Slot : step[<<w, x>>] = IdleStep
  BY DEF Init
<1>2. Recorded = {} /\ Errors = {}
  BY DEF Init, Recorded, Errors
<1>3. Backstop \in Slot /\ Pairs \subseteq Slot
  BY DEF Slot
<1>. QED
  BY <1>1, <1>2, <1>3, InitTypes, FS_EmptySet
  DEF Init, LoneInv, OneWorkflow, OfThePlan, CountersMatchRows, Alive, IdleStep, IdleTick,
      Finishing

LEMMA OneWorkflowStep ==
  ASSUME LoneInv, Effect
  PROVE  OneWorkflow'
<1>. USE DEF LoneInv, OneWorkflow, Alive
<1>1. tick' = tick /\ Backstop \in Slot /\ Pairs \subseteq Slot /\ Backstop \notin Pairs
  BY PairsAssumption DEF Effect, Slot
<1>2. ASSUME NEW w \in Workflows, Starts(w)
      PROVE  OneWorkflow'
  BY <1>1, <1>2 DEF Starts, Turns
<1>3. ASSUME NEW w \in Workflows, BacksUp(w)
      PROVE  OneWorkflow'
  BY <1>1, <1>3 DEF BacksUp, Turns, Becomes
<1>4. ASSUME NEW w \in Workflows, NEW batch \in SUBSET todo[w], Dispatches(w, batch)
      PROVE  OneWorkflow'
  <2>1. Backstop \notin batch
    BY <1>1 DEF TypeOK
  <2>. QED
    BY <1>1, <1>4, <2>1 DEF Dispatches, Turns
<1>5. ASSUME NEW w \in Workflows, NEW at \in {"idle", "loop", "held"}, Leaves(w, at)
      PROVE  OneWorkflow'
  BY <1>1, <1>5 DEF Leaves, Turns, Clears
<1>6. ASSUME NEW w \in Workflows, NEW p \in Pairs, Lands(w, p) \/ Retries(w, p)
      PROVE  OneWorkflow'
  BY <1>1, <1>6 DEF Lands, Retries, Becomes
<1>7. ASSUME NEW w \in Workflows, NEW x \in Slot, Judges(w, x)
      PROVE  OneWorkflow'
  BY <1>1, <1>7 DEF Judges, Becomes, Slot
<1>8. Outside => OneWorkflow'
  BY <1>1 DEF Outside
<1>. QED
  BY <1>2, <1>3, <1>4, <1>5, <1>6, <1>7, <1>8 DEF Effect

\* What a transaction does to the set of recorded pairs; nothing else changes it.
LEMMA RecordedAs ==
  ASSUME TypeOK
  PROVE  /\ UNCHANGED results => Recorded' = Recorded /\ Errors' = Errors
         /\ \A p \in Pairs, outcome \in {"ok", "error"} :
              RecordAuditResult(p, outcome) => Recorded' = Recorded \cup {p}
<1>1. ASSUME NEW p \in Pairs, NEW outcome \in {"ok", "error"},
             RecordAuditResult(p, outcome)
      PROVE  Recorded' = Recorded \cup {p}
  BY <1>1 DEF TypeOK, RecordAuditResult, Recorded
<1>. QED
  BY <1>1 DEF Recorded, Errors

LEMMA OfThePlanStep ==
  ASSUME LoneInv, Effect
  PROVE  OfThePlan'
<1>. USE DEF LoneInv, OfThePlan
<1>1. UNCHANGED <<plan, totalJobs>> /\ Pairs \subseteq Slot
  BY DEF Effect, Slot
<1>2. ASSUME NEW w \in Workflows, Starts(w)
      PROVE  OfThePlan'
  BY <1>1, <1>2, RecordedAs DEF Starts, Turns, counts
<1>3. ASSUME NEW w \in Workflows, BacksUp(w)
      PROVE  OfThePlan'
  BY <1>1, <1>3, RecordedAs, PairsAssumption DEF BacksUp, Turns, Becomes, counts
<1>4. ASSUME NEW w \in Workflows, NEW batch \in SUBSET todo[w], Dispatches(w, batch)
      PROVE  OfThePlan'
  BY <1>1, <1>4, RecordedAs DEF Dispatches, Turns, counts, FirstCall, Finishing
<1>5. ASSUME NEW w \in Workflows, NEW at \in {"idle", "loop", "held"}, Leaves(w, at)
      PROVE  OfThePlan'
  <2>1. UNCHANGED results /\ Turns(w, at, todo'[w]) /\ todo'[w] \subseteq todo[w] /\ Clears(w)
    BY <1>5 DEF Leaves, Turns, counts
  <2>. QED
    BY <1>1, <2>1, RecordedAs DEF Turns, Clears, Finishing
<1>6. ASSUME NEW w \in Workflows, NEW p \in Pairs, Lands(w, p)
      PROVE  OfThePlan'
  <2>1. Recorded' = Recorded \cup {p} /\ UNCHANGED todo
    BY <1>6, RecordedAs DEF Lands
  <2>2. p \in plan
    BY <1>6 DEF Lands
  <2>. QED
    BY <1>1, <1>6, <2>1, <2>2 DEF Lands, Becomes, Finishing
<1>7. ASSUME NEW w \in Workflows, NEW p \in Pairs, Retries(w, p)
      PROVE  OfThePlan'
  BY <1>1, <1>7, RecordedAs DEF Retries, Becomes, Finishing, counts
<1>8. ASSUME NEW w \in Workflows, NEW x \in Slot, Judges(w, x)
      PROVE  OfThePlan'
  <2>1. Verdict \in {"completed", "failed"}
    BY DEF Verdict
  <2>. QED
    BY <1>1, <1>8, <2>1, RecordedAs DEF Judges, Becomes, Finishing, counts
<1>9. Outside => OfThePlan'
  BY <1>1, RecordedAs DEF Outside, counts
<1>. QED
  BY <1>2, <1>3, <1>4, <1>5, <1>6, <1>7, <1>8, <1>9 DEF Effect

LEMMA LoneAlways ==
  ASSUME CronEnabled = FALSE
  PROVE  Spec => []LoneInv
<1>1. LoneInv /\ TypeOK' /\ CountersMatchRows' /\ [Next]_vars => LoneInv'
  BY LoneEffects, OneWorkflowStep, OfThePlanStep DEF LoneInv
<1>. QED
  BY <1>1, LoneInit, TypeCorrect, ExactWithoutCron, PTL DEF Spec

-----------------------------------------------------------------------------
(* What a run that closes has measured.                                      *)

\* Pairs of the run that a workflow has neither measured nor is going to: only a
\* rejected step makes one.
GivenUp(w) == {p \in plan \ Recorded : p \notin todo[w] /\ step[<<w, p>>].at # "call"}

(***************************************************************************)
(* ClosedMeansMeasured is not inductive: whoever is about to write a verdict *)
(* must have found the pairs measured, and the workflow that sends it there *)
(* must have lost none on the way.                                          *)
(***************************************************************************)
MeasuredInv ==
  /\ ClosedMeansMeasured
  /\ (\E w \in Workflows, x \in Slot : step[<<w, x>>].at \in {"fin", "finwrite"})
       => Cardinality(plan \ Recorded) <= rejects
  /\ \A w \in Workflows : Alive(w) => Cardinality(GivenUp(w)) <= rejects

ReachedEnd ==
  \/ status \in {"completed", "failed"}
  \/ \E w \in Workflows, x \in Slot : step[<<w, x>>].at \in {"fin", "finwrite"}

LEMMA MeasuredInit == Init => MeasuredInv
<1>. SUFFICES ASSUME Init PROVE MeasuredInv
  OBVIOUS
<1>1. \A w \in Workflows, x \in Slot : step[<<w, x>>].at = "idle"
  BY DEF Init, IdleStep
<1>. QED
  BY <1>1 DEF Init, MeasuredInv, ClosedMeansMeasured, Alive

\* Rows are only added, and rejected steps only counted.
LEMMA MissingShrinks ==
  ASSUME LoneInv, Effect
  PROVE  /\ plan' \ Recorded' \subseteq plan \ Recorded
         /\ rejects \in Nat /\ rejects' \in Nat /\ rejects' >= rejects
<1>. USE DEF LoneInv
<1>1. UNCHANGED plan
  BY DEF Effect
<1>2. rejects \in Nat
  BY BoundsAssumption DEF TypeOK
<1>3. UNCHANGED results \/ \E w \in Workflows, p \in Pairs : Lands(w, p)
  BY DEF Effect, Starts, BacksUp, Dispatches, Leaves, Retries, Judges, Outside, counts
<1>4. Recorded \subseteq Recorded'
  BY <1>3, RecordedAs DEF Lands
<1>5. rejects' = rejects \/ rejects' = rejects + 1
  BY DEF Effect, Starts, BacksUp, Dispatches, Leaves, Lands, Retries, Judges, Outside
<1>. QED
  BY <1>1, <1>2, <1>4, <1>5

\* The counter reaches the total only with the last pair of the plan.
LEMMA ReadyMeansAll ==
  ASSUME LoneInv, NEW w \in Workflows, NEW p \in Pairs, Lands(w, p), ReadyToFinalize(p),
         UNCHANGED <<plan, totalJobs>>
  PROVE  plan' \subseteq Recorded'
<1>. USE DEF LoneInv
<1>1. p \in plan /\ p \notin Recorded /\ Recorded \subseteq plan
  BY DEF Lands, OfThePlan, ReadyToFinalize, Recorded
<1>2. Recorded' = Recorded \cup {p}
  BY RecordedAs DEF Lands
<1>3. IsFiniteSet(plan) /\ Cardinality(plan) \in Nat
  BY SubsetsFinite DEF TypeOK
<1>4. Cardinality(Recorded \cup {p}) = Cardinality(Recorded) + 1
  BY <1>1, RowsFinite, FS_AddElement
<1>5. Cardinality(Recorded \cup {p}) >= Cardinality(plan)
  BY <1>4 DEF ReadyToFinalize, shouldFinalize, CountersMatchRows, OfThePlan
<1>6. Recorded \cup {p} \subseteq plan
  BY <1>1
<1>. QED
  BY <1>2, <1>3, <1>4, <1>5, <1>6, RowsFinite, FS_Subset

\* What a workflow gives up in a step: nothing, or the pair of a step that is rejected.
LEMMA GivesUp ==
  ASSUME LoneInv, Effect, NEW v \in Workflows, Alive(v)'
  PROVE  \/ GivenUp(v)' = {}
         \/ Alive(v) /\ GivenUp(v)' \subseteq GivenUp(v)
         \/ /\ Alive(v)
            /\ rejects' = rejects + 1
            /\ \E p \in Pairs : GivenUp(v)' \subseteq GivenUp(v) \cup {p}
<1>. USE DEF LoneInv, GivenUp, Alive
<1>1. plan' \ Recorded' \subseteq plan \ Recorded /\ plan \subseteq Pairs /\ Pairs \subseteq Slot
  BY MissingShrinks DEF TypeOK, Slot
<1>2. ASSUME NEW w \in Workflows, Starts(w)
      PROVE  GivenUp(v)' = {} \/ (Alive(v) /\ GivenUp(v)' \subseteq GivenUp(v))
  BY <1>1, <1>2 DEF Starts, Turns, Effect
<1>3. ASSUME NEW w \in Workflows, BacksUp(w)
      PROVE  Alive(v) /\ GivenUp(v)' \subseteq GivenUp(v)
  BY <1>1, <1>3, PairsAssumption DEF BacksUp, Turns, Becomes
<1>4. ASSUME NEW w \in Workflows, NEW batch \in SUBSET todo[w], Dispatches(w, batch)
      PROVE  Alive(v) /\ GivenUp(v)' \subseteq GivenUp(v)
  <2>1. Alive(v)
    BY <1>4 DEF Dispatches, Turns
  <2>2. \A q \in plan : (v = w /\ q \in batch) => step'[<<v, q>>].at = "call"
    BY <1>1, <1>4 DEF Dispatches, FirstCall
  <2>3. \A q \in plan : ~(v = w /\ q \in batch) => step'[<<v, q>>] = step[<<v, q>>]
    BY <1>1, <1>4 DEF Dispatches
  <2>4. \A q \in plan : ~(v = w /\ q \in batch) => (q \in todo[v] => q \in todo'[v])
    BY <1>4 DEF Dispatches, Turns
  <2>. QED
    BY <1>1, <2>1, <2>2, <2>3, <2>4
<1>5. ASSUME NEW w \in Workflows, NEW at \in {"idle", "loop", "held"}, Leaves(w, at)
      PROVE  Alive(v) /\ GivenUp(v)' \subseteq GivenUp(v)
  <2>1. Alive(v)
    BY <1>5 DEF Leaves, Turns
  <2>2. CASE v # w
    BY <1>1, <1>5, <2>1, <2>2 DEF Leaves, Turns, Clears
  <2>3. CASE v = w
    <3>1. at # "idle" /\ todo'[w] = todo[w]
      BY <1>5, <2>3 DEF Leaves, Turns
    <3>2. \A q \in Pairs : step[<<w, q>>].at # "call"
      BY <1>1, <1>5, <3>1 DEF Leaves, Settled, OneWorkflow
    <3>. QED
      BY <1>1, <2>1, <2>3, <3>1, <3>2
  <2>. QED
    BY <2>2, <2>3
<1>6. ASSUME NEW w \in Workflows, NEW p \in Pairs, Lands(w, p)
      PROVE  Alive(v) /\ GivenUp(v)' \subseteq GivenUp(v)
  <2>1. p \in Recorded'
    BY <1>6, RecordedAs DEF Lands
  <2>. QED
    BY <1>1, <1>6, <2>1 DEF Lands, Becomes
<1>7. ASSUME NEW w \in Workflows, NEW p \in Pairs, Retries(w, p)
      PROVE  \/ Alive(v) /\ GivenUp(v)' \subseteq GivenUp(v)
             \/ /\ Alive(v) /\ rejects' = rejects + 1
                /\ GivenUp(v)' \subseteq GivenUp(v) \cup {p}
  <2>1. PICK s : /\ Becomes(w, p, s)
                 /\ \/ s.at = "call"
                    \/ step[<<w, p>>].at \in Finishing
                    \/ rejects' = rejects + 1
    BY <1>7 DEF Retries
  <2>2. step[<<w, p>>].at \in Finishing => p \in Recorded
    BY DEF OfThePlan
  <2>3. Alive(v) /\ todo' = todo
    BY <1>7 DEF Retries
  <2>4. \A q \in Pairs : step'[<<v, q>>] = IF v = w /\ q = p THEN s ELSE step[<<v, q>>]
    BY <1>1, <2>1 DEF Becomes
  <2>. QED
    BY <1>1, <2>1, <2>2, <2>3, <2>4
<1>8. ASSUME NEW w \in Workflows, NEW x \in Slot, Judges(w, x)
      PROVE  Alive(v) /\ GivenUp(v)' \subseteq GivenUp(v)
  BY <1>1, <1>8 DEF Judges, Becomes
<1>9. Outside => Alive(v) /\ GivenUp(v)' \subseteq GivenUp(v)
  BY <1>1 DEF Outside
<1>. QED
  BY <1>2, <1>3, <1>4, <1>5, <1>6, <1>7, <1>8, <1>9 DEF Effect

\* A run comes to its end by the last row, or by a backstop that finds nothing to do.
LEMMA EndIsReached ==
  ASSUME LoneInv, Effect, ~ReachedEnd, ReachedEnd'
  PROVE  \/ plan' \subseteq Recorded'
         \/ \E w \in Workflows : Alive(w) /\ plan' \ Recorded' \subseteq GivenUp(w)
<1>. USE DEF LoneInv, ReachedEnd
<1>0. UNCHANGED <<plan, totalJobs>> /\ plan \subseteq Pairs /\ Pairs \subseteq Slot
  BY DEF Effect, TypeOK, Slot
<1>1. ASSUME NEW w \in Workflows, NEW p \in Pairs, Lands(w, p)
      PROVE  plan' \subseteq Recorded'
  <2>1. ReadyToFinalize(p)
    BY <1>1 DEF Lands, Becomes
  <2>. QED
    BY <1>0, <1>1, <2>1, ReadyMeansAll
<1>2. ASSUME NEW w \in Workflows, BacksUp(w)
      PROVE  Alive(w) /\ plan' \ Recorded' \subseteq GivenUp(w)
  BY <1>0, <1>2, MissingShrinks DEF BacksUp, Alive, GivenUp, OneWorkflow
<1>3. ASSUME NEW w \in Workflows, Starts(w)
      PROVE  FALSE
  BY <1>3 DEF Starts
<1>4. ASSUME NEW w \in Workflows, NEW batch \in SUBSET todo[w], Dispatches(w, batch)
      PROVE  FALSE
  <2>1. FirstCall.at \notin {"fin", "finwrite"}
    BY DEF FirstCall
  <2>2. \A v \in Workflows, y \in Slot :
          step'[<<v, y>>].at \in {"fin", "finwrite"} => step'[<<v, y>>] = step[<<v, y>>]
    BY <1>4, <2>1 DEF Dispatches
  <2>. QED
    BY <1>4, <2>2 DEF Dispatches
<1>5. ASSUME NEW w \in Workflows, NEW at \in {"idle", "loop", "held"}, Leaves(w, at)
      PROVE  FALSE
  BY <1>5 DEF Leaves, Clears
<1>6. ASSUME NEW w \in Workflows, NEW p \in Pairs, Retries(w, p)
      PROVE  FALSE
  BY <1>6 DEF Retries, Becomes
<1>7. ASSUME NEW w \in Workflows, NEW x \in Slot, Judges(w, x)
      PROVE  FALSE
  BY <1>7 DEF Judges, Becomes
<1>8. Outside => FALSE
  BY DEF Outside
<1>. QED
  BY <1>1, <1>2, <1>3, <1>4, <1>5, <1>6, <1>7, <1>8 DEF Effect

LEMMA MeasuredStep ==
  ASSUME LoneInv, MeasuredInv, Effect
  PROVE  MeasuredInv'
<1>1. /\ IsFiniteSet(plan \ Recorded) /\ Cardinality(plan \ Recorded) \in Nat
      /\ IsFiniteSet(plan' \ Recorded') /\ Cardinality(plan' \ Recorded') \in Nat
      /\ plan' \ Recorded' \subseteq plan \ Recorded
  <2>1. plan \ Recorded \in SUBSET Pairs
    BY DEF LoneInv, TypeOK
  <2>2. plan' \ Recorded' \in SUBSET Pairs
    BY <2>1, MissingShrinks
  <2>. QED
    BY <2>1, <2>2, SubsetsFinite, MissingShrinks
<1>2. \A w \in Workflows : /\ IsFiniteSet(GivenUp(w)) /\ Cardinality(GivenUp(w)) \in Nat
                           /\ GivenUp(w) \in SUBSET Pairs
  <2>1. \A w \in Workflows : GivenUp(w) \in SUBSET Pairs
    BY DEF GivenUp, LoneInv, TypeOK
  <2>. QED
    BY <2>1, SubsetsFinite
<1>3. rejects \in Nat /\ rejects' \in Nat /\ rejects' >= rejects
  BY MissingShrinks
<1>4. ASSUME ReachedEnd'
      PROVE  Cardinality(plan' \ Recorded') <= rejects'
  <2>1. CASE ReachedEnd
    <3>1. Cardinality(plan \ Recorded) <= rejects
      BY <2>1 DEF ReachedEnd, MeasuredInv, ClosedMeansMeasured
    <3>2. Cardinality(plan' \ Recorded') <= Cardinality(plan \ Recorded)
      BY <1>1, FS_Subset
    <3>. QED
      BY <1>1, <1>3, <3>1, <3>2
  <2>2. CASE ~ReachedEnd /\ plan' \subseteq Recorded'
    <3>1. plan' \ Recorded' = {}
      BY <2>2
    <3>. QED
      BY <1>3, <3>1, FS_EmptySet
  <2>3. ASSUME NEW w \in Workflows, Alive(w), plan' \ Recorded' \subseteq GivenUp(w)
        PROVE  Cardinality(plan' \ Recorded') <= rejects'
    <3>1. Cardinality(plan' \ Recorded') <= Cardinality(GivenUp(w))
      BY <1>2, <2>3, FS_Subset
    <3>2. Cardinality(GivenUp(w)) <= rejects
      BY <2>3 DEF MeasuredInv
    <3>. QED
      BY <1>1, <1>2, <1>3, <3>1, <3>2
  <2>. QED
    BY <1>4, <2>1, <2>2, <2>3, EndIsReached
<1>5. ASSUME NEW v \in Workflows, Alive(v)'
      PROVE  Cardinality(GivenUp(v)') <= rejects'
  <2>1. CASE GivenUp(v)' = {}
    BY <1>3, <2>1, FS_EmptySet
  <2>2. CASE Alive(v) /\ GivenUp(v)' \subseteq GivenUp(v)
    <3>1. Cardinality(GivenUp(v)') <= Cardinality(GivenUp(v)) /\ Cardinality(GivenUp(v)') \in Nat
      BY <1>2, <2>2, FS_Subset, FS_CardinalityType
    <3>2. Cardinality(GivenUp(v)) <= rejects
      BY <2>2 DEF MeasuredInv
    <3>. QED
      BY <1>2, <1>3, <3>1, <3>2
  <2>3. ASSUME Alive(v), rejects' = rejects + 1, NEW p \in Pairs,
               GivenUp(v)' \subseteq GivenUp(v) \cup {p}
        PROVE  Cardinality(GivenUp(v)') <= rejects'
    <3>1. /\ IsFiniteSet(GivenUp(v) \cup {p})
          /\ Cardinality(GivenUp(v) \cup {p}) <= Cardinality(GivenUp(v)) + 1
          /\ Cardinality(GivenUp(v) \cup {p}) \in Nat
      <4>1. IsFiniteSet(GivenUp(v) \cup {p})
        BY <1>2, FS_AddElement
      <4>2. Cardinality(GivenUp(v) \cup {p}) \in Nat
        BY <4>1, FS_CardinalityType
      <4>3. CASE p \in GivenUp(v)
        <5>1. GivenUp(v) \cup {p} = GivenUp(v)
          BY <4>3
        <5>. QED
          BY <1>2, <4>1, <5>1
      <4>4. CASE p \notin GivenUp(v)
        <5>1. Cardinality(GivenUp(v) \cup {p}) = Cardinality(GivenUp(v)) + 1
          BY <1>2, <4>4, FS_AddElement
        <5>. QED
          BY <1>2, <4>1, <4>2, <5>1
      <4>. QED
        BY <4>3, <4>4
    <3>2. /\ Cardinality(GivenUp(v)') <= Cardinality(GivenUp(v) \cup {p})
          /\ Cardinality(GivenUp(v)') \in Nat
      BY <2>3, <3>1, FS_Subset, FS_CardinalityType
    <3>3. Cardinality(GivenUp(v)) <= rejects
      BY <2>3 DEF MeasuredInv
    <3>. QED
      BY <1>2, <1>3, <2>3, <3>1, <3>2, <3>3
  <2>. QED
    BY <1>5, <2>1, <2>2, <2>3, GivesUp
<1>. QED
  BY <1>4, <1>5 DEF MeasuredInv, ClosedMeansMeasured, ReachedEnd

\* A closed run has measured every pair it was created with, but for those whose step the
\* runtime gave up: redeliveries, failed attempts, holds and crashes lose none.
THEOREM ClosesOnlyMeasured ==
  ASSUME CronEnabled = FALSE
  PROVE  Spec => []ClosedMeansMeasured
<1>1. LoneInv /\ MeasuredInv /\ [Next]_vars => MeasuredInv'
  BY LoneEffects, MeasuredStep
<1>2. MeasuredInv => ClosedMeansMeasured
  BY DEF MeasuredInv
<1>. QED
  BY <1>1, <1>2, MeasuredInit, LoneAlways, PTL DEF Spec

\* A verdict of failure, written or about to be, was reached with every pair an error,
\* and no later row can change that.
FailureInv ==
  (\/ status = "failed"
   \/ \E w \in Workflows, x \in Slot :
        step[<<w, x>>].at = "finwrite" /\ step[<<w, x>>].saw = "failed")
  => Errors = plan

LEMMA FailureInit == Init => FailureInv
<1>. SUFFICES ASSUME Init PROVE FailureInv
  OBVIOUS
<1>1. \A w \in Workflows, x \in Slot : step[<<w, x>>].at = "idle"
  BY DEF Init, IdleStep
<1>. QED
  BY <1>1 DEF Init, FailureInv

\* Only a finalizer with that verdict writes it.
FailsNow ==
  \/ status = "failed"
  \/ \E w \in Workflows, x \in Slot :
       step[<<w, x>>].at = "finwrite" /\ step[<<w, x>>].saw = "failed"

LEMMA OnlyErrors ==
  ASSUME LoneInv, Verdict = "failed"
  PROVE  Errors = plan
<1>1. Errors \subseteq plan /\ Errors \subseteq Recorded
  BY DEF Errors, Recorded, LoneInv, OfThePlan
<1>2. Cardinality(Errors) >= Cardinality(plan)
  BY DEF Verdict, LoneInv, OfThePlan, CountersMatchRows
<1>3. IsFiniteSet(plan) /\ Cardinality(plan) \in Nat /\ Cardinality(Errors) \in Nat
  BY SubsetsFinite, RowsFinite DEF LoneInv, TypeOK
<1>. QED
  BY <1>1, <1>2, <1>3, FS_Subset

LEMMA AllErrorsStay ==
  ASSUME LoneInv, Effect, Errors = plan
  PROVE  Errors' = plan'
<1>1. UNCHANGED plan
  BY DEF Effect
<1>2. ASSUME NEW w \in Workflows, NEW p \in Pairs, Lands(w, p)
      PROVE  Errors' = Errors
  <2>1. p \in plan
    BY <1>2 DEF Lands, LoneInv, OfThePlan
  <2>2. results[p] # "none"
    BY <2>1 DEF Errors
  <2>. QED
    BY <1>2, <2>2 DEF Lands, RecordAuditResult, Errors
<1>3. UNCHANGED results \/ \E w \in Workflows, p \in Pairs : Lands(w, p)
  BY DEF Effect, Starts, BacksUp, Dispatches, Leaves, Retries, Judges, Outside, counts
<1>4. UNCHANGED results => Errors' = Errors
  BY DEF Errors
<1>. QED
  BY <1>1, <1>2, <1>3, <1>4

LEMMA FailureStep ==
  ASSUME LoneInv, FailureInv, Effect
  PROVE  FailureInv'
<1>1. Errors = plan => FailureInv'
  BY AllErrorsStay DEF FailureInv
<1>. SUFFICES ASSUME ~FailsNow, FailsNow'
              PROVE  Errors = plan
  BY <1>1 DEF FailureInv, FailsNow
<1>. USE DEF FailsNow
<1>2. ASSUME NEW w \in Workflows, NEW p \in Pairs, Lands(w, p) \/ Retries(w, p)
      PROVE  FALSE
  BY <1>2 DEF Lands, Retries, Becomes, Slot
<1>3. ASSUME NEW w \in Workflows, NEW x \in Slot, Judges(w, x)
      PROVE  Verdict = "failed"
  BY <1>3 DEF Judges, Becomes
<1>4. ASSUME NEW w \in Workflows, Starts(w) \/ BacksUp(w)
      PROVE  FALSE
  BY <1>4 DEF Starts, BacksUp, Becomes, Slot
<1>5. ASSUME NEW w \in Workflows, NEW batch \in SUBSET todo[w], Dispatches(w, batch)
      PROVE  FALSE
  <2>1. FirstCall.at # "finwrite"
    BY DEF FirstCall
  <2>2. \A v \in Workflows, y \in Slot :
          step'[<<v, y>>].at = "finwrite" => step'[<<v, y>>] = step[<<v, y>>]
    BY <1>5, <2>1 DEF Dispatches
  <2>. QED
    BY <1>5, <2>2 DEF Dispatches
<1>6. ASSUME NEW w \in Workflows, NEW at \in {"idle", "loop", "held"}, Leaves(w, at)
      PROVE  FALSE
  BY <1>6 DEF Leaves, Clears
<1>7. Outside => FALSE
  BY DEF Outside
<1>. QED
  BY <1>2, <1>3, <1>4, <1>5, <1>6, <1>7, OnlyErrors DEF Effect

\* A run is called failed only when nothing of it succeeded; the rows that land after the
\* verdict cannot contradict it.
THEOREM FailsOnlyWhollyFailed ==
  ASSUME CronEnabled = FALSE
  PROVE  Spec => []FailedMeansNothingSucceeded
<1>1. LoneInv /\ FailureInv /\ [Next]_vars => FailureInv'
  BY LoneEffects, FailureStep
<1>2. LoneInv /\ FailureInv => FailedMeansNothingSucceeded
  BY DEF LoneInv, FailureInv, FailedMeansNothingSucceeded, OfThePlan, Recorded, Errors
<1>. QED
  BY <1>1, <1>2, FailureInit, LoneAlways, PTL DEF Spec

-----------------------------------------------------------------------------
(* One notice. *)

Nobody == \A u \in Users : intent[u] = "none"
Finisher(w, x) == step[<<w, x>>].at \in Finishing
SomeoneFinishes == \E w \in Workflows, x \in Slot : Finisher(w, x)

\* Left alone, a run is open until a finalizer closes it.
NobodyHolds == Nobody => status \in {"running", "completed", "failed"}

\* Once somebody finalizes, every pair still to be measured is a replay ...
OnlyReplays ==
  SomeoneFinishes \/ notices > 0 =>
    /\ launched
    /\ \A w \in Workflows, p \in Pairs :
         p \in todo[w] \/ step[<<w, p>>].at = "call" => p \in Recorded

\* ... so nobody else will: one finalizer at a time, which notifies of a closed run.
OneFinisher ==
  \A w, v \in Workflows, x, y \in Slot : Finisher(w, x) /\ Finisher(v, y) => w = v /\ x = y
NotifiesClosed ==
  Nobody => \A w \in Workflows, x \in Slot : step[<<w, x>>].at = "notify" => status # "running"

\* Once the notice is out, the run is closed and nobody finalizes it.
NoticeIsLast == Nobody /\ notices > 0 => status # "running" /\ ~SomeoneFinishes

NoticeInv ==
  NobodyHolds /\ OnlyReplays /\ OneFinisher /\ NotifiesClosed /\ NoticeIsLast /\ OneNotice

LEMMA NoticeInit == Init => NoticeInv
<1>. SUFFICES ASSUME Init PROVE NoticeInv
  OBVIOUS
<1>1. \A w \in Workflows, x \in Slot : step[<<w, x>>].at = "idle"
  BY DEF Init, IdleStep
<1>2. ~SomeoneFinishes /\ notices = 0 /\ status = "running"
  BY <1>1 DEF Init, SomeoneFinishes, Finisher, Finishing
<1>. QED
  BY <1>1, <1>2
  DEF NoticeInv, NobodyHolds, OnlyReplays, OneFinisher, NotifiesClosed, NoticeIsLast, OneNotice,
      SomeoneFinishes, Nobody

\* Who is left alone was so before, and only a finalizer changes the status.
LEMMA LeftAlone ==
  ASSUME LoneInv, Effect, Nobody'
  PROVE  /\ Nobody
         /\ \/ status' = status
            \/ /\ status' \in {"completed", "failed"}
               /\ SomeoneFinishes
<1>1. ASSUME NEW w \in Workflows, NEW x \in Slot, Judges(w, x)
      PROVE  /\ UNCHANGED intent
             /\ status' = status \/ (status' \in {"completed", "failed"} /\ SomeoneFinishes)
  BY <1>1 DEF Judges, LoneInv, OfThePlan, SomeoneFinishes, Finisher, Finishing
<1>2. Outside => UNCHANGED <<status, intent>>
  BY DEF Outside, Nobody
<1>. QED
  BY <1>1, <1>2 DEF Effect, Starts, BacksUp, Dispatches, Leaves, Lands, Retries, told, Nobody

\* How a step comes to be one that finalizes, or that notifies.
LEMMA NewFinisher ==
  ASSUME LoneInv, Effect, NEW w \in Workflows, NEW x \in Slot, Finisher(w, x)'
  PROVE  \/ Finisher(w, x)
         \/ x \in Pairs /\ Lands(w, x) /\ ReadyToFinalize(x)
         \/ x = Backstop /\ BacksUp(w)
<1>. USE DEF Finisher, Finishing
<1>1. Pairs \subseteq Slot
  BY DEF Slot
<1>2. ASSUME NEW v \in Workflows, Starts(v) \/ BacksUp(v)
      PROVE  Finisher(w, x) \/ (x = Backstop /\ BacksUp(w))
  BY <1>2 DEF Starts, BacksUp, Becomes
<1>3. ASSUME NEW v \in Workflows, NEW batch \in SUBSET todo[v], Dispatches(v, batch)
      PROVE  Finisher(w, x)
  <2>1. FirstCall.at \notin Finishing
    BY DEF FirstCall
  <2>2. step'[<<w, x>>] = IF w = v /\ x \in batch THEN FirstCall ELSE step[<<w, x>>]
    BY <1>3 DEF Dispatches
  <2>. QED
    BY <2>1, <2>2
<1>4. ASSUME NEW v \in Workflows, NEW at \in {"idle", "loop", "held"}, Leaves(v, at)
      PROVE  Finisher(w, x)
  BY <1>4 DEF Leaves, Clears
<1>5. ASSUME NEW v \in Workflows, NEW p \in Pairs, Lands(v, p)
      PROVE  Finisher(w, x) \/ (x \in Pairs /\ Lands(w, x) /\ ReadyToFinalize(x))
  <2>1. PICK s : Becomes(v, p, s) /\ (s.at = "settled" \/ (s.at = "fin" /\ ReadyToFinalize(p)))
    BY <1>5 DEF Lands
  <2>. QED
    BY <1>5, <2>1 DEF Becomes
<1>6. ASSUME NEW v \in Workflows, NEW p \in Pairs, Retries(v, p)
      PROVE  Finisher(w, x)
  BY <1>6 DEF Retries, Becomes
<1>7. ASSUME NEW v \in Workflows, NEW y \in Slot, Judges(v, y)
      PROVE  Finisher(w, x)
  BY <1>7 DEF Judges, Becomes
<1>8. Outside => Finisher(w, x)
  BY DEF Outside
<1>. QED
  BY <1>2, <1>3, <1>4, <1>5, <1>6, <1>7, <1>8 DEF Effect

\* A finalizer that was not one before is alone, and its run had no notice.
LEMMA NewIsAlone ==
  ASSUME LoneInv, NoticeInv, Effect, NEW w \in Workflows, NEW x \in Slot,
         Finisher(w, x)', ~Finisher(w, x)
  PROVE  /\ ~SomeoneFinishes
         /\ Nobody => notices = 0
         /\ \A v \in Workflows, y \in Slot : Finisher(v, y)' => v = w /\ y = x
<1>. USE DEF LoneInv
<1>1. CASE x \in Pairs /\ Lands(w, x) /\ ReadyToFinalize(x)
  <2>1. x \notin Recorded /\ step[<<w, x>>].at = "call"
    BY <1>1 DEF ReadyToFinalize, Recorded, Lands
  <2>2. ~SomeoneFinishes /\ ~(notices > 0)
    BY <1>1, <2>1 DEF NoticeInv, OnlyReplays
  <2>3. notices \in Nat
    BY BoundsAssumption DEF TypeOK
  <2>4. \A v \in Workflows, y \in Slot : ~(v = w /\ y = x) => step'[<<v, y>>] = step[<<v, y>>]
    BY <1>1 DEF Lands, Becomes
  <2>. QED
    BY <2>2, <2>3, <2>4 DEF SomeoneFinishes, Finisher
<1>2. CASE x = Backstop /\ BacksUp(w)
  <2>1. \A v \in Workflows, y \in Slot : step[<<v, y>>].at = "idle"
    BY <1>2 DEF BacksUp, OneWorkflow, Alive, Slot
  <2>2. ~SomeoneFinishes
    BY <2>1 DEF SomeoneFinishes, Finisher, Finishing
  <2>3. Nobody => notices = 0
    BY <1>2, BoundsAssumption DEF BacksUp, NoticeInv, NoticeIsLast, TypeOK
  <2>4. \A v \in Workflows, y \in Slot : ~(v = w /\ y = x) => step'[<<v, y>>] = step[<<v, y>>]
    BY <1>2 DEF BacksUp, Becomes
  <2>. QED
    BY <2>2, <2>3, <2>4 DEF SomeoneFinishes, Finisher
<1>. QED
  BY <1>1, <1>2, NewFinisher

\* Every pair that is left, once one step may finalize, has its row.
LEMMA ReplaysStay ==
  ASSUME LoneInv, Effect, OnlyReplays, SomeoneFinishes \/ notices > 0
  PROVE  OnlyReplays'
<1>. USE DEF LoneInv
<1>0. Pairs \subseteq Slot /\ Backstop \notin Pairs
  BY PairsAssumption DEF Slot
<1>1. launched /\ \A w \in Workflows, p \in Pairs :
                    p \in todo[w] \/ step[<<w, p>>].at = "call" => p \in Recorded
  BY DEF OnlyReplays
<1>2. ASSUME NEW w \in Workflows, BacksUp(w)
      PROVE  OnlyReplays'
  BY <1>0, <1>1, <1>2, RecordedAs DEF BacksUp, Turns, Becomes, OnlyReplays, counts
<1>3. ASSUME NEW w \in Workflows, NEW batch \in SUBSET todo[w], Dispatches(w, batch)
      PROVE  OnlyReplays'
  <2>1. Recorded' = Recorded /\ launched'
    BY <1>1, <1>3, RecordedAs DEF Dispatches, counts
  <2>2. ASSUME NEW v \in Workflows, NEW p \in Pairs,
               p \in todo'[v] \/ step'[<<v, p>>].at = "call"
        PROVE  p \in Recorded
    BY <1>0, <1>1, <1>3, <2>2 DEF Dispatches, Turns
  <2>. QED
    BY <2>1, <2>2 DEF OnlyReplays
<1>4. ASSUME NEW w \in Workflows, NEW at \in {"idle", "loop", "held"}, Leaves(w, at)
      PROVE  OnlyReplays'
  <2>1. Recorded' = Recorded /\ launched'
    BY <1>1, <1>4, RecordedAs DEF Leaves, counts
  <2>2. ASSUME NEW v \in Workflows, NEW p \in Pairs,
               p \in todo'[v] \/ step'[<<v, p>>].at = "call"
        PROVE  p \in Recorded
    <3>1. todo'[v] \subseteq todo[v]
      BY <1>4 DEF Leaves, Turns
    <3>2. step'[<<v, p>>].at = "call" => step[<<v, p>>].at = "call"
      BY <1>0, <1>4 DEF Leaves, Clears
    <3>. QED
      BY <1>1, <2>2, <3>1, <3>2
  <2>. QED
    BY <2>1, <2>2 DEF OnlyReplays
<1>5. ASSUME NEW w \in Workflows, NEW p \in Pairs, Lands(w, p)
      PROVE  OnlyReplays'
  <2>1. Recorded' = Recorded \cup {p} /\ launched' /\ todo' = todo
    BY <1>1, <1>5, RecordedAs DEF Lands
  <2>2. \A v \in Workflows, q \in Pairs :
          step'[<<v, q>>].at = "call" => step[<<v, q>>].at = "call"
    BY <1>0, <1>5 DEF Lands, Becomes
  <2>. QED
    BY <1>1, <2>1, <2>2 DEF OnlyReplays
<1>6. ASSUME NEW w \in Workflows, NEW p \in Pairs, Retries(w, p)
      PROVE  OnlyReplays'
  <2>1. Recorded' = Recorded /\ launched' /\ todo' = todo
    BY <1>1, <1>6, RecordedAs DEF Retries, counts
  <2>2. p \in Recorded
    <3>1. step[<<w, p>>].at \in Finishing \cup {"call"}
      BY <1>0, <1>6, StepAt DEF Retries, StepState, Finishing
    <3>. QED
      BY <1>1, <3>1 DEF OfThePlan
  <2>3. \A v \in Workflows, q \in Pairs :
          ~(v = w /\ q = p) => step'[<<v, q>>] = step[<<v, q>>]
    BY <1>0, <1>6 DEF Retries, Becomes
  <2>. QED
    BY <1>1, <2>1, <2>2, <2>3 DEF OnlyReplays
<1>7. ASSUME NEW w \in Workflows, NEW x \in Slot, Judges(w, x)
      PROVE  OnlyReplays'
  <2>1. Recorded' = Recorded /\ launched' /\ todo' = todo
    BY <1>1, <1>7, RecordedAs DEF Judges, counts
  <2>2. \A v \in Workflows, q \in Pairs :
          step'[<<v, q>>].at = "call" => step[<<v, q>>].at = "call"
    BY <1>0, <1>7 DEF Judges, Becomes
  <2>. QED
    BY <1>1, <2>1, <2>2 DEF OnlyReplays
<1>8. Outside => OnlyReplays'
  BY <1>1, RecordedAs DEF Outside, counts, OnlyReplays
<1>9. ASSUME NEW w \in Workflows, Starts(w)
      PROVE  OnlyReplays'
  BY <1>1, <1>9 DEF Starts
<1>. QED
  BY <1>2, <1>3, <1>4, <1>5, <1>6, <1>7, <1>8, <1>9 DEF Effect

LEMMA ReplaysStep ==
  ASSUME LoneInv, NoticeInv, Effect
  PROVE  OnlyReplays'
<1>. USE DEF LoneInv
<1>1. CASE SomeoneFinishes \/ notices > 0
  BY <1>1, ReplaysStay DEF NoticeInv
<1>2. CASE ~SomeoneFinishes /\ ~(notices > 0)
  <2>. SUFFICES ASSUME SomeoneFinishes' \/ notices' > 0
                PROVE  OnlyReplays'
    BY DEF OnlyReplays
  <2>1. ~\E w \in Workflows, x \in Slot : Judges(w, x)
    BY <1>2 DEF Judges, SomeoneFinishes, Finisher, Finishing
  <2>2. notices' = notices
    BY <2>1 DEF Effect, Starts, BacksUp, Dispatches, Leaves, Lands, Retries, Outside, told
  <2>3. PICK w \in Workflows, x \in Slot : Finisher(w, x)'
    BY <1>2, <2>2 DEF SomeoneFinishes
  <2>4. CASE x \in Pairs /\ Lands(w, x) /\ ReadyToFinalize(x)
    <3>1. plan' \subseteq Recorded' /\ plan' = plan
      BY <2>4, ReadyMeansAll DEF Effect
    <3>2. UNCHANGED <<todo, launched>> /\ launched
      BY <2>4 DEF Lands, OneWorkflow, Alive
    <3>3. \A v \in Workflows, q \in Pairs :
            step'[<<v, q>>].at = "call" => step[<<v, q>>].at = "call"
      BY <2>4 DEF Lands, Becomes, Slot
    <3>. QED
      BY <3>1, <3>2, <3>3 DEF OnlyReplays, OfThePlan
  <2>5. CASE x = Backstop /\ BacksUp(w)
    <3>1. launched' /\ \A v \in Workflows : todo'[v] = {}
      BY <2>5 DEF BacksUp, OneWorkflow, Alive, Turns
    <3>2. \A v \in Workflows, q \in Pairs : step'[<<v, q>>].at = "idle"
      <4>1. \A v \in Workflows, q \in Pairs : step[<<v, q>>].at = "idle"
        BY <2>5 DEF BacksUp, OneWorkflow, Alive
      <4>2. \A v \in Workflows, q \in Pairs : step'[<<v, q>>] = step[<<v, q>>]
        BY <2>5, PairsAssumption DEF BacksUp, Becomes, Slot
      <4>. QED
        BY <4>1, <4>2
    <3>. QED
      BY <3>1, <3>2 DEF OnlyReplays
  <2>. QED
    BY <1>2, <2>3, <2>4, <2>5, NewFinisher DEF SomeoneFinishes
<1>. QED
  BY <1>1, <1>2

LEMMA NotifiesClosedStep ==
  ASSUME LoneInv, NoticeInv, Effect
  PROVE  NotifiesClosed'
<1>. SUFFICES ASSUME Nobody', NEW w \in Workflows, NEW x \in Slot, step'[<<w, x>>].at = "notify"
              PROVE  status' # "running"
  BY DEF NotifiesClosed
<1>1. Nobody /\ (status' = status \/ status' \in {"completed", "failed"})
  BY LeftAlone
<1>2. CASE step[<<w, x>>].at = "notify"
  BY <1>1, <1>2 DEF NoticeInv, NotifiesClosed
<1>3. CASE step[<<w, x>>].at # "notify"
  <2>1. Finisher(w, x)' /\ ~(Lands(w, x) /\ x \in Pairs) /\ ~BacksUp(w)
    <3>1. ASSUME NEW s, Becomes(w, x, s)
          PROVE  s.at = "notify"
      BY <3>1 DEF Becomes
    <3>2. ~(Lands(w, x) /\ x \in Pairs)
      BY <3>1 DEF Lands
    <3>3. ~BacksUp(w)
      BY <1>3 DEF BacksUp, Becomes
    <3>. QED
      BY <3>2, <3>3 DEF Finisher, Finishing
  <2>2. step[<<w, x>>].at \in {"fin", "finwrite"}
    BY <1>3, <2>1, NewFinisher DEF Finisher, Finishing
  <2>3. \E v \in Workflows, y \in Slot : Judges(v, y)
    <3>1. ~\E v \in Workflows, p \in Pairs : Lands(v, p) \/ Retries(v, p)
      BY <1>3 DEF Lands, Retries, Becomes, Slot
    <3>2. ~\E v \in Workflows : Starts(v) \/ BacksUp(v)
      BY <1>3 DEF Starts, BacksUp, Becomes, Slot
    <3>3. ~\E v \in Workflows, at \in {"idle", "loop", "held"} : Leaves(v, at)
      BY <1>3 DEF Leaves, Clears
    <3>4. ~Outside
      BY <1>3 DEF Outside
    <3>5. ASSUME NEW v \in Workflows, NEW batch \in SUBSET todo[v], Dispatches(v, batch)
          PROVE  FALSE
      <4>1. step'[<<w, x>>] = IF w = v /\ x \in batch THEN FirstCall ELSE step[<<w, x>>]
        BY <3>5 DEF Dispatches
      <4>. QED
        BY <1>3, <4>1 DEF FirstCall
    <3>. QED
      BY <3>1, <3>2, <3>3, <3>4, <3>5 DEF Effect
  <2>4. PICK v \in Workflows, y \in Slot : Judges(v, y)
    BY <2>3
  <2>5. v = w /\ y = x
    BY <1>3, <2>4 DEF Judges, Becomes
  <2>. QED
    BY <1>3, <2>4, <2>5 DEF Judges, Becomes, LoneInv, OfThePlan, Terminal
<1>. QED
  BY <1>2, <1>3

\* Only a finalizer that notifies sends a notice.
LEMMA NoticeSent ==
  ASSUME LoneInv, Effect, notices' # notices
  PROVE  \E w \in Workflows, x \in Slot :
           /\ step[<<w, x>>].at = "notify"
           /\ notices' = notices + 1 /\ status' = status
           /\ \E s : s.at = "settled" /\ Becomes(w, x, s)
BY DEF Effect, Starts, BacksUp, Dispatches, Leaves, Lands, Retries, Outside, Judges, told

LEMMA NoticeStep ==
  ASSUME LoneInv, NoticeInv, Effect
  PROVE  NoticeInv'
<1>. USE DEF NoticeInv
<1>1. NobodyHolds'
  BY LeftAlone DEF NobodyHolds
<1>2. OneFinisher'
  <2>. SUFFICES ASSUME NEW w \in Workflows, NEW v \in Workflows, NEW x \in Slot, NEW y \in Slot,
                       Finisher(w, x)', Finisher(v, y)'
                PROVE  w = v /\ x = y
    BY DEF OneFinisher
  <2>1. CASE Finisher(w, x) /\ Finisher(v, y)
    BY <2>1 DEF OneFinisher
  <2>. QED
    BY <2>1, NewIsAlone
<1>3. ASSUME Nobody', notices' > 0
      PROVE  notices' <= 1 /\ status' # "running" /\ ~SomeoneFinishes'
  <2>1. Nobody /\ notices \in Nat /\ notices <= 1
    BY <1>3, LeftAlone, BoundsAssumption DEF LoneInv, TypeOK, OneNotice, Nobody
  <2>2. CASE notices' = notices
    <3>1. status # "running" /\ ~SomeoneFinishes
      BY <1>3, <2>1, <2>2 DEF NoticeIsLast
    <3>2. status' = status
      BY <1>3, <3>1, LeftAlone
    <3>3. ~SomeoneFinishes'
      BY <1>3, <2>1, <2>2, <3>1, NewIsAlone DEF SomeoneFinishes
    <3>. QED
      BY <2>1, <2>2, <3>1, <3>2, <3>3
  <2>3. CASE notices' # notices
    <3>1. PICK w \in Workflows, x \in Slot :
            /\ step[<<w, x>>].at = "notify" /\ notices' = notices + 1 /\ status' = status
            /\ \E s : s.at = "settled" /\ Becomes(w, x, s)
      BY <2>3, NoticeSent
    <3>2. SomeoneFinishes /\ Finisher(w, x)
      BY <3>1 DEF SomeoneFinishes, Finisher, Finishing
    <3>3. notices = 0 /\ status # "running"
      BY <2>1, <3>1, <3>2 DEF NoticeIsLast, NotifiesClosed
    <3>4. ASSUME NEW v \in Workflows, NEW y \in Slot, Finisher(v, y)'
          PROVE  FALSE
      <4>1. ~(v = w /\ y = x)
        BY <3>1, <3>4 DEF Becomes, Finisher, Finishing
      <4>2. ~Finisher(v, y)
        BY <3>2, <4>1 DEF OneFinisher
      <4>. QED
        BY <3>2, <3>4, <4>2, NewIsAlone
    <3>. QED
      BY <3>1, <3>3, <3>4 DEF SomeoneFinishes
  <2>. QED
    BY <2>2, <2>3
<1>4. notices' \in Nat => OneNotice' /\ NoticeIsLast'
  BY <1>3 DEF OneNotice, NoticeIsLast, Nobody
<1>5. notices' \in Nat
  <2>1. notices \in Nat
    BY BoundsAssumption DEF LoneInv, TypeOK
  <2>2. notices' = notices \/ notices' = notices + 1
    BY NoticeSent
  <2>. QED
    BY <2>1, <2>2
<1>. QED
  BY <1>1, <1>2, <1>4, <1>5, ReplaysStep, NotifiesClosedStep

\* A sweep nobody holds notifies at most once, however often its steps are redelivered.
THEOREM NotifiesOnce ==
  ASSUME CronEnabled = FALSE
  PROVE  Spec => []OneNotice
<1>1. LoneInv /\ NoticeInv /\ [Next]_vars => NoticeInv'
  BY LoneEffects, NoticeStep
<1>2. NoticeInv => OneNotice
  BY DEF NoticeInv
<1>. QED
  BY <1>1, <1>2, NoticeInit, LoneAlways, PTL DEF Spec

-----------------------------------------------------------------------------
(* The rows that land after a hold. *)

Held == status \in {"paused", "cancelled"}
Open(w) == {p \in Pairs : step[<<w, p>>].at = "call" /\ p \notin Recorded}

\* What has landed since the hold and what still may are one batch together; a workflow
\* with no batch out gets one only after the run was seen running, or was never launched.
NothingUnlaunched == ~launched => landed = 0
OneBatchOpen == \A w \in Workflows : Cardinality(Open(w)) <= BatchSize
NoneBeforeBatch ==
  Held => \A w \in Workflows : phase[w] \in {"loop", "backstop"} => landed = 0
OneBatchLands ==
  Held => \A w \in Workflows :
            phase[w] = "batch" => landed + Cardinality(Open(w)) <= BatchSize

HoldInv ==
  HoldIsBounded /\ NothingUnlaunched /\ OneBatchOpen /\ NoneBeforeBatch /\ OneBatchLands

LEMMA HoldInit == Init => HoldInv
<1>. SUFFICES ASSUME Init PROVE HoldInv
  OBVIOUS
<1>1. \A w \in Workflows, p \in Pairs : step[<<w, p>>].at = "idle"
  BY DEF Init, IdleStep, Slot
<1>2. \A w \in Workflows : Open(w) = {}
  BY <1>1 DEF Open
<1>3. status = "running" /\ landed = 0
  BY DEF Init
<1>. QED
  BY <1>2, <1>3, FS_EmptySet, BoundsAssumption
  DEF HoldInv, HoldIsBounded, NothingUnlaunched, OneBatchOpen, NoneBeforeBatch, OneBatchLands,
      Held

LEMMA OpenFinite ==
  /\ \A w \in Workflows : IsFiniteSet(Open(w)) /\ Cardinality(Open(w)) \in Nat
  /\ \A w \in Workflows : IsFiniteSet(Open(w)') /\ Cardinality(Open(w)') \in Nat
<1>1. \A w \in Workflows : Open(w) \in SUBSET Pairs /\ Open(w)' \in SUBSET Pairs
  BY DEF Open
<1>. QED
  BY <1>1, SubsetsFinite

\* Only a new batch opens calls, and it opens no more than itself.
LEMMA OpenChanges ==
  ASSUME LoneInv, Effect, NEW v \in Workflows
  PROVE  \/ Open(v)' \subseteq Open(v)
         \/ \E batch \in SUBSET todo[v] : Dispatches(v, batch) /\ Open(v)' \subseteq batch
<1>. USE DEF LoneInv, Open
<1>1. Recorded \subseteq Recorded' /\ Pairs \subseteq Slot
  <2>1. UNCHANGED results \/ \E w \in Workflows, p \in Pairs : Lands(w, p)
    BY DEF Effect, Starts, BacksUp, Dispatches, Leaves, Retries, Judges, Outside, counts
  <2>. QED
    BY <2>1, RecordedAs DEF Lands, Slot
<1>2. ASSUME NEW w \in Workflows, Starts(w) \/ BacksUp(w)
      PROVE  Open(v)' \subseteq Open(v)
  BY <1>1, <1>2, PairsAssumption DEF Starts, BacksUp, Becomes
<1>3. ASSUME NEW w \in Workflows, NEW batch \in SUBSET todo[w], Dispatches(w, batch)
      PROVE  \/ Open(v)' \subseteq Open(v)
             \/ v = w /\ Open(v)' \subseteq batch
  <2>1. \A q \in Pairs : step'[<<v, q>>] = IF v = w /\ q \in batch THEN FirstCall
                                           ELSE step[<<v, q>>]
    BY <1>1, <1>3 DEF Dispatches
  <2>2. v = w => \A q \in Pairs : step[<<v, q>>].at # "call"
    BY <1>3 DEF Dispatches, OneWorkflow
  <2>. QED
    BY <1>1, <2>1, <2>2
<1>4. ASSUME NEW w \in Workflows, NEW at \in {"idle", "loop", "held"}, Leaves(w, at)
      PROVE  Open(v)' \subseteq Open(v)
  BY <1>1, <1>4 DEF Leaves, Clears
<1>5. ASSUME NEW w \in Workflows, NEW p \in Pairs, Lands(w, p)
      PROVE  Open(v)' \subseteq Open(v)
  BY <1>1, <1>5 DEF Lands, Becomes
<1>6. ASSUME NEW w \in Workflows, NEW p \in Pairs, Retries(w, p)
      PROVE  Open(v)' \subseteq Open(v)
  <2>1. PICK s : Becomes(w, p, s)
    BY <1>6 DEF Retries
  <2>2. p \in Recorded \/ step[<<w, p>>].at = "call"
    <3>1. step[<<w, p>>].at \in Finishing \cup {"call"}
      BY <1>1, <1>6, StepAt DEF Retries, StepState, Finishing
    <3>. QED
      BY <3>1 DEF OfThePlan
  <2>3. \A q \in Pairs : ~(v = w /\ q = p) => step'[<<v, q>>] = step[<<v, q>>]
    BY <1>1, <2>1 DEF Becomes
  <2>. QED
    BY <1>1, <2>2, <2>3
<1>7. ASSUME NEW w \in Workflows, NEW x \in Slot, Judges(w, x)
      PROVE  Open(v)' \subseteq Open(v)
  BY <1>1, <1>7 DEF Judges, Becomes
<1>8. Outside => Open(v)' \subseteq Open(v)
  BY <1>1 DEF Outside
<1>. QED
  BY <1>2, <1>3, <1>4, <1>5, <1>6, <1>7, <1>8 DEF Effect

\* A row that lands under a hold takes one of the calls that were open.
LEMMA LandsUnderHold ==
  ASSUME LoneInv, HoldInv, Held, NEW w \in Workflows, NEW p \in Pairs, Lands(w, p)
  PROVE  landed' + Cardinality(Open(w)') <= BatchSize
<1>. USE DEF LoneInv
<1>1. /\ Cardinality(Open(w)) \in Nat /\ Cardinality(Open(w)') \in Nat
      /\ IsFiniteSet(Open(w)) /\ IsFiniteSet(Open(w)')
      /\ landed \in Nat /\ BatchSize \in Nat
  BY OpenFinite, BoundsAssumption DEF TypeOK
<1>2. landed + Cardinality(Open(w)) <= BatchSize
  BY DEF Lands, OneWorkflow, HoldInv, OneBatchLands
<1>3. step[<<w, p>>].at = "call" /\ step'[<<w, p>>].at # "call" /\ p \in Recorded'
  BY RecordedAs DEF Lands, Becomes, Slot
<1>4. \A q \in Pairs : q # p => step'[<<w, q>>] = step[<<w, q>>]
  BY DEF Lands, Becomes, Slot
<1>5. Recorded' = Recorded \cup {p}
  BY RecordedAs DEF Lands
<1>6. Open(w)' = Open(w) \ {p}
  BY <1>3, <1>4, <1>5 DEF Open
<1>7. CASE p \notin Recorded
  <2>1. p \in Open(w)
    BY <1>3, <1>7 DEF Open
  <2>2. Cardinality(Open(w)') = Cardinality(Open(w)) - 1
    BY <1>1, <1>6, <2>1, FS_RemoveElement
  <2>3. landed' = Smaller(landed, BatchSize) + 1
    BY <1>7 DEF Lands, RecordAuditResult, Recorded, Held
  <2>. QED
    BY <1>1, <1>2, <2>2, <2>3 DEF Smaller
<1>8. CASE p \in Recorded
  <2>1. landed' = landed
    BY <1>8 DEF Lands, RecordAuditResult, Recorded
  <2>2. Cardinality(Open(w)') <= Cardinality(Open(w))
    BY <1>1, <1>6, FS_Subset
  <2>. QED
    BY <1>1, <1>2, <2>1, <2>2
<1>. QED
  BY <1>7, <1>8

\* Either the hold is new, and nothing has landed under it, or it was there before, and
\* a row lands or none does.
LEMMA HeldBefore ==
  ASSUME LoneInv, Effect, Held'
  PROVE  \/ landed' = 0 /\ Outside
         \/ Held /\ status' = status /\ landed' = landed
         \/ /\ Held /\ status' = status
            /\ \E w \in Workflows, p \in Pairs : Lands(w, p)
<1>1. ASSUME NEW w \in Workflows, NEW x \in Slot, Judges(w, x)
      PROVE  status' = status /\ landed' = landed
  BY <1>1 DEF Judges, Held, LoneInv, OfThePlan
<1>2. Outside => (landed' = 0 /\ Outside) \/ (status' = status /\ landed' = landed)
  BY DEF Outside, Held
<1>. QED
  BY <1>1, <1>2 DEF Effect, Held, Starts, BacksUp, Dispatches, Leaves, Lands, Retries

LEMMA HoldStep ==
  ASSUME LoneInv, HoldInv, Effect
  PROVE  HoldInv'
<1>. USE DEF LoneInv, HoldInv
<1>0. landed \in Nat /\ BatchSize \in Nat
  BY BoundsAssumption DEF TypeOK
<1>1. OneBatchOpen'
  <2>. SUFFICES ASSUME NEW v \in Workflows
                PROVE  Cardinality(Open(v)') <= BatchSize
    BY DEF OneBatchOpen
  <2>1. CASE Open(v)' \subseteq Open(v)
    <3>1. Cardinality(Open(v)') <= Cardinality(Open(v))
      BY <2>1, OpenFinite, FS_Subset
    <3>. QED
      BY <1>0, <3>1, OpenFinite DEF OneBatchOpen
  <2>2. ASSUME NEW batch \in SUBSET todo[v], Dispatches(v, batch), Open(v)' \subseteq batch
        PROVE  Cardinality(Open(v)') <= BatchSize
    <3>1. IsFiniteSet(batch) /\ Cardinality(batch) \in Nat
      BY SubsetsFinite DEF TypeOK
    <3>2. Cardinality(Open(v)') <= Cardinality(batch)
      BY <2>2, <3>1, FS_Subset
    <3>. QED
      BY <1>0, <2>2, <3>1, <3>2, OpenFinite DEF Dispatches
  <2>. QED
    BY <2>1, <2>2, OpenChanges
<1>2. NothingUnlaunched'
  <2>1. ASSUME NEW w \in Workflows, NEW p \in Pairs, Lands(w, p)
        PROVE  launched'
    BY <2>1 DEF Lands, OneWorkflow, Alive
  <2>2. (\E w \in Workflows, p \in Pairs : Lands(w, p)) \/ landed' \in {landed, 0}
    BY DEF Effect, Starts, BacksUp, Dispatches, Leaves, Retries, Judges, Outside
  <2>3. ~launched' => ~launched
    BY <2>1 DEF Effect, Starts, BacksUp, Dispatches, Leaves, Lands, Retries, Judges, Outside
  <2>. QED
    BY <2>1, <2>2, <2>3 DEF NothingUnlaunched
<1>3. ASSUME Held'
      PROVE  /\ landed' <= BatchSize
             /\ \A v \in Workflows : phase'[v] \in {"loop", "backstop"} => landed' = 0
             /\ \A v \in Workflows :
                  phase'[v] = "batch" => landed' + Cardinality(Open(v)') <= BatchSize
  <2>1. CASE landed' = 0
    BY <1>0, <1>1, <2>1, OpenFinite DEF OneBatchOpen
  <2>2. ASSUME Held, status' = status, landed' = landed, ~(landed' = 0)
        PROVE  /\ landed' <= BatchSize
               /\ \A v \in Workflows : phase'[v] \notin {"loop", "backstop"}
               /\ \A v \in Workflows :
                    phase'[v] = "batch" => landed' + Cardinality(Open(v)') <= BatchSize
    <3>1. landed' <= BatchSize
      BY <2>2 DEF HoldIsBounded, Held
    <3>2. status # "running" /\ launched
      BY <2>2 DEF Held, NothingUnlaunched
    <3>3. \A v \in Workflows : phase[v] \notin {"loop", "backstop"}
      BY <2>2 DEF NoneBeforeBatch
    <3>4. \A v \in Workflows : phase'[v] = phase[v] \/ phase'[v] \in {"idle", "held"}
      BY <3>2, <3>3 DEF Effect, Starts, BacksUp, Dispatches, Leaves, Lands, Retries, Judges,
                        Outside, Turns
    <3>5. ASSUME NEW v \in Workflows, phase'[v] = "batch"
          PROVE  landed' + Cardinality(Open(v)') <= BatchSize
      <4>1. phase[v] = "batch"
        BY <3>4, <3>5
      <4>2. Open(v)' \subseteq Open(v)
        BY <4>1, OpenChanges DEF Dispatches
      <4>3. Cardinality(Open(v)') <= Cardinality(Open(v))
        BY <4>2, OpenFinite, FS_Subset
      <4>. QED
        BY <1>0, <2>2, <4>1, <4>3, OpenFinite DEF OneBatchLands
    <3>. QED
      BY <3>1, <3>3, <3>4, <3>5
  <2>3. ASSUME Held, NEW w \in Workflows, NEW p \in Pairs, Lands(w, p)
        PROVE  /\ landed' <= BatchSize
               /\ \A v \in Workflows : phase'[v] \notin {"loop", "backstop"}
               /\ \A v \in Workflows :
                    phase'[v] = "batch" => landed' + Cardinality(Open(v)') <= BatchSize
    <3>1. landed' + Cardinality(Open(w)') <= BatchSize
      BY <2>3, LandsUnderHold
    <3>2. landed' \in Nat
      BY <1>0, <2>3 DEF Lands, RecordAuditResult, Smaller
    <3>3. phase' = phase /\ phase[w] = "batch"
      BY <2>3 DEF Lands, OneWorkflow
    <3>4. \A v \in Workflows : v # w => phase[v] = "idle"
      BY <3>3 DEF OneWorkflow, Alive
    <3>. QED
      BY <1>0, <3>1, <3>2, <3>3, <3>4, OpenFinite
  <2>. QED
    BY <1>3, <2>1, <2>2, <2>3, HeldBefore
<1>. QED
  BY <1>1, <1>2, <1>3 DEF HoldIsBounded, NoneBeforeBatch, OneBatchLands, Held

\* Pausing and stopping take effect: at most one batch of rows lands after a hold.
THEOREM HoldsTakeEffect ==
  ASSUME CronEnabled = FALSE
  PROVE  Spec => []HoldIsBounded
<1>1. LoneInv /\ HoldInv /\ [Next]_vars => HoldInv'
  BY LoneEffects, HoldStep
<1>2. HoldInv => HoldIsBounded
  BY DEF HoldInv
<1>. QED
  BY <1>1, <1>2, HoldInit, LoneAlways, PTL DEF Spec

=============================================================================
