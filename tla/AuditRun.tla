------------------------------- MODULE AuditRun -------------------------------
(***************************************************************************)
(* One audit run of one site: the AuditRun row, the AuditResult rows it     *)
(* collects, the workflows that measure its (page, strategy) pairs, the     *)
(* cron tick that reconciles open runs, and the people who pause, resume    *)
(* and stop it.                                                             *)
(*                                                                         *)
(* Every database call is atomic and nothing else is: an operation that     *)
(* reads the row and writes it later is two actions, with what was read     *)
(* kept in the process that read it.  The one transaction of the code       *)
(* (recordAuditResult) is one action.                                       *)
(***************************************************************************)
EXTENDS Naturals, FiniteSets

CONSTANTS
  Pairs,             \* the (page, strategy) pairs of the site
  Workflows,         \* slots for workflow instances alive at the same time
  Backstop,          \* the step of a workflow that is no pair: reconcileIfNeededStep
  Users,             \* people who may pause, resume and stop the run
  Kinds,             \* the scope kinds the run may have been created with
  Churn,             \* pairs whose page an ingest may deactivate or reactivate
  BatchSize,         \* WORKER_CONCURRENCY
  PSI_MAX_ATTEMPTS,  \* attempts of one step at one pair
  CronEnabled,       \* whether anything calls the schedule-tick endpoint
  MayBeOverdue,      \* whether a run may outlive STALE_RUN_HOURS here
  MaxCrashes,        \* bound: crashes of an invocation
  MaxRejects,        \* bound: steps given up by the workflow runtime
  NoticeCap          \* bound: notices are counted up to here

ASSUME PairsAssumption == IsFiniteSet(Pairs) /\ Backstop \notin Pairs
ASSUME KindsAssumption == Kinds \subseteq {"site", "pages", "retry"}
ASSUME ChurnAssumption == Churn \subseteq Pairs
ASSUME BoundsAssumption ==
  /\ BatchSize \in Nat \ {0}
  /\ PSI_MAX_ATTEMPTS \in Nat \ {0}
  /\ CronEnabled \in BOOLEAN /\ MayBeOverdue \in BOOLEAN
  /\ MaxCrashes \in Nat
  /\ MaxRejects \in Nat
  /\ NoticeCap \in Nat

VARIABLES
  kind,           \* the kind of scope in scopeLabel
  plan,           \* the pairs the run was created with
  status,         \* AuditRun.status
  totalJobs,      \* AuditRun.totalJobs
  completedJobs,  \* AuditRun.completedJobs
  failedJobs,     \* AuditRun.failedJobs
  results,        \* the AuditResult row of each pair, "none" before it exists
  live,           \* the pairs whose page is active
  launched,       \* whether the creator's startAuditRun happened or was lost
  phase,          \* where each workflow is in auditRunWorkflow
  todo,           \* the pairs each workflow has not yet put in a batch
  step,           \* where each step of each workflow is
  tick,           \* the cron invocation: where it is and what it read
  overdue,        \* STALE_RUN_HOURS have passed since the run started
  intent,         \* the control each user has read the row for: "done" once written
  notices,        \* sweep notifications sent, counted up to NoticeCap
  landed,         \* rows written since the run was last paused or stopped
  crashes,        \* crashes so far
  rejects         \* rejected steps so far

row == <<status, totalJobs, completedJobs, failedJobs>>
wf == <<phase, todo, step>>
made == <<kind, plan, launched>>
env == <<live, overdue, notices, landed, crashes, rejects>>
vars == <<kind, plan, status, totalJobs, completedJobs, failedJobs, results, live,
          launched, phase, todo, step, tick, overdue, intent, notices, landed, crashes,
          rejects>>

-----------------------------------------------------------------------------
(* The values. *)

Terminal == {"completed", "failed", "skipped", "cancelled"}
Status == {"running", "paused"} \cup Terminal
Outcome == {"none", "ok", "error"}
Slot == Pairs \cup {Backstop}

\* A step; one that is past reading the row holds the verdict it came to.
StepState ==
  {s \in [at : {"idle", "call", "fin", "finwrite", "notify", "settled"},
          tries : 1..PSI_MAX_ATTEMPTS,
          saw : Status \cup {"none"}] :
     s.at \in {"finwrite", "notify"} => s.saw # "none"}

TickState ==
  [at : {"idle", "bury", "expand", "count", "write", "dispatch"},
   scope : SUBSET Pairs, seen : SUBSET Pairs, bad : SUBSET Pairs]

IdleStep == [at |-> "idle", tries |-> 1, saw |-> "none"]
FirstCall == [at |-> "call", tries |-> 1, saw |-> "none"]
SettledStep == [at |-> "settled", tries |-> 1, saw |-> "none"]
IdleTick == [at |-> "idle", scope |-> {}, seen |-> {}, bad |-> {}]

Recorded == {p \in Pairs : results[p] # "none"}
Errors == {p \in Pairs : results[p] = "error"}
Alive(w) == phase[w] # "idle"

Smaller(a, b) == IF a < b THEN a ELSE b
Larger(a, b) == IF a < b THEN b ELSE a

TypeOK ==
  /\ kind \in Kinds
  /\ plan \in SUBSET Pairs
  /\ status \in Status
  /\ totalJobs \in Nat /\ completedJobs \in Nat /\ failedJobs \in Nat
  /\ results \in [Pairs -> Outcome]
  /\ live \in SUBSET Pairs
  /\ launched \in BOOLEAN
  /\ phase \in [Workflows -> {"idle", "loop", "batch", "held", "backstop"}]
  /\ todo \in [Workflows -> SUBSET Pairs]
  /\ step \in [Workflows \X Slot -> StepState]
  /\ tick \in TickState
  /\ overdue \in BOOLEAN
  /\ intent \in [Users -> {"none", "pause", "resume", "stop", "done"}]
  /\ notices \in 0..NoticeCap /\ landed \in 0..(BatchSize + 1)
  /\ crashes \in 0..MaxCrashes /\ rejects \in 0..MaxRejects

-----------------------------------------------------------------------------
(* Creation: createRun has committed the row; startAuditRun comes next.     *)
(* A site or group scope covers the active pages, a retry some of them (the *)
(* ones another run could not measure), a hand-picked scope any page.       *)

Init ==
  /\ kind \in Kinds
  /\ live \in SUBSET Pairs
  /\ Pairs \ Churn \subseteq live
  /\ plan \in (SUBSET Pairs) \ {{}}
  /\ kind = "site" => plan = live
  /\ kind = "retry" => plan \subseteq live
  /\ status = "running"
  /\ totalJobs = Cardinality(plan)
  /\ completedJobs = 0
  /\ failedJobs = 0
  /\ results = [p \in Pairs |-> "none"]
  /\ launched = FALSE
  /\ phase = [w \in Workflows |-> "idle"]
  /\ todo = [w \in Workflows |-> {}]
  /\ step = [wx \in Workflows \X Slot |-> IdleStep]
  /\ tick = IdleTick
  /\ overdue = FALSE
  /\ intent = [u \in Users |-> "none"]
  /\ notices = 0
  /\ landed = 0
  /\ crashes = 0
  /\ rejects = 0

StartWorkflow(w, pairs) ==
  /\ ~Alive(w)
  /\ phase' = [phase EXCEPT ![w] = "loop"]
  /\ todo' = [todo EXCEPT ![w] = pairs]
  /\ UNCHANGED step

\* The creator starts the workflow of the run it has just created.
Launch(w) ==
  /\ ~launched
  /\ launched' = TRUE
  /\ StartWorkflow(w, plan)
  /\ UNCHANGED <<kind, plan, row, results, tick, intent, env>>

-----------------------------------------------------------------------------
(* auditRunWorkflow. *)

Settled(w) == \A x \in Slot : step[<<w, x>>].at \in {"idle", "settled"}
ClearSteps(w) ==
  step' = [wx \in Workflows \X Slot |-> IF wx[1] = w THEN IdleStep ELSE step[wx]]
GoTo(w, at) == phase' = [phase EXCEPT ![w] = at]

\* The workflow returns: whatever it had not dispatched stays unmeasured.
Return(w) ==
  /\ GoTo(w, "idle")
  /\ todo' = [todo EXCEPT ![w] = {}]
  /\ ClearSteps(w)

StartBatch(w, batch) ==
  /\ phase[w] = "loop"
  /\ batch # {}
  /\ batch \subseteq todo[w]
  /\ Cardinality(batch) = Smaller(BatchSize, Cardinality(todo[w]))
  /\ GoTo(w, "batch")
  /\ todo' = [todo EXCEPT ![w] = @ \ batch]
  /\ step' = [wx \in Workflows \X Slot |->
                IF wx[1] = w /\ wx[2] \in batch THEN FirstCall ELSE step[wx]]
  /\ UNCHANGED <<made, row, results, tick, intent, env>>

\* Variant: a pause is not looked at.
CheckIgnoringPause(w) ==
  /\ phase[w] = "batch"
  /\ Settled(w)
  /\ IF status \in {"running", "paused"}
     THEN GoTo(w, "loop") /\ ClearSteps(w) /\ UNCHANGED todo
     ELSE Return(w)
  /\ UNCHANGED <<made, row, results, tick, intent, env>>

\* allSettled has returned; the workflow reads the status once, and decides.
CheckStatus(w) ==
  /\ phase[w] = "batch"
  /\ Settled(w)
  /\ \/ /\ status = "running"
        /\ GoTo(w, "loop") /\ ClearSteps(w) /\ UNCHANGED todo
     \/ /\ status = "paused"
        /\ GoTo(w, "held") /\ ClearSteps(w) /\ UNCHANGED todo
     \/ /\ status \notin {"running", "paused"}
        /\ Return(w)
  /\ UNCHANGED <<made, row, results, tick, intent, env>>

\* The 20-second poll of a held workflow that finds the run no longer paused.
PollHeld(w) ==
  /\ phase[w] = "held"
  /\ \/ /\ status = "running"
        /\ GoTo(w, "loop") /\ UNCHANGED <<todo, step>>
     \/ /\ status \notin {"running", "paused"}
        /\ Return(w)
  /\ UNCHANGED <<made, row, results, tick, intent, env>>

\* Variant: the backstop finalizes whatever the status.
ReconcileUnconditionally(w) ==
  /\ phase[w] = "loop"
  /\ todo[w] = {}
  /\ GoTo(w, "backstop")
  /\ step' = [step EXCEPT ![<<w, Backstop>>].at = "fin"]
  /\ UNCHANGED <<made, row, results, todo, tick, intent, env>>

\* After the last batch: finalize only what is still open.
ReconcileIfNeeded(w) ==
  /\ phase[w] = "loop"
  /\ todo[w] = {}
  /\ \/ /\ status = "running"
        /\ GoTo(w, "backstop")
        /\ step' = [step EXCEPT ![<<w, Backstop>>].at = "fin"]
        /\ UNCHANGED todo
     \/ /\ status # "running"
        /\ Return(w)
  /\ UNCHANGED <<made, row, results, tick, intent, env>>

BackstopDone(w) ==
  /\ phase[w] = "backstop"
  /\ step[<<w, Backstop>>].at = "settled"
  /\ Return(w)
  /\ UNCHANGED <<made, row, results, tick, intent, env>>

-----------------------------------------------------------------------------
(* auditOnePageStep, auditPage and recordAuditResult.                       *)

\* Variant: ready one pair too early.
ReadyOneEarly(completed, total) == total > 0 /\ completed + 1 >= total

shouldFinalize(completed, total) == total > 0 /\ completed >= total

\* Variant: without the unique key a replay counts its pair again.
RecordWithoutUniqueKey(p, outcome) ==
  /\ results' = [results EXCEPT ![p] = IF @ = "none" THEN outcome ELSE @]
  /\ completedJobs' = completedJobs + 1
  /\ failedJobs' = IF outcome = "error" THEN failedJobs + 1 ELSE failedJobs
  /\ UNCHANGED landed

\* Variant: an upsert, so that a replay replaces the row it finds.
RecordByUpsert(p, outcome) ==
  /\ results' = [results EXCEPT ![p] = outcome]
  /\ completedJobs' = IF results[p] = "none" THEN completedJobs + 1 ELSE completedJobs
  /\ UNCHANGED <<failedJobs, landed>>

\* The transaction: row and counters together, or neither when the unique key
\* (run, page, strategy) says the pair is already recorded.
RecordAuditResult(p, outcome) ==
  \/ /\ results[p] = "none"
     /\ results' = [results EXCEPT ![p] = outcome]
     /\ completedJobs' = completedJobs + 1
     /\ failedJobs' = IF outcome = "error" THEN failedJobs + 1 ELSE failedJobs
     /\ landed' = IF status \in {"paused", "cancelled"} THEN Smaller(landed, BatchSize) + 1
                 ELSE landed
  \/ /\ results[p] # "none"
     /\ UNCHANGED <<results, completedJobs, failedJobs, landed>>

ReadyToFinalize(p) == results[p] = "none" /\ shouldFinalize(completedJobs + 1, totalJobs)

Settle(w, x) == step' = [step EXCEPT ![<<w, x>>] = SettledStep]

\* What a step does after its write: finalize if the counter says so, or return.
AfterRecord(w, p) ==
  \/ /\ ReadyToFinalize(p)
     /\ step' = [step EXCEPT ![<<w, p>>].at = "fin"]
  \/ /\ ~ReadyToFinalize(p)
     /\ Settle(w, p)

\* One attempt that ends in a recorded outcome: scores, a page Lighthouse could
\* not measure, a rejected request, or no API key at all.
Measure(w, p, outcome) ==
  /\ step[<<w, p>>].at = "call"
  /\ RecordAuditResult(p, outcome)
  /\ AfterRecord(w, p)
  /\ UNCHANGED <<made, status, totalJobs, phase, todo, tick, intent, live, overdue,
                 notices, crashes, rejects>>

\* HTTP 403: auditPage records the error row and then throws, the step records
\* it again, and that second write is the one whose readyToFinalize is looked at.
KeyDenied(w, p) ==
  /\ step[<<w, p>>].at = "call"
  /\ RecordAuditResult(p, "error")
  /\ Settle(w, p)
  /\ UNCHANGED <<made, status, totalJobs, phase, todo, tick, intent, live, overdue,
                 notices, crashes, rejects>>

AttemptFails(w, p) ==
  /\ step[<<w, p>>].at = "call"
  /\ step[<<w, p>>].tries < PSI_MAX_ATTEMPTS
  /\ step' = [step EXCEPT ![<<w, p>>].tries = @ + 1]
  /\ UNCHANGED <<made, row, results, phase, todo, tick, intent, env>>

AttemptsExhausted(w, p) ==
  /\ step[<<w, p>>].tries = PSI_MAX_ATTEMPTS
  /\ Measure(w, p, "error")

-----------------------------------------------------------------------------
(* finalizeAndNotify, called by a step or by the backstop. *)

\* Variant: any failed page fails the run.
VerdictOfAnyFailure == IF failedJobs > 0 THEN "failed" ELSE "completed"

\* "failed" only when nothing at all succeeded, by the counters of the row read.
Verdict == IF totalJobs > 0 /\ failedJobs >= totalJobs THEN "failed" ELSE "completed"

\* Variant: the row is read, but the verdict is not computed before the write.
ReadWithoutVerdict(w, x) ==
  /\ step[<<w, x>>].at = "fin"
  /\ step' = [step EXCEPT ![<<w, x>>].at = IF status \in Terminal THEN "notify" ELSE "finwrite"]
  /\ UNCHANGED <<made, row, results, phase, todo, tick, intent, env>>

FinalizeRead(w, x) ==
  /\ step[<<w, x>>].at = "fin"
  /\ \/ /\ status \in Terminal
        /\ step' = [step EXCEPT ![<<w, x>>].at = "notify", ![<<w, x>>].saw = status]
     \/ /\ status \notin Terminal
        /\ step' = [step EXCEPT ![<<w, x>>].at = "finwrite", ![<<w, x>>].saw = Verdict]
  /\ UNCHANGED <<made, row, results, phase, todo, tick, intent, env>>

\* The update names the run and nothing else: it does not re-check the status.
FinalizeWrite(w, x) ==
  /\ step[<<w, x>>].at = "finwrite"
  /\ status' = step[<<w, x>>].saw
  /\ step' = [step EXCEPT ![<<w, x>>].at = "notify"]
  /\ UNCHANGED <<made, totalJobs, completedJobs, failedJobs, results, phase, todo,
                 tick, intent, env>>

\* A sweep's notice is sent for the status finalizeRun returned, whoever set it.
Notify(w, x) ==
  /\ step[<<w, x>>].at = "notify"
  /\ notices' = IF /\ kind = "site"
                   /\ step[<<w, x>>].saw \in {"completed", "failed"}
                   /\ notices < NoticeCap
                THEN notices + 1 ELSE notices
  /\ Settle(w, x)
  /\ UNCHANGED <<made, row, results, phase, todo, tick, intent, live, overdue,
                 landed, crashes, rejects>>

-----------------------------------------------------------------------------
(* reconcileStaleRuns and resumeRun, once per cron tick; ticks do not        *)
(* overlap.                                                                  *)

TickOpen ==
  /\ CronEnabled
  /\ tick.at = "idle"
  /\ status = "running"
  /\ tick' = [IdleTick EXCEPT !.at = IF overdue THEN "bury" ELSE "expand"]
  /\ UNCHANGED <<made, row, results, wf, intent, env>>

\* Variant: failRun updates the run by its id alone.
BuryUnconditionally ==
  /\ tick.at = "bury"
  /\ status' = "failed"
  /\ tick' = IdleTick
  /\ UNCHANGED <<made, totalJobs, completedJobs, failedJobs, results, wf, intent, env>>

\* failRun: conditional on the run still being open.
TickBury ==
  /\ tick.at = "bury"
  /\ status' = IF status = "running" THEN "failed" ELSE status
  /\ tick' = IdleTick
  /\ UNCHANGED <<made, totalJobs, completedJobs, failedJobs, results, wf, intent, env>>

\* parseScopeLabel knows no retry label and falls back to the whole site; a
\* hand-picked scope is not filtered by isActive.
ExpandedScope == IF kind = "pages" THEN plan ELSE live

TickExpand ==
  /\ tick.at = "expand"
  /\ tick' = [tick EXCEPT !.at = "count", !.scope = ExpandedScope]
  /\ UNCHANGED <<made, row, results, wf, intent, env>>

TickCount ==
  /\ tick.at = "count"
  /\ tick' = [tick EXCEPT !.at = "write", !.seen = Recorded, !.bad = Errors]
  /\ UNCHANGED <<made, row, results, wf, intent, env>>

RefuseGrowth ==
  /\ tick.at = "write"
  /\ Cardinality(tick.scope) > totalJobs
  /\ status' = "failed"
  /\ tick' = IdleTick
  /\ UNCHANGED <<made, totalJobs, completedJobs, failedJobs, results, wf, intent, env>>

\* Variant: the total follows the recount in both directions.
ResumeWithoutMin ==
  /\ tick.at = "write"
  /\ Cardinality(tick.scope) <= totalJobs
  /\ status' = "running"
  /\ completedJobs' = Cardinality(tick.seen)
  /\ failedJobs' = Cardinality(tick.bad)
  /\ totalJobs' = Larger(Cardinality(tick.scope), Cardinality(tick.seen))
  /\ tick' = [tick EXCEPT !.at = "dispatch"]
  /\ UNCHANGED <<made, results, wf, intent, env>>

\* The counters are set, not incremented, from rows counted earlier.
ResumeWrite ==
  /\ tick.at = "write"
  /\ Cardinality(tick.scope) <= totalJobs
  /\ status' = "running"
  /\ completedJobs' = Cardinality(tick.seen)
  /\ failedJobs' = Cardinality(tick.bad)
  /\ totalJobs' = Smaller(totalJobs,
                          Larger(Cardinality(tick.scope), Cardinality(tick.seen)))
  /\ tick' = [tick EXCEPT !.at = "dispatch"]
  /\ UNCHANGED <<made, results, wf, intent, env>>

diffMissingPairs(expected, existing) == expected \ existing

\* Variant: a resume that finds nothing missing starts nothing.
DispatchOnlyWork(w) ==
  /\ tick.at = "dispatch"
  /\ IF diffMissingPairs(tick.scope, tick.seen) = {}
     THEN UNCHANGED wf
     ELSE StartWorkflow(w, diffMissingPairs(tick.scope, tick.seen))
  /\ tick' = IdleTick
  /\ UNCHANGED <<made, row, results, intent, env>>

\* The workflow is started even when nothing is missing: its backstop finalizes.
ResumeDispatch(w) ==
  /\ tick.at = "dispatch"
  /\ StartWorkflow(w, diffMissingPairs(tick.scope, tick.seen))
  /\ tick' = IdleTick
  /\ UNCHANGED <<made, row, results, intent, env>>

-----------------------------------------------------------------------------
(* controlRun: the guard is on the status read, the write comes later.       *)

Allowed(action) ==
  \/ action = "pause" /\ status = "running"
  \/ action = "resume" /\ status = "paused"
  \/ action = "stop" /\ status \in {"running", "paused"}

Decided(u) == intent[u] \in {"pause", "resume", "stop"}

ControlRead(u, action) ==
  /\ ~Decided(u)
  /\ Allowed(action)
  /\ intent' = [intent EXCEPT ![u] = action]
  /\ UNCHANGED <<made, row, results, wf, tick, env>>

StatusOf(action) ==
  IF action = "pause" THEN "paused" ELSE IF action = "resume" THEN "running" ELSE "cancelled"

ControlWrite(u) ==
  /\ Decided(u)
  /\ status' = StatusOf(intent[u])
  /\ intent' = [intent EXCEPT ![u] = "done"]
  /\ landed' = IF intent[u] = "resume" THEN landed ELSE 0
  /\ UNCHANGED <<made, totalJobs, completedJobs, failedJobs, results, wf, tick, live,
                 overdue, notices, crashes, rejects>>

-----------------------------------------------------------------------------
(* The surroundings: an ingest, the clock, and crashes. *)

\* An ingest drops the page of p from the sitemap's active set, or brings it back.
IngestFlips(p) ==
  /\ live' = IF p \in live THEN live \ {p} ELSE live \cup {p}
  /\ UNCHANGED <<made, row, results, wf, tick, intent, overdue, notices, landed, crashes, rejects>>

BecomeOverdue ==
  /\ MayBeOverdue
  /\ ~overdue
  /\ overdue' = TRUE
  /\ UNCHANGED <<made, row, results, wf, tick, intent, live, notices, landed, crashes, rejects>>

Crash == crashes < MaxCrashes /\ crashes' = crashes + 1

\* The creator dies between createRun and startAuditRun.
LaunchLost ==
  /\ Crash
  /\ ~launched
  /\ launched' = TRUE
  /\ UNCHANGED <<kind, plan, row, results, wf, tick, intent, live, overdue, notices, landed, rejects>>

\* The invocation of a step dies anywhere; the runtime delivers the step again.
StepDies(w, p) ==
  /\ Crash
  /\ step[<<w, p>>].at \notin {"idle", "settled"}
  /\ step' = [step EXCEPT ![<<w, p>>] = FirstCall]
  /\ UNCHANGED <<made, row, results, phase, todo, tick, intent, live, overdue, notices, landed, rejects>>

BackstopDies(w) ==
  /\ Crash
  /\ phase[w] = "backstop"
  /\ GoTo(w, "loop")
  /\ ClearSteps(w)
  /\ UNCHANGED <<made, row, results, todo, tick, intent, live, overdue, notices, landed, rejects>>

\* finalizeAndNotify throws inside the step's try block: one more attempt, or, after
\* the last, a record that finds its row and returns without finalizing.
FinalizeThrows(w, p) ==
  /\ Crash
  /\ step[<<w, p>>].at \in {"fin", "finwrite", "notify"}
  /\ \/ /\ step[<<w, p>>].tries < PSI_MAX_ATTEMPTS
        /\ step' = [step EXCEPT ![<<w, p>>] =
                      [FirstCall EXCEPT !.tries = step[<<w, p>>].tries + 1]]
     \/ /\ step[<<w, p>>].tries = PSI_MAX_ATTEMPTS
        /\ Settle(w, p)
  /\ UNCHANGED <<made, row, results, phase, todo, tick, intent, live, overdue, notices, landed, rejects>>

WorkflowDies(w) ==
  /\ Crash
  /\ Alive(w)
  /\ Return(w)
  /\ UNCHANGED <<made, row, results, tick, intent, live, overdue, notices, landed, rejects>>

TickDies ==
  /\ Crash
  /\ tick.at # "idle"
  /\ tick' = IdleTick
  /\ UNCHANGED <<made, row, results, wf, intent, live, overdue, notices, landed, rejects>>

\* A step that keeps throwing outside its own error handling (no tenant
\* database, a failed write in the catch block) is rejected; allSettled goes on.
StepRejected(w, p) ==
  /\ rejects < MaxRejects
  /\ rejects' = rejects + 1
  /\ step[<<w, p>>].at = "call"
  /\ Settle(w, p)
  /\ UNCHANGED <<made, row, results, phase, todo, tick, intent, live, overdue, notices, landed, crashes>>

-----------------------------------------------------------------------------

StepMoves(w, p) ==
  \/ Measure(w, p, "ok")
  \/ Measure(w, p, "error")
  \/ KeyDenied(w, p)
  \/ AttemptFails(w, p)
  \/ AttemptsExhausted(w, p)

Finalizes(w, x) ==
  \/ FinalizeRead(w, x)
  \/ FinalizeWrite(w, x)
  \/ Notify(w, x)

WorkflowMoves(w) ==
  \/ \E batch \in SUBSET todo[w] : StartBatch(w, batch)
  \/ CheckStatus(w)
  \/ PollHeld(w)
  \/ ReconcileIfNeeded(w)
  \/ BackstopDone(w)

TickMoves ==
  \/ TickOpen
  \/ TickBury
  \/ TickExpand
  \/ TickCount
  \/ RefuseGrowth
  \/ ResumeWrite
  \/ \E w \in Workflows : ResumeDispatch(w)

Faults ==
  \/ LaunchLost
  \/ TickDies
  \/ \E w \in Workflows : BackstopDies(w) \/ WorkflowDies(w)
  \/ \E w \in Workflows, p \in Pairs :
       StepDies(w, p) \/ FinalizeThrows(w, p) \/ StepRejected(w, p)

Next ==
  \/ \E w \in Workflows : Launch(w)
  \/ \E w \in Workflows : WorkflowMoves(w)
  \/ \E w \in Workflows, p \in Pairs : StepMoves(w, p)
  \/ \E w \in Workflows, x \in Slot : Finalizes(w, x)
  \/ TickMoves
  \/ \E u \in Users, action \in {"pause", "resume", "stop"} : ControlRead(u, action)
  \/ \E u \in Users : ControlWrite(u)
  \/ \E p \in Churn : IngestFlips(p)
  \/ BecomeOverdue
  \/ Faults

Spec == Init /\ [][Next]_vars

(***************************************************************************)
(* The runtime keeps running what it was given: a workflow, its steps and a *)
(* cron tick all make progress.  Users, ingests, the clock and crashes are  *)
(* never obliged to happen.                                                 *)
(***************************************************************************)
Fairness ==
  /\ WF_vars(\E w \in Workflows : Launch(w))
  /\ \A w \in Workflows : WF_vars(WorkflowMoves(w))
  /\ \A w \in Workflows, p \in Pairs : WF_vars(StepMoves(w, p))
  /\ \A w \in Workflows, x \in Slot : WF_vars(Finalizes(w, x))
  /\ WF_vars(TickMoves)

FairSpec == Spec /\ Fairness

-----------------------------------------------------------------------------
(* What the run row promises, at every instant. *)

\* The counters never claim more pairs than have a row, whatever a resume does to
\* them meanwhile (recordAuditResult's transaction, resumeRun's recount).
NeverOvercounts ==
  /\ completedJobs <= Cardinality(Recorded)
  /\ failedJobs <= Cardinality(Errors)

\* As long as no tick rewrites them, the counters are the rows: a replayed step
\* neither adds nor loses one (audit.service.ts, invariant 2).
CountersMatchRows ==
  /\ completedJobs = Cardinality(Recorded)
  /\ failedJobs = Cardinality(Errors)

\* A closed run has measured every pair it was created with, except those whose
\* step the runtime gave up: replays, retries and holds lose none (finalizeRun).
ClosedMeansMeasured ==
  status \in {"completed", "failed"} => Cardinality(plan \ Recorded) <= rejects

\* "Only a run where nothing at all succeeded is a failure" (finalizeRun).
FailedMeansNothingSucceeded ==
  status = "failed" => \A p \in Pairs : results[p] # "ok"

\* Pausing and stopping take effect: at most one batch of results lands after the
\* hold (docs/DECISIONS.md 9.4: "Up to WORKER_CONCURRENCY more results land").
HoldIsBounded == status \in {"paused", "cancelled"} => landed <= BatchSize

\* A sweep nobody paused, resumed or stopped notifies once, however often its steps are
\* redelivered and its finalization is repeated (finalizeAndNotify).  A control that was
\* decided before the run closed may reopen it, and it then closes and notifies again.
OneNotice == (\A u \in Users : intent[u] = "none") => notices <= 1

(* What a step may never do. *)

\* A run somebody stopped stays stopped (finalizeRun's guard on 'cancelled').
StoppedStaysStopped == [][status = "cancelled" => status' = "cancelled"]_vars

\* A closed run stays closed once nobody is left who read it open: a finalizer
\* about to write, a control about to write, or a tick about to resume it.
NoStaleWriter ==
  /\ \A w \in Workflows, x \in Slot : step[<<w, x>>].at # "finwrite"
  /\ \A u \in Users : ~Decided(u)
  /\ tick.at \in {"idle", "bury"}
ClosedStaysClosed ==
  [][(status \in Terminal /\ NoStaleWriter) => status' = status]_vars

\* A pair is measured for a run once: its row is never replaced, whatever number
\* of workflows, redeliveries and retries measure it again.
RowsAreWrittenOnce ==
  [][\A p \in Pairs : results[p] # "none" => results'[p] = results[p]]_vars

\* Resuming never enlarges the work a run committed to at creation.
NeverGrows == [][totalJobs' <= totalJobs]_vars

\* All of it together: whoever measures and resumes, the row keeps the promise of
\* RunLedger.
Ledger == INSTANCE RunLedger WITH
  recorded <- Recorded, failed <- Errors,
  counted <- completedJobs, failures <- failedJobs, committed <- totalJobs
LedgerSpec == Ledger!Spec

(* What must eventually happen. *)

\* With a cron tick, no crash and no rejected step leaves a run open for ever.
NeverStuckOpen == []<>(status # "running")

=============================================================================
