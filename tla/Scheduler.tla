------------------------------- MODULE Scheduler -------------------------------
(***************************************************************************)
(* How the runs of one site come to be: cron ticks that fire its schedule,  *)
(* people and tools that ask for an audit, the overlap guard between them,  *)
(* and the edits of the schedule meanwhile.  What happens inside a run is   *)
(* the business of AuditRun; here it is running, held or closed.            *)
(***************************************************************************)
EXTENDS Naturals, FiniteSets, Null

CONSTANTS
  Runs,        \* names for open AuditRun rows: nothing here reads a closed one again,
               \* and its name serves another row
  Ticks,       \* concurrent invocations of the schedule-tick route
  Callers,     \* queueAuditAction, retryFailedAction and the two MCP tools
  Crons,       \* cron expressions somebody may save
  MaxSaves,    \* bound: edits of the schedule
  MaxCrashes   \* bound: invocations that die

ASSUME SchedulerAssumption ==
  /\ IsFiniteSet(Ticks)
  /\ Ticks \cap Callers = {}
  /\ None \notin Runs \cup Crons
  /\ Crons # {}
  /\ MaxSaves \in Nat
  /\ MaxCrashes \in Nat

Starters == Ticks \cup Callers

VARIABLES
  run,       \* status of each open AuditRun row
  started,   \* the open runs a workflow was dispatched for
  beside,    \* the runs created between a run's guard and its own creation
  sched,     \* the Schedule row; nextOf is the expression its next firing comes from
  at,        \* where each starter is
  holds,     \* the expression a tick read with the due schedule
  rivals,    \* the runs created since a starter passed the guard
  mine,      \* the run a starter has created
  fired,     \* sweeps planned for the present firing
  together,  \* most ticks that held the present firing at one time
  saves, crashes

schedule == <<sched, fired, together>>
rows == <<run, started, beside>>
work == <<at, holds, rivals, mine>>
budget == <<saves, crashes>>
vars == <<rows, schedule, work, budget>>

TypeOK ==
  /\ run \in [Runs -> {"none", "running", "paused"}]
  /\ started \subseteq Runs
  /\ beside \in [Runs -> SUBSET Runs]
  /\ sched \in [enabled : BOOLEAN, cron : Crons, next : {"none", "later", "due"}, nextOf : Crons]
  /\ sched.enabled => sched.next # "none"
  /\ at \in [Starters -> {"idle", "due?", "advance", "guard", "create", "launch"}]
  /\ holds \in [Starters -> Crons \cup {None}]
  /\ \A t \in Starters : at[t] = "advance" => holds[t] \in Crons
  /\ rivals \in [Starters -> SUBSET Runs]
  /\ mine \in [Starters -> Runs \cup {None}]
  /\ \A c \in Starters : at[c] = "launch" => mine[c] \in Runs
  /\ fired \in Nat /\ together \in Nat
  /\ saves \in 0..MaxSaves /\ crashes \in 0..MaxCrashes

Init ==
  /\ run = [r \in Runs |-> "none"]
  /\ started = {}
  /\ beside = [r \in Runs |-> {}]
  /\ LET c == CHOOSE c \in Crons : TRUE
     IN sched = [enabled |-> TRUE, cron |-> c, next |-> "later", nextOf |-> c]
  /\ at = [s \in Starters |-> "idle"]
  /\ holds = [s \in Starters |-> None]
  /\ rivals = [s \in Starters |-> {}]
  /\ mine = [s \in Starters |-> None]
  /\ fired = 0 /\ together = 0
  /\ saves = 0 /\ crashes = 0

Go(c, place) == at' = [at EXCEPT ![c] = place]
\* An invocation that ends takes what it knew with it.
End(c) ==
  /\ Go(c, "idle")
  /\ holds' = [holds EXCEPT ![c] = None]
  /\ rivals' = [rivals EXCEPT ![c] = {}]
  /\ mine' = [mine EXCEPT ![c] = None]
Free == {r \in Runs : run[r] = "none" /\ \A c \in Starters : mine[c] # r}
\* The name of the next row.
Fresh == CHOOSE r \in Free : TRUE

\* Whom a closed run was beside no longer matters.
Forget(closed) ==
  /\ beside' = [r \in Runs |-> IF r \in closed THEN {} ELSE beside[r] \ closed]
  /\ rivals' = [c \in Starters |-> rivals[c] \ closed]

-----------------------------------------------------------------------------
(* The overlap guard and the creation of a run. *)

\* Variant: a held run does not count.
ActiveUnlessPaused == {r \in Runs : run[r] = "running"}

\* findActiveRun: a held run counts, its jobs are still to come.
Active == {r \in Runs : run[r] \in {"running", "paused"}}

\* An on-demand request, or a tick that fired the schedule, passes the guard.
PassGuard(c) ==
  /\ Active = {}
  /\ Go(c, "create")
  /\ rivals' = [rivals EXCEPT ![c] = {}]
  /\ UNCHANGED <<rows, holds, mine>>

Ask(c) ==
  /\ at[c] = "idle"
  /\ PassGuard(c)
  /\ UNCHANGED <<schedule, budget>>

\* planAndStartSweep after a firing: the guard, or a row that is
\* 'skipped' at birth.
Plan(t) ==
  /\ at[t] = "guard"
  /\ \/ PassGuard(t)
     \/ /\ Active # {}
        /\ End(t)
        /\ UNCHANGED rows
  /\ fired' = fired + 1
  /\ UNCHANGED <<sched, together, budget>>

\* The scope expands to no pair at all.
NothingToAudit(c) ==
  /\ at[c] = "create"
  /\ End(c)
  /\ UNCHANGED <<rows, schedule, budget>>

\* createRun: nothing looks at the other runs again.
CreateRun(c) ==
  /\ at[c] = "create"
  /\ Free # {}
  /\ run' = [run EXCEPT ![Fresh] = "running"]
  /\ beside' = [beside EXCEPT ![Fresh] = rivals[c]]
  /\ rivals' = [d \in Starters |-> IF d = c THEN {}
                                   ELSE IF at[d] = "create" THEN rivals[d] \cup {Fresh} ELSE {}]
  /\ mine' = [mine EXCEPT ![c] = Fresh]
  /\ Go(c, "launch")
  /\ UNCHANGED <<started, holds, schedule, budget>>

\* startAuditRun.
Launch(c) ==
  /\ at[c] = "launch"
  /\ started' = started \cup ({mine[c]} \cap Active)
  /\ End(c)
  /\ UNCHANGED <<run, beside, schedule, budget>>

-----------------------------------------------------------------------------
(* One tick: reconcile, read the due schedule, advance it, plan the sweep. *)

\* reconcileStaleRuns: an open run is resumed, or buried when it is too old.
Reconcile(t) ==
  /\ at[t] = "idle"
  /\ LET open == {r \in Runs : run[r] = "running"} IN
     \E old \in SUBSET open :
       /\ run' = [r \in Runs |-> IF r \in old THEN "none" ELSE run[r]]
       /\ started' = (started \cup open) \ old
       /\ Forget(old)
  /\ Go(t, "due?")
  /\ UNCHANGED <<holds, mine, schedule, budget>>

Holding == {t \in Ticks : at[t] = "advance"}

\* Variant: a schedule is due only when nothing is active on its site.
ReadDueWhenQuiet(t) ==
  /\ at[t] = "due?"
  /\ IF sched.enabled /\ sched.next = "due" /\ Active = {}
     THEN /\ Go(t, "advance")
          /\ holds' = [holds EXCEPT ![t] = sched.cron]
          /\ together' = IF Cardinality(Holding) + 1 > together
                         THEN Cardinality(Holding) + 1 ELSE together
     ELSE Go(t, "idle") /\ UNCHANGED <<holds, together>>
  /\ UNCHANGED <<rows, rivals, mine, sched, fired, budget>>

ReadDue(t) ==
  /\ at[t] = "due?"
  /\ \/ /\ sched.enabled /\ sched.next = "due"
        /\ Go(t, "advance")
        /\ holds' = [holds EXCEPT ![t] = sched.cron]
        /\ together' = IF Cardinality(Holding) + 1 > together
                       THEN Cardinality(Holding) + 1 ELSE together
     \/ /\ ~(sched.enabled /\ sched.next = "due")
        /\ Go(t, "idle")
        /\ UNCHANGED <<holds, together>>
  /\ UNCHANGED <<rows, rivals, mine, sched, fired, budget>>

\* Variant: the next firing is counted from the one that was due, not from now.
AdvanceFromFiring(t) ==
  /\ at[t] = "advance"
  /\ \E next \in {"later", "due"} :
       sched' = [sched EXCEPT !.next = next, !.nextOf = holds[t]]
  /\ Go(t, "guard")
  /\ holds' = [holds EXCEPT ![t] = None]
  /\ UNCHANGED <<rows, rivals, mine, fired, together, budget>>

\* Variant: an expression without a next time leaves the schedule without one.
AdvanceToNothing(t) ==
  /\ at[t] = "advance"
  /\ sched' = [sched EXCEPT !.next = "none", !.nextOf = holds[t]]
  /\ Go(t, "guard")
  /\ holds' = [holds EXCEPT ![t] = None]
  /\ UNCHANGED <<rows, rivals, mine, fired, together, budget>>

\* advanceSchedule: by the expression read earlier, and by id alone.
Advance(t) ==
  /\ at[t] = "advance"
  /\ sched' = [sched EXCEPT !.next = "later", !.nextOf = holds[t]]
  /\ Go(t, "guard")
  /\ holds' = [holds EXCEPT ![t] = None]
  /\ UNCHANGED <<rows, rivals, mine, fired, together, budget>>

-----------------------------------------------------------------------------
(* Everything else that happens to the site. *)

\* A tick lives for a minute and firings are an hour apart: nobody still plans the
\* last one.
BecomeDue ==
  /\ sched.next = "later"
  /\ \A t \in Ticks : at[t] \in {"idle", "due?"}
  /\ sched' = [sched EXCEPT !.next = "due"]
  /\ fired' = 0 /\ together' = 0
  /\ UNCHANGED <<rows, work, budget>>

SaveSchedule(enabled, cron) ==
  /\ saves < MaxSaves
  /\ saves' = saves + 1
  /\ sched' = [enabled |-> enabled, cron |-> cron,
               next |-> IF enabled THEN "later" ELSE "none", nextOf |-> cron]
  /\ UNCHANGED <<rows, work, fired, together, crashes>>

Close(r) ==
  /\ run' = [run EXCEPT ![r] = "none"]
  /\ started' = started \ {r}
  /\ Forget({r})

RunCloses(r) ==
  /\ run[r] = "running" /\ r \in started
  /\ Close(r)
  /\ UNCHANGED <<schedule, at, holds, mine, budget>>

\* controlRun: pause, resume, stop.
Control(r) ==
  /\ \/ /\ run[r] = "running"
        /\ run' = [run EXCEPT ![r] = "paused"]
        /\ UNCHANGED <<started, beside, rivals>>
     \/ /\ run[r] = "paused"
        /\ run' = [run EXCEPT ![r] = "running"]
        /\ UNCHANGED <<started, beside, rivals>>
     \/ r \in Active /\ Close(r)
  /\ UNCHANGED <<schedule, at, holds, mine, budget>>

Die(c) ==
  /\ at[c] # "idle" /\ crashes < MaxCrashes
  /\ crashes' = crashes + 1
  /\ End(c)
  /\ UNCHANGED <<rows, schedule, saves>>

-----------------------------------------------------------------------------

TickSteps(t) == Reconcile(t) \/ ReadDue(t) \/ Advance(t) \/ Plan(t)
StartSteps(c) == CreateRun(c) \/ NothingToAudit(c) \/ Launch(c)

Next ==
  \/ \E t \in Ticks : TickSteps(t)
  \/ \E c \in Callers : Ask(c)
  \/ \E c \in Starters : StartSteps(c) \/ Die(c)
  \/ \E r \in Runs : RunCloses(r) \/ Control(r)
  \/ BecomeDue
  \/ \E enabled \in BOOLEAN, cron \in Crons : SaveSchedule(enabled, cron)

Spec == Init /\ [][Next]_vars

(***************************************************************************)
(* Ticks keep coming, whoever is at work goes on while it lives, and time   *)
(* passes.  Nobody is obliged to ask, to edit the schedule or to release a  *)
(* held run, and a run need never close.                                    *)
(***************************************************************************)
FairSpec ==
  /\ Spec
  /\ \A t \in Ticks : WF_vars(TickSteps(t) \/ StartSteps(t))
  /\ \A c \in Callers : WF_vars(StartSteps(c))
  /\ WF_vars(BecomeDue)

-----------------------------------------------------------------------------

\* "One run at a time per site": the guard is read, then the run is created, so two
\* active runs were created by starters that both passed the guard before either
\* created; a run the guard could see is never joined by another.
OneRunUnlessRaced ==
  \A r, s \in Active : r # s => s \in beside[r] \/ r \in beside[s]

\* "A sweep must not start while another is in flight."
OneActiveRun == \A r, s \in Active : r = s

\* "Advance FIRST": a firing is planned once, or once for each tick that had read it
\* due before it was advanced; a tick that comes later, even after the first one
\* died, does not fire it again.
FiredOnce == fired <= together

\* A due schedule is fired, whatever is active on the site and whoever dies.
DueIsServed ==
  (sched.enabled /\ sched.next = "due") ~> (~sched.enabled \/ sched.next # "due")

\* A tick that read the schedule before it was edited puts back a firing of the old
\* expression; the next firing after it follows the new one.
NextHeals ==
  (sched.nextOf # sched.cron) ~> (~sched.enabled \/ sched.nextOf = sched.cron)

=============================================================================
