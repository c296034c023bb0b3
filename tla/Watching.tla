------------------------------- MODULE Watching -------------------------------
(***************************************************************************)
(* What a person sees of the runs of a site.  A bar on every screen polls   *)
(* the open runs (ActiveRunBar, api/runs/active), the page below it keeps   *)
(* the rows it was rendered with (RunHistoryList), and both offer to hold,  *)
(* continue or stop a run (RunControls).                                    *)
(***************************************************************************)
EXTENDS Null

CONSTANT
  Runs  \* the runs of the site, no more than the bar asks for (three)

VARIABLES
  status,      \* AuditRun.status, "none" before the run is created
  poll,        \* the answer on its way to the bar, or None
  bar,         \* the status the bar shows of a run, "none" when it does not
  wasRunning,  \* the bar's ref of that name
  page,        \* the status of a run in the rows the page was rendered with
  refreshing,  \* router.refresh() was called and the page is not rendered yet
  seen         \* observer: runs the bar has shown

watchVars == <<status, poll, bar, wasRunning, page, refreshing, seen>>

Open == {"running", "paused"}
Status == Open \cup {"none", "completed", "failed", "cancelled"}

\* The list of statuses the service knows lacks "paused" and "cancelled".
asRunStatus(s) == IF s \in {"running", "completed", "failed"} THEN s ELSE "queued"

Answer == [Runs -> {"none", "queued", "running"}]

WatchTypeOK ==
  /\ status \in [Runs -> Status]
  /\ poll \in Answer \cup {None}
  /\ bar \in Answer
  /\ page \in [Runs -> Status]
  /\ {wasRunning, refreshing} \subseteq BOOLEAN
  /\ seen \subseteq Runs

WatchInit ==
  /\ status = [r \in Runs |-> "none"]
  /\ poll = None
  /\ bar = [r \in Runs |-> "none"]
  /\ page = status
  /\ wasRunning = FALSE /\ refreshing = FALSE
  /\ seen = {}

screen == <<poll, bar, wasRunning, page, refreshing, seen>>

(***************************************************************************)
(* The runs.                                                                *)
(***************************************************************************)

CreateRun(r) ==
  /\ status[r] = "none"
  /\ status' = [status EXCEPT ![r] = "running"]
  /\ UNCHANGED screen

\* Finalized by its last step, or by a cron tick.
FinalizeRun(r) ==
  /\ status[r] \in Open
  /\ \E verdict \in {"completed", "failed"} : status' = [status EXCEPT ![r] = verdict]
  /\ UNCHANGED screen

(***************************************************************************)
(* The bar and the page.                                                    *)
(***************************************************************************)

\* The server reads the open runs.  The next poll is timed when one has ended.
PollReads ==
  /\ poll = None
  /\ poll' = [r \in Runs |-> IF status[r] \in Open THEN asRunStatus(status[r]) ELSE "none"]
  /\ UNCHANGED <<status, bar, wasRunning, page, refreshing, seen>>

Shown(answer) == {r \in Runs : answer[r] # "none"}

PollAnswers ==
  /\ poll # None
  /\ bar' = poll
  /\ refreshing' = (refreshing \/ (wasRunning /\ Shown(poll) = {}))
  /\ wasRunning' = (Shown(poll) # {})
  /\ seen' = seen \cup Shown(poll)
  /\ poll' = None
  /\ UNCHANGED <<status, page>>

\* Variant: no answer is taken for nothing running.
PollFailsEmpty ==
  /\ poll # None /\ poll' = None
  /\ bar' = [r \in Runs |-> "none"] /\ wasRunning' = FALSE
  /\ UNCHANGED <<status, page, refreshing, seen>>

PollFails ==
  /\ poll # None /\ poll' = None
  /\ UNCHANGED <<status, bar, wasRunning, page, refreshing, seen>>

\* The page is rendered, because of a refresh or because the person goes somewhere.
Render ==
  /\ page' = status /\ refreshing' = FALSE
  /\ UNCHANGED <<status, poll, bar, wasRunning, seen>>

(***************************************************************************)
(* Hold, continue, stop.                                                    *)
(***************************************************************************)

\* The buttons there are for a run shown with a status.
Offered(s) ==
  CASE s \in {"queued", "running"} -> {"pause", "stop"}
    [] s = "paused" -> {"resume", "stop"}
    [] OTHER -> {}

\* controlRun, by the status it reads; what may come between its read and its write is
\* in AuditRun.  A click it refuses changes nothing.
Control(r, action) ==
  /\ action \in Offered(bar[r]) \cup Offered(page[r])
  /\ \/ action = "pause" /\ status[r] = "running" /\ status' = [status EXCEPT ![r] = "paused"]
     \/ action = "resume" /\ status[r] = "paused" /\ status' = [status EXCEPT ![r] = "running"]
     \/ action = "stop" /\ status[r] \in Open /\ status' = [status EXCEPT ![r] = "cancelled"]
  /\ refreshing' = TRUE
  /\ UNCHANGED <<poll, bar, wasRunning, page, seen>>

WatchNext ==
  \/ \E r \in Runs : CreateRun(r) \/ FinalizeRun(r)
  \/ PollReads \/ PollAnswers \/ PollFails \/ Render
  \/ \E r \in Runs, action \in {"pause", "resume", "stop"} : Control(r, action)

WatchSpec == WatchInit /\ [][WatchNext]_watchVars

(***************************************************************************)
(* What a person may rely on.                                               *)
(***************************************************************************)

\* Whatever polls fail, come late or miss a run that began and ended between them: once
\* the bar has gone and no refresh is due, the page shows how every run the bar had
\* shown really ended (ActiveRunBar).
PageKnowsTheEnd ==
  ~wasRunning /\ ~refreshing => \A r \in seen : status[r] \notin Open /\ page[r] = status[r]

=============================================================================
