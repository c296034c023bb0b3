-------------------------------- MODULE Pacing --------------------------------
(***************************************************************************)
(* The steps that spend an organisation's own Google quota, and the window  *)
(* of permits they share in its database.  Each attempt takes a permit,     *)
(* asks PSI, and is tried again when the answer is worth it.  A process     *)
(* keeps the limiter it made, with the database the organisation was on     *)
(* then.  (The deployment's quota is the case of one database.)             *)
(***************************************************************************)
EXTENDS Naturals, FiniteSets, Null

CONSTANTS
  Steps,
  Processes,         \* warm serverless instances
  Databases,         \* that the organisation connects
  max,               \* permits per window
  PSI_MAX_ATTEMPTS,
  MaxWindow,         \* bound: windows that pass
  MaxRotations       \* bound: changes of the connection

\* Assumed of the constants wherever the module is used.
PacingAssumption ==
  /\ max \in Nat \ {0} /\ PSI_MAX_ATTEMPTS \in Nat \ {0} /\ MaxWindow \in Nat \ {0}
  /\ MaxRotations \in Nat /\ IsFiniteSet(Steps) /\ None \notin Databases \cup Processes
  /\ Databases # {}

VARIABLES
  window,    \* the present one
  connection, \* the database the organisation is on
  rotations,
  limiter,   \* the database of the limiter each process keeps
  bucket,    \* each RateLimitBucket row; windowStart is 0 before there is one
  step,      \* each step: where it is, its process, the limiter in use, its window, its attempt
  granted,   \* permits given in the present window
  blurred    \* an upsert in the present window came with an earlier one or to a database
             \* the organisation had left, or the organisation left one

client == <<connection, rotations, limiter>>
vars == <<window, client, bucket, step, granted, blurred>>

Window == 1..MaxWindow

TypeOK ==
  /\ window \in Window
  /\ connection \in Databases /\ rotations \in 0..MaxRotations
  /\ limiter \in [Processes -> Databases \cup {None}]
  /\ bucket \in [Databases -> [windowStart : 0..MaxWindow, count : 0..max + 1]]
  /\ step \in [Steps -> [at : {"idle", "begun", "connected", "acquire", "upsert", "denied", "asleep", "psi",
                               "backoff"},
                         on : Processes \cup {None}, in : Databases \cup {None},
                         window : 0..MaxWindow, attempt : 0..PSI_MAX_ATTEMPTS]]
  /\ granted \in Nat /\ blurred \in BOOLEAN

Idle == [at |-> "idle", on |-> None, in |-> None, window |-> 0, attempt |-> 0]

Init ==
  /\ window = 1
  /\ connection = CHOOSE d \in Databases : TRUE   \* they are alike
  /\ rotations = 0
  /\ limiter = [p \in Processes |-> None]
  /\ bucket = [d \in Databases |-> [windowStart |-> 0, count |-> 0]]
  /\ step = [s \in Steps |-> Idle]
  /\ granted = 0 /\ blurred = FALSE

\* The window was of use for one statement or one sleep.
Go(s, place) == step' = [step EXCEPT ![s].at = place, ![s].window = 0]

Begin(s, p) ==
  /\ step[s].at = "idle"
  /\ step' = [step EXCEPT ![s] = [Idle EXCEPT !.at = "begun", !.on = p, !.attempt = 1]]
  /\ UNCHANGED <<window, client, bucket, granted, blurred>>

\* getPsiRateLimiter: the limiter the process keeps,
Cached(s) ==
  /\ step[s].at = "begun" /\ limiter[step[s].on] # None
  /\ step' = [step EXCEPT ![s].at = "acquire", ![s].in = limiter[step[s].on]]
  /\ UNCHANGED <<window, client, bucket, granted, blurred>>

\* or the client of the present connection is awaited
Connect(s) ==
  /\ step[s].at = "begun" /\ limiter[step[s].on] = None
  /\ step' = [step EXCEPT ![s].at = "connected", ![s].in = connection]
  /\ UNCHANGED <<window, client, bucket, granted, blurred>>

\* and a limiter made with it, and kept over one that was kept meanwhile.
KeepLimiter(s) ==
  /\ step[s].at = "connected"
  /\ limiter' = [limiter EXCEPT ![step[s].on] = step[s].in]
  /\ step' = [step EXCEPT ![s].at = "acquire"]
  /\ UNCHANGED <<window, connection, rotations, bucket, granted, blurred>>

\* The window is computed before the statement that is sent with it.
ComputeWindow(s) ==
  /\ step[s].at = "acquire"
  /\ step' = [step EXCEPT ![s].at = "upsert", ![s].window = window]
  /\ UNCHANGED <<window, client, bucket, granted, blurred>>

\* Variant: the update on conflict leaves the row's window as it was.
WindowKept(row, w) ==
  IF row.windowStart = 0 THEN [windowStart |-> w, count |-> 1]
  ELSE [row EXCEPT !.count = IF row.windowStart = w /\ @ <= max THEN @ + 1 ELSE 1]

\* One statement: a fresh window starts over, the same one counts on, past max as far
\* as it makes a difference.
Upsert(row, w) ==
  [windowStart |-> w,
   count |-> IF row.windowStart # w THEN 1 ELSE IF row.count <= max THEN row.count + 1 ELSE row.count]

tryAcquire(s) ==
  /\ step[s].at = "upsert"
  /\ LET d == step[s].in   row == Upsert(bucket[d], step[s].window) IN
     /\ bucket' = [bucket EXCEPT ![d] = row]
     /\ IF row.count <= max
        THEN Go(s, "psi") /\ granted' = granted + 1
        ELSE Go(s, "denied") /\ UNCHANGED granted
     /\ blurred' = (blurred \/ step[s].window # window \/ d # connection)
  /\ UNCHANGED <<window, client>>

\* Until the boundary after now, and a little longer.
Sleep(s) ==
  /\ step[s].at = "denied"
  /\ step' = [step EXCEPT ![s].at = "asleep", ![s].window = window]
  /\ UNCHANGED <<window, client, bucket, granted, blurred>>

Wake(s) ==
  /\ step[s].at = "asleep" /\ step[s].window < window
  /\ Go(s, "acquire")
  /\ UNCHANGED <<window, client, bucket, granted, blurred>>

\* runPagespeed: an answer, an error worth a row or no use retrying, or one to retry,
\* for which the last attempt leaves an error row.
Answer(s) ==
  /\ step[s].at = "psi"
  /\ \/ step' = [step EXCEPT ![s] = Idle]
     \/ step[s].attempt < PSI_MAX_ATTEMPTS /\ Go(s, "backoff")
  /\ UNCHANGED <<window, client, bucket, granted, blurred>>

Retry(s) ==
  /\ step[s].at = "backoff"
  /\ step' = [step EXCEPT ![s].at = "begun", ![s].in = None, ![s].attempt = @ + 1]
  /\ UNCHANGED <<window, client, bucket, granted, blurred>>

Die(s) ==
  /\ step[s].at # "idle"
  /\ step' = [step EXCEPT ![s] = Idle]
  /\ UNCHANGED <<window, client, bucket, granted, blurred>>

RollOver ==
  /\ window < MaxWindow
  /\ window' = window + 1 /\ granted' = 0 /\ blurred' = FALSE
  /\ UNCHANGED <<client, bucket, step>>

\* saveNeonConnectionAction: another database takes over, a fresh one.
Rotate(d) ==
  /\ d # connection /\ bucket[d].windowStart = 0 /\ rotations < MaxRotations
  /\ connection' = d /\ rotations' = rotations + 1
  /\ blurred' = TRUE
  /\ UNCHANGED <<window, limiter, bucket, step, granted>>

\* A process without work is let go, and its limiter with it.
Recycle(p) ==
  /\ limiter[p] # None /\ \A s \in Steps : step[s].on # p
  /\ limiter' = [limiter EXCEPT ![p] = None]
  /\ UNCHANGED <<window, connection, rotations, bucket, step, granted, blurred>>

Next ==
  \/ \E s \in Steps, p \in Processes : Begin(s, p)
  \/ \E s \in Steps : \/ Cached(s) \/ Connect(s) \/ KeepLimiter(s) \/ ComputeWindow(s)
                      \/ tryAcquire(s) \/ Sleep(s) \/ Wake(s) \/ Answer(s) \/ Retry(s) \/ Die(s)
  \/ RollOver
  \/ \E d \in Databases : Rotate(d)
  \/ \E p \in Processes : Recycle(p)

Spec == Init /\ [][Next]_vars

-----------------------------------------------------------------------------

\* "One shared budget covers every path that calls PSI": however many steps ask, retry
\* and die, a window gives no more than its permits, unless a step was held up past the
\* end of the window it had computed, or the organisation changed its database and not
\* every process counts there yet.
PermitsPerWindow == blurred \/ granted <= max

=============================================================================
