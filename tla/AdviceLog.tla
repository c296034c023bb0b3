------------------------------ MODULE AdviceLog ------------------------------
(***************************************************************************)
(* What the history of recommendations about one result promises, whoever   *)
(* asks, dies or takes over: versions are begun one after the other, each   *)
(* once and on top of all that are there; each is answered or fails, once;  *)
(* the text shows the one answered last; an answer drops out when enough    *)
(* newer versions are there, or everything goes with the result.            *)
(***************************************************************************)
EXTENDS Naturals, FiniteSets

CONSTANT KEEP_VERSIONS

VARIABLES
  open,      \* versions begun and not finished
  answered,
  failed,
  shown,     \* the version whose answer the text shows, 0 if none
  over       \* the result is gone

log == <<open, answered, failed, shown, over>>

Versions == open \cup answered \cup failed
Above(v) == {u \in Versions : u > v}
Remaining == {v \in Versions : Cardinality(Above(v)) < KEEP_VERSIONS}

Init ==
  /\ open = {} /\ answered = {} /\ failed = {}
  /\ shown = 0
  /\ over = FALSE

\* The next number, and only that.
Begin(v) ==
  /\ ~over
  /\ v \notin Versions /\ Above(v) = {}
  /\ open' = open \cup {v}
  /\ UNCHANGED <<answered, failed, shown, over>>

Answer(v) ==
  /\ v \in open
  /\ open' = (open \ {v}) \cap Remaining
  /\ answered' = (answered \cup {v}) \cap Remaining
  /\ failed' = failed \cap Remaining
  /\ shown' = v
  /\ UNCHANGED over

Fail(v) ==
  /\ v \in open
  /\ open' = open \ {v}
  /\ failed' = failed \cup {v}
  /\ UNCHANGED <<answered, shown, over>>

Vanish ==
  /\ ~over /\ over' = TRUE
  /\ open' = {} /\ answered' = {} /\ failed' = {} /\ shown' = 0

Next ==
  \/ \E v \in {1} \cup {u + 1 : u \in Versions} : Begin(v)
  \/ \E v \in open : Answer(v) \/ Fail(v)
  \/ Vanish

Spec == Init /\ [][Next]_log

=============================================================================
