------------------------------ MODULE RunLedger ------------------------------
(***************************************************************************)
(* What the row of a run promises about its results, whoever measures them  *)
(* and however often: the outcome of a pair is recorded once and stays; the *)
(* counts of what is done and of what failed move with each record, may be  *)
(* recounted, and never exceed what was recorded; the committed work may    *)
(* shrink and never grows.                                                  *)
(***************************************************************************)
EXTENDS Naturals, FiniteSets

CONSTANT Pairs

VARIABLES
  recorded,   \* the pairs with a result row
  failed,     \* those of them that failed
  counted,    \* how many the run claims to have recorded
  failures,   \* how many it claims to have failed
  committed   \* how many the run has to reach

ledger == <<recorded, failed, counted, failures, committed>>

Init ==
  /\ recorded = {} /\ failed = {}
  /\ counted = 0 /\ failures = 0
  /\ committed \in Nat

\* One pair measured for the first time.
Record(p) ==
  /\ p \notin recorded
  /\ recorded' = recorded \cup {p}
  /\ counted' = counted + 1
  /\ \/ UNCHANGED <<failed, failures>>
     \/ failed' = failed \cup {p} /\ failures' = failures + 1
  /\ UNCHANGED committed

\* A resume recounts, possibly from rows read a while ago.
Recount ==
  /\ counted' \in 0..Cardinality(recorded)
  /\ failures' \in 0..Cardinality(failed)
  /\ committed' \in 0..committed
  /\ UNCHANGED <<recorded, failed>>

Next == Recount \/ \E p \in Pairs : Record(p)

Spec == Init /\ [][Next]_ledger

=============================================================================
