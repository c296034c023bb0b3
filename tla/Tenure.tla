-------------------------------- MODULE Tenure --------------------------------
(***************************************************************************)
(* What the databases of the organisations go through, whoever connects     *)
(* them at one time: each is prepared once, given to one organisation at    *)
(* most, and never comes back once it was let go.  An organisation is       *)
(* served from the database it was given last and from no other.            *)
(***************************************************************************)
EXTENDS Null

CONSTANTS Orgs, Databases

VARIABLES
  fresh,    \* databases nobody has prepared
  offered,  \* prepared, and on the way to an organisation
  home,     \* of an organisation: the database it holds, or None
  serving   \* the organisations whose requests are let in

tenure == <<fresh, offered, home, serving>>

Init ==
  /\ fresh = Databases
  /\ offered = {}
  /\ home = [o \in Orgs |-> None]
  /\ serving = {}

\* The preparation may spoil the database, which is then nobody's for ever.
Prepare(d) ==
  /\ d \in fresh
  /\ fresh' = fresh \ {d}
  /\ offered' \in {offered, offered \cup {d}}
  /\ UNCHANGED <<home, serving>>

Withdraw(d) ==
  /\ d \in offered
  /\ offered' = offered \ {d}
  /\ UNCHANGED <<fresh, home, serving>>

\* What the organisation held before is let go.
Give(o, d) ==
  /\ d \in offered
  /\ offered' = offered \ {d}
  /\ home' = [home EXCEPT ![o] = d]
  /\ serving' = serving \cup {o}
  /\ UNCHANGED fresh

\* It keeps what it holds, and its requests are refused until it is given another.
Suspend(o) ==
  /\ serving' = serving \ {o}
  /\ UNCHANGED <<fresh, offered, home>>

Leave(o) ==
  /\ home' = [home EXCEPT ![o] = None]
  /\ serving' = serving \ {o}
  /\ UNCHANGED <<fresh, offered>>

Next ==
  \/ \E d \in Databases : Prepare(d) \/ Withdraw(d)
  \/ \E o \in Orgs : Suspend(o) \/ Leave(o) \/ \E d \in Databases : Give(o, d)

Spec == Init /\ [][Next]_tenure

=============================================================================
