----------------------------- MODULE SerialOrder -----------------------------
(***************************************************************************)
(* What the order of a site's groups promises, whoever drags them at one    *)
(* time: the calls of a tab are answered in turn; one that saves an order   *)
(* gives every group of it that is there its place in it, all at once, or   *)
(* is refused and does nothing; one that resets takes the places of the     *)
(* groups it found there.  Groups come without a place and go with theirs.  *)
(***************************************************************************)
EXTENDS Naturals, SequencesExt, Null

CONSTANTS Groups, Tabs

VARIABLES
  there,    \* the groups there are
  place,    \* where each stands, None if nobody placed it
  called,   \* of a tab: the calls not answered, each with its order, None of a reset
  found     \* of a tab: the groups its reset under way found there

serialVars == <<there, place, called, found>>

Init ==
  /\ there \subseteq Groups
  /\ place = [g \in Groups |-> None]
  /\ called = [t \in Tabs |-> <<>>]
  /\ found = [t \in Tabs |-> {}]

Call(t) ==
  /\ \E call \in ToSet(called'[t]) : called' = [called EXCEPT ![t] = Append(@, call)]
  /\ UNCHANGED <<there, place, found>>

\* The first call of a tab is answered, and the next has yet to begin.
Answered(t) ==
  /\ called[t] # <<>>
  /\ called' = [called EXCEPT ![t] = Tail(@)]
  /\ found' = [found EXCEPT ![t] = {}]
  /\ UNCHANGED there

Begin(t) ==
  /\ called[t] # <<>> /\ Head(called[t]).order = None
  /\ found' = [found EXCEPT ![t] = there]
  /\ UNCHANGED <<there, place, called>>

Reset(t) ==
  /\ Answered(t) /\ Head(called[t]).order = None
  /\ place' = [g \in Groups |-> IF g \in found[t] THEN None ELSE place[g]]

PlaceIn(order, g) == (CHOOSE i \in DOMAIN order : order[i] = g) - 1

Save(t) ==
  LET order == Head(called[t]).order IN
  /\ Answered(t) /\ order # None
  /\ place' = [g \in Groups |->
                 IF g \in there /\ g \in ToSet(order) THEN PlaceIn(order, g) ELSE place[g]]

Refuse(t) == Answered(t) /\ UNCHANGED place

Come(g) ==
  /\ g \notin there
  /\ there' = there \cup {g} /\ place' = [place EXCEPT ![g] = None]
  /\ UNCHANGED <<called, found>>

Go(g) ==
  /\ g \in there
  /\ there' = there \ {g} /\ place' = [place EXCEPT ![g] = None]
  /\ found' = [t \in Tabs |-> found[t] \ {g}]
  /\ UNCHANGED called

Next ==
  \/ \E t \in Tabs : Call(t) \/ Begin(t) \/ Reset(t) \/ Save(t) \/ Refuse(t)
  \/ \E g \in Groups : Come(g) \/ Go(g)

Spec == Init /\ [][Next]_serialVars

=============================================================================
