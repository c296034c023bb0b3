------------------------------- MODULE Ordering -------------------------------
(***************************************************************************)
(* The order in which the groups of one site are listed and swept, and the  *)
(* lists on screen in which people drag them (GroupRail and SectionGrid,    *)
(* both by useReorder).  A list copies the order it was mounted with, shows *)
(* a move at once, saves it by a server action (app/actions/groups.ts) and  *)
(* goes back to what it showed before when the save fails.  The framework   *)
(* runs the server actions of one tab one after the other; two tabs run     *)
(* together, and the database locks each row from its update to the commit. *)
(***************************************************************************)
EXTENDS Integers, FiniteSets, SequencesExt, Null

CONSTANTS
  Groups,      \* sections that exist at some time
  SITEMAP,     \* position of a group's earliest page in the sitemap
  Lists, Tabs, TAB,  \* the lists, the browser tabs, and the tab a list is in
  MaxMoves,    \* moves and resets made
  MaxEdits,    \* groups created by an ingest or merged away
  MaxFailures  \* server actions that fail though no row stands in their way

\* Assumed of the constants wherever the module is used.
OrderingAssumption ==
  /\ IsFiniteSet(Groups)
  /\ None \notin Nat \cup Seq(Groups) \cup [left : SUBSET Groups, held : SUBSET Groups]
  /\ SITEMAP \in [Groups -> Nat]
  /\ \A g, h \in Groups : SITEMAP[g] = SITEMAP[h] => g = h
  /\ TAB \in [Lists -> Tabs]
  /\ {MaxMoves, MaxEdits, MaxFailures} \subseteq Nat

VARIABLES
  group,     \* "there", "merged" away, or "absent" so far
  priority,  \* Group.priority
  items,     \* what a list shows
  queue,     \* of a tab: the server actions called and not answered, oldest first
  tx,        \* of a tab: the transaction of its first call, or None
  calls, edits, failures,
  winner,    \* observer: the order committed last, None of a reset, and the rows it wrote
  vouched    \* observer: the last save of the list answered ok, and nothing since
             \* is known to have parted the list from the database

orderVars == <<group, priority, items, queue, tx, calls, edits, failures, winner, vouched>>

There == {g \in Groups : group[g] = "there"}

\* Earlier in the list: a priority first, the lower the earlier, then the sitemap.
Before(g, h) ==
  \/ priority[g] # None /\ priority[h] = None
  \/ priority[g] # None /\ priority[h] # None /\ priority[g] < priority[h]
  \/ priority[g] = priority[h] /\ SITEMAP[g] < SITEMAP[h]

\* Those of S stand in s, once each, as they are listed.
InOrder(s, S) ==
  \A i, j \in DOMAIN s : {s[i], s[j]} \subseteq S => (i < j <=> Before(s[i], s[j]))

\* What the server lists: no two groups are at one place of the sitemap, so there is one.
Listings == {s \in [1..Cardinality(There) -> There] : InOrder(s, There)}

Index(g, order) == CHOOSE i \in DOMAIN order : order[i] = g

\* A call made by a list: the order to save and the one to go back to.  A reset has no order.
Saves == [list : Lists, order : Seq(Groups), previous : Seq(Groups)]
Resets == [list : Lists, order : {None}]

OrderTypeOK ==
  /\ group \in [Groups -> {"absent", "there", "merged"}]
  /\ priority \in [Groups -> Nat \cup {None}]
  /\ items \in [Lists -> Seq(Groups)]
  /\ queue \in [Tabs -> Seq(Saves \cup Resets)]
  /\ tx \in [Tabs -> {None} \cup [left : SUBSET Groups, held : SUBSET Groups]]
  /\ calls \in 0..MaxMoves /\ edits \in 0..MaxEdits /\ failures \in 0..MaxFailures
  /\ winner \in [order : Seq(Groups) \cup {None}, rows : SUBSET Groups]
  /\ vouched \in [Lists -> BOOLEAN]

OrderInit ==
  /\ group \in [Groups -> {"there", "absent"}]
  /\ priority = [g \in Groups |-> None]
  /\ items \in [Lists -> Listings]
  /\ queue = [t \in Tabs |-> <<>>]
  /\ tx = [t \in Tabs |-> None]
  /\ calls = 0 /\ edits = 0 /\ failures = 0
  /\ winner = [order |-> None, rows |-> There]
  /\ vouched = [l \in Lists |-> FALSE]

(***************************************************************************)
(* The screen.                                                              *)
(***************************************************************************)

Awaited(l) == \E i \in DOMAIN queue[TAB[l]] : queue[TAB[l]][i].list = l

\* A list mounted anew shows what the server lists.  One that is left with calls
\* outstanding is not looked at again, so only idle lists are mounted.
Mount(l) ==
  /\ ~Awaited(l) /\ items[l] \notin Listings
  /\ \E listing \in Listings : items' = [items EXCEPT ![l] = listing]
  /\ vouched' = [vouched EXCEPT ![l] = FALSE]
  /\ UNCHANGED <<group, priority, queue, tx, calls, edits, failures, winner>>

\* Dragging one item to the place of another, or moving it by one.
Reordered(s) == {InsertAt(RemoveAt(s, i), j, s[i]) : i, j \in DOMAIN s} \ {s}

Enqueue(l, call) ==
  /\ calls < MaxMoves
  /\ queue' = [queue EXCEPT ![TAB[l]] = Append(@, call)]
  /\ calls' = calls + 1
  /\ UNCHANGED <<group, priority, tx, edits, failures, winner, vouched>>

Persist(l) ==
  \E next \in Reordered(items[l]) :
    /\ items' = [items EXCEPT ![l] = next]
    /\ Enqueue(l, [list |-> l, order |-> next, previous |-> items[l]])

ResetOrder(l) == Enqueue(l, [list |-> l, order |-> None]) /\ UNCHANGED items

(***************************************************************************)
(* The server action of a tab's first call.                                 *)
(***************************************************************************)

Order(t) == Head(queue[t]).order

\* The transaction reads which of the groups there are; a reset is one updateMany.
Transact(t) ==
  /\ queue[t] # <<>> /\ tx[t] = None
  /\ tx' = [tx EXCEPT ![t] = [left |-> IF Order(t) = None THEN There
                                       ELSE There \cap ToSet(Order(t)),
                              held |-> {}]]
  /\ UNCHANGED <<group, priority, items, queue, calls, edits, failures, winner, vouched>>

\* The row written next: of a save the first in its order, of a reset any.
NextRow(t) ==
  {g \in tx[t].left : Order(t) # None =>
      \A h \in tx[t].left : Index(g, Order(t)) <= Index(h, Order(t))}

Locked(t, g) == tx[t] # None /\ g \in tx[t].held

\* Variant: no transaction, each row is written for everybody as it is reached.
UpdateAtOnce(t) ==
  /\ tx[t] # None
  /\ \E g \in NextRow(t) :
       /\ \A u \in Tabs \ {t} : ~Locked(u, g)
       /\ tx' = [tx EXCEPT ![t].left = @ \ {g}]
       /\ priority' = [priority EXCEPT ![g] = IF Order(t) = None THEN None ELSE Index(g, Order(t))]
  /\ UNCHANGED <<group, items, queue, calls, edits, failures, winner, vouched>>

Update(t) ==
  /\ tx[t] # None
  /\ \E g \in NextRow(t) :
       /\ \A u \in Tabs \ {t} : ~Locked(u, g)
       /\ (Order(t) # None => g \in There)
       /\ tx' = [tx EXCEPT ![t] = [left |-> @.left \ {g},
                                   held |-> @.held \cup ({g} \cap There)]]
  /\ UNCHANGED <<group, priority, items, queue, calls, edits, failures, winner, vouched>>

\* What the rows hold once the transaction commits.
Prioritised(t) ==
  [g \in Groups |-> IF g \notin tx[t].held THEN priority[g]
                    ELSE IF Order(t) = None THEN None
                    ELSE Index(g, Order(t)) - 1]

\* Once every call before the later ones is answered, the list shows the order: the last
\* of those that stays is the one the first save after them goes back to.
SavedBy(l, call) == call.list = l /\ call.order # None

Shows(l, later, order) ==
  \/ (\A i \in DOMAIN later : ~SavedBy(l, later[i])) /\ items[l] = order
  \/ \E i \in DOMAIN later :
       /\ SavedBy(l, later[i]) /\ later[i].previous = order
       /\ \A j \in 1..(i - 1) : ~SavedBy(l, later[j])

Commit(t) ==
  LET call == Head(queue[t]) IN
  /\ tx[t] # None /\ tx[t].left = {}
  /\ priority' = Prioritised(t)
  /\ queue' = [queue EXCEPT ![t] = Tail(@)]
  /\ tx' = [tx EXCEPT ![t] = None]
  /\ winner' = [order |-> Order(t), rows |-> tx[t].held]
  /\ vouched' = [l \in Lists |->
       SavedBy(l, call) /\ Shows(l, Tail(queue[t]), Order(t))]
  /\ UNCHANGED <<group, items, calls, edits, failures>>

\* Variant: the list goes on showing what was not saved.
FailsShowing(t) ==
  /\ queue' = [queue EXCEPT ![t] = Tail(@)]
  /\ tx' = [tx EXCEPT ![t] = None]
  /\ UNCHANGED <<group, priority, items, calls, edits, winner, vouched>>

\* The action answers with an error and nothing is written; a save snaps back.
Fails(t) ==
  LET call == Head(queue[t]) IN
  /\ queue' = [queue EXCEPT ![t] = Tail(@)]
  /\ tx' = [tx EXCEPT ![t] = None]
  /\ items' = IF call.order = None THEN items
              ELSE [items EXCEPT ![call.list] = call.previous]
  /\ vouched' = [vouched EXCEPT ![call.list] =
       @ /\ (call.order # None => \A i \in 2..Len(queue[t]) : queue[t][i].list # call.list)]
  /\ UNCHANGED <<group, priority, calls, edits, winner>>

\* The database is not reached, or the person's role was taken away.
Rejected(t) ==
  /\ queue[t] # <<>> /\ tx[t] = None /\ failures < MaxFailures
  /\ failures' = failures + 1
  /\ Fails(t)

\* A row to update was deleted after it was read.
RowIsGone(t) ==
  /\ tx[t] # None /\ Order(t) # None
  /\ \E g \in NextRow(t) : g \notin There
  /\ Fails(t) /\ UNCHANGED failures

\* Two transactions wait for each other, and the database aborts one.
WaitsFor(t, u) == tx[t] # None /\ tx[u] # None /\ NextRow(t) # {} /\ NextRow(t) \subseteq tx[u].held

Deadlock(t) ==
  /\ \E u \in Tabs \ {t} : WaitsFor(t, u) /\ WaitsFor(u, t)
  /\ Fails(t) /\ UNCHANGED failures

(***************************************************************************)
(* The groups come and go (ingestSitemap, mergeGroups).                     *)
(***************************************************************************)

Edit(g, from, to) ==
  /\ edits < MaxEdits /\ group[g] = from
  /\ group' = [group EXCEPT ![g] = to]
  /\ priority' = [priority EXCEPT ![g] = None]
  /\ edits' = edits + 1
  /\ UNCHANGED <<items, queue, tx, calls, failures, vouched>>

CreateGroup(g) == Edit(g, "absent", "there") /\ UNCHANGED winner

MergeAway(g) ==
  /\ \A t \in Tabs : ~Locked(t, g)
  /\ Edit(g, "there", "merged")
  /\ winner' = [winner EXCEPT !.rows = @ \ {g}]

OrderNext ==
  \/ \E l \in Lists : Mount(l) \/ Persist(l) \/ ResetOrder(l)
  \/ \E t \in Tabs : Transact(t) \/ Update(t) \/ Commit(t) \/ Rejected(t) \/ RowIsGone(t) \/ Deadlock(t)
  \/ \E g \in Groups : CreateGroup(g) \/ MergeAway(g)

OrderSpec == OrderInit /\ [][OrderNext]_orderVars

(***************************************************************************)
(* What the order promises.                                                 *)
(***************************************************************************)

\* However the saves of two people interleave, the groups a save wrote stand as it
\* ordered them, never in a mixture of two orders, until another is committed; the ones
\* a reset wrote have no place (reorderGroupsAction, resetGroupOrderAction).
OneOrderWins ==
  IF winner.order = None THEN \A g \in winner.rows : priority[g] = None
  ELSE /\ winner.rows \subseteq There \cap ToSet(winner.order)
       /\ InOrder(winner.order, winner.rows)

\* Row by row updates, locks, deadlocks and failures come to calls that take effect whole and
\* in turn, or not at all: Ordering implements SerialOrder (reorderGroupsAction,
\* resetGroupOrderAction).
ToReset(t) ==
  IF tx[t] = None \/ Order(t) # None THEN {} ELSE There \cap (tx[t].left \cup tx[t].held)
Serial == INSTANCE SerialOrder WITH
  there <- There, place <- priority, called <- queue, found <- [t \in Tabs |-> ToReset(t)]
SavesAreWhole == Serial!Spec

\* A list whose save was answered shows its groups in the order they are swept in,
\* unless another list saved since or a save failed under a later one (useReorder).
ScreenAgrees == \A l \in Lists : vouched[l] /\ ~Awaited(l) => InOrder(items[l], There)

=============================================================================
