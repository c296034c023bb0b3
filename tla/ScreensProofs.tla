---------------------------- MODULE ScreensProofs ----------------------------
(***************************************************************************)
(* What people see: the order of the groups on screen against the one in    *)
(* the database (Ordering), the bar and the page that follow the runs       *)
(* (Watching), and the figures computed from results (Figures).             *)
(***************************************************************************)
EXTENDS Ordering, Watching, Figures, FiniteSetTheorems, SequenceTheorems, WellFoundedInduction,
        TLAPS

-----------------------------------------------------------------------------
(* The bar and the page. *)

Begun == {r \in Runs : status[r] # "none"}

(***************************************************************************)
(* PageKnowsTheEnd is not inductive: a run could be shown before it began,  *)
(* and the answer that sends the bar away could be out of date.  Runs that  *)
(* were shown have begun, and one that an answer leaves out has ended when  *)
(* the answer was read, for good.                                           *)
(***************************************************************************)
WatchInv ==
  /\ seen \subseteq Begun
  /\ poll # None =>
       Shown(poll) \subseteq Begun /\ \A r \in seen \ Shown(poll) : status[r] \notin Open
  /\ ~wasRunning => \A r \in seen : status[r] \notin Open
  /\ PageKnowsTheEnd

\* What is shown of a run is a status or that it is not shown.
THEOREM WatchTypeCorrect == WatchSpec => []WatchTypeOK
PROOF
<1>1. WatchInit => WatchTypeOK
  BY DEF WatchInit, WatchTypeOK, Answer, Status, Open
<1>2. WatchTypeOK /\ [WatchNext]_watchVars => WatchTypeOK'
  <2> SUFFICES ASSUME WatchTypeOK, [WatchNext]_watchVars PROVE WatchTypeOK'
    OBVIOUS
  <2>1. ASSUME NEW r \in Runs, CreateRun(r) \/ FinalizeRun(r) PROVE WatchTypeOK'
    BY <2>1 DEF CreateRun, FinalizeRun, screen, WatchTypeOK, Status, Open
  <2>2. CASE PollReads
    BY <2>2 DEF PollReads, WatchTypeOK, Answer, asRunStatus, Status, Open
  <2>3. CASE PollAnswers
    BY <2>3 DEF PollAnswers, WatchTypeOK, Shown
  <2>4. CASE PollFails \/ Render
    BY <2>4 DEF PollFails, Render, WatchTypeOK
  <2>5. ASSUME NEW r \in Runs, NEW action \in {"pause", "resume", "stop"}, Control(r, action)
        PROVE  WatchTypeOK'
    BY <2>5 DEF Control, WatchTypeOK, Status, Open
  <2>6. CASE UNCHANGED watchVars
    BY <2>6 DEF watchVars, WatchTypeOK
  <2>7. QED
    BY <2>1, <2>2, <2>3, <2>4, <2>5, <2>6 DEF WatchNext
<1>3. QED
  BY <1>1, <1>2, PTL DEF WatchSpec

\* A run moves on: it begins, changes between the open statuses, or ends for good.
LEMMA RunsMoveOn ==
  ASSUME WatchTypeOK, WatchInv, UNCHANGED <<poll, bar, wasRunning, page, seen>>,
         refreshing' = refreshing \/ refreshing' = TRUE,
         \A r \in Runs : \/ status'[r] = status[r]
                         \/ status[r] = "none"
                         \/ status[r] \in Open /\ status'[r] # "none"
  PROVE  WatchInv'
PROOF
<1>1. Begun \subseteq Begun' /\ \A r \in Begun : status[r] \notin Open => status'[r] = status[r]
  BY DEF Begun
<1>2. PageKnowsTheEnd'
  BY <1>1 DEF WatchInv, PageKnowsTheEnd, Begun
<1>3. QED
  BY <1>1, <1>2 DEF WatchInv, Shown

LEMMA WatchStep == ASSUME WatchTypeOK, WatchInv, [WatchNext]_watchVars PROVE WatchInv'
PROOF
<1>1. ASSUME NEW r \in Runs, CreateRun(r) \/ FinalizeRun(r) PROVE WatchInv'
  <2>1. UNCHANGED <<poll, bar, wasRunning, page, refreshing, seen>>
    BY <1>1 DEF CreateRun, FinalizeRun, screen
  <2>2. \A q \in Runs : \/ status'[q] = status[q]
                        \/ status[q] = "none"
                        \/ status[q] \in Open /\ status'[q] # "none"
    BY <1>1 DEF CreateRun, FinalizeRun, WatchTypeOK
  <2>3. QED
    BY <2>1, <2>2, RunsMoveOn
<1>2. ASSUME NEW r \in Runs, NEW action \in {"pause", "resume", "stop"}, Control(r, action)
      PROVE  WatchInv'
  <2>1. UNCHANGED <<poll, bar, wasRunning, page, seen>> /\ refreshing' = TRUE
    BY <1>2 DEF Control
  <2>2. \A q \in Runs : \/ status'[q] = status[q]
                        \/ status[q] = "none"
                        \/ status[q] \in Open /\ status'[q] # "none"
    BY <1>2 DEF Control, WatchTypeOK, Open
  <2>3. QED
    BY <2>1, <2>2, RunsMoveOn
<1>3. CASE PollReads
  <2>1. \A r \in Runs : poll'[r] # "none" <=> status[r] \in Open
    BY <1>3 DEF PollReads, asRunStatus
  <2>2. QED
    BY <1>3, <2>1 DEF PollReads, WatchInv, PageKnowsTheEnd, Shown, Begun, Open
<1>4. CASE PollAnswers
  <2>1. /\ poll # None /\ poll' = None /\ UNCHANGED <<status, page>>
        /\ seen' = seen \cup Shown(poll) /\ (wasRunning' <=> Shown(poll) # {})
        /\ refreshing' <=> refreshing \/ (wasRunning /\ Shown(poll) = {})
    BY <1>4 DEF PollAnswers, WatchTypeOK
  <2>2. seen' \subseteq Begun'
    BY <2>1 DEF WatchInv, Begun
  <2>3. ~wasRunning' => \A r \in seen' : status'[r] \notin Open
    BY <2>1 DEF WatchInv
  <2>4. PageKnowsTheEnd'
    BY <2>1 DEF WatchInv, PageKnowsTheEnd
  <2>5. QED
    BY <2>1, <2>2, <2>3, <2>4 DEF WatchInv
<1>5. CASE PollFails
  BY <1>5 DEF PollFails, WatchInv, PageKnowsTheEnd, Begun
<1>6. CASE Render
  BY <1>6 DEF Render, WatchInv, PageKnowsTheEnd, Begun, Shown
<1>7. CASE UNCHANGED watchVars
  BY <1>7 DEF watchVars, WatchInv, PageKnowsTheEnd, Begun, Shown
<1>8. QED
  BY <1>1, <1>2, <1>3, <1>4, <1>5, <1>6, <1>7 DEF WatchNext

\* Once the bar has gone and no refresh is due, the page shows how every run the bar had
\* shown ended, whatever polls fail, come late or miss a run (tick of ActiveRunBar).
THEOREM TheEndIsShown == WatchSpec => []PageKnowsTheEnd
PROOF
<1>1. WatchInit => WatchInv
  BY DEF WatchInit, WatchInv, PageKnowsTheEnd, Begun
<1>2. WatchTypeOK /\ WatchInv /\ [WatchNext]_watchVars => WatchInv'
  BY WatchStep
<1>3. WatchInv => PageKnowsTheEnd
  BY DEF WatchInv
<1>4. QED
  BY <1>1, <1>2, <1>3, WatchTypeCorrect, PTL DEF WatchSpec

-----------------------------------------------------------------------------
(* The order of the groups. *)

\* What a list shows, saves or goes back to: groups that have come, each once.
Given(s) ==
  /\ s \in Seq(Groups)
  /\ \A i, j \in DOMAIN s : s[i] = s[j] => i = j
  /\ \A i \in DOMAIN s : group[s[i]] # "absent"

\* What two sequences are one after the other.
LEMMA Joined ==
  ASSUME NEW a \in Seq(Groups), NEW b \in Seq(Groups)
  PROVE  /\ a \o b \in Seq(Groups) /\ Len(a \o b) = Len(a) + Len(b)
         /\ \A k \in 1..Len(a) : (a \o b)[k] = a[k]
         /\ \A k \in 1..Len(b) : (a \o b)[Len(a) + k] = b[k]
OBVIOUS

\* What is left without an element, and what is there with one more.
LEMMA Removed ==
  ASSUME NEW s \in Seq(Groups), NEW i \in 1..Len(s)
  PROVE  LET r == RemoveAt(s, i) IN
         /\ r \in Seq(Groups) /\ Len(r) = Len(s) - 1
         /\ \A k \in 1..(i - 1) : r[k] = s[k]
         /\ \A k \in i..Len(r) : r[k] = s[k + 1]
PROOF
<1> DEFINE a == SubSeq(s, 1, i - 1)
           b == SubSeq(s, i + 1, Len(s))
           r == RemoveAt(s, i)
<1>1. Len(s) \in Nat /\ \A k \in 1..Len(s) : s[k] \in Groups
  BY LenProperties, ElementOfSeq
<1>2. a \in Seq(Groups) /\ Len(a) = i - 1 /\ \A k \in 1..(i - 1) : a[k] = s[k]
  BY <1>1, SubSeqProperties
<1>3. b \in Seq(Groups) /\ Len(b) = Len(s) - i /\ \A k \in 1..(Len(s) - i) : b[k] = s[i + k]
  BY <1>1, SubSeqProperties
<1>4. r = a \o b
  BY DEF RemoveAt
<1> HIDE DEF a, b, r
<1>5. /\ r \in Seq(Groups) /\ Len(r) = Len(a) + Len(b)
      /\ \A k \in 1..Len(a) : r[k] = a[k]
      /\ \A k \in 1..Len(b) : r[Len(a) + k] = b[k]
  <2>1. a \in Seq(Groups) /\ b \in Seq(Groups)
    BY <1>2, <1>3
  <2>2. QED
    BY <1>4, <2>1, Joined, Zenon
<1>6. ASSUME NEW k \in i..(Len(s) - 1) PROVE r[k] = s[k + 1]
  <2>1. PICK m \in 1..Len(b) : k = Len(a) + m /\ i + m = k + 1
    <3>1. k - i + 1 \in 1..Len(b) /\ k = Len(a) + (k - i + 1) /\ i + (k - i + 1) = k + 1
      BY <1>1, <1>2, <1>3
    <3>2. QED
      BY <3>1
  <2>2. r[k] = b[m]
    BY <1>5, <2>1
  <2>3. b[m] = s[k + 1]
    BY <1>3, <2>1
  <2>4. QED
    BY <2>2, <2>3
<1>7. QED
  BY <1>1, <1>2, <1>3, <1>5, <1>6 DEF r

LEMMA Inserted ==
  ASSUME NEW s \in Seq(Groups), NEW j \in 1..(Len(s) + 1), NEW e \in Groups
  PROVE  LET n == InsertAt(s, j, e) IN
         /\ n \in Seq(Groups) /\ Len(n) = Len(s) + 1
         /\ \A k \in 1..(j - 1) : n[k] = s[k]
         /\ n[j] = e
         /\ \A k \in (j + 1)..Len(n) : n[k] = s[k - 1]
PROOF
<1> DEFINE a == SubSeq(s, 1, j - 1)
           b == SubSeq(s, j, Len(s))
           c == a \o <<e>>
           n == InsertAt(s, j, e)
<1>1. Len(s) \in Nat /\ \A k \in 1..Len(s) : s[k] \in Groups
  BY LenProperties, ElementOfSeq
<1>2. a \in Seq(Groups) /\ Len(a) = j - 1 /\ \A k \in 1..(j - 1) : a[k] = s[k]
  BY <1>1, SubSeqProperties
<1>3. b \in Seq(Groups) /\ Len(b) = Len(s) - j + 1 /\ \A k \in 1..(Len(s) - j + 1) : b[k] = s[j + k - 1]
  BY <1>1, SubSeqProperties
<1>4. n = c \o b
  BY DEF InsertAt
<1> HIDE DEF a, b, n
<1>5. c \in Seq(Groups) /\ Len(c) = j /\ (\A k \in 1..(j - 1) : c[k] = s[k]) /\ c[j] = e
  BY <1>1, <1>2
<1> HIDE DEF c
<1>6. /\ n \in Seq(Groups) /\ Len(n) = Len(c) + Len(b)
      /\ \A k \in 1..Len(c) : n[k] = c[k]
      /\ \A k \in 1..Len(b) : n[Len(c) + k] = b[k]
  <2>1. c \in Seq(Groups) /\ b \in Seq(Groups)
    BY <1>3, <1>5
  <2>2. QED
    BY <1>4, <2>1, Joined, Zenon
<1>7. ASSUME NEW k \in (j + 1)..(Len(s) + 1) PROVE n[k] = s[k - 1]
  <2>1. PICK m \in 1..Len(b) : k = Len(c) + m /\ j + m - 1 = k - 1
    <3>1. k - j \in 1..Len(b) /\ k = Len(c) + (k - j) /\ j + (k - j) - 1 = k - 1
      BY <1>1, <1>3, <1>5
    <3>2. QED
      BY <3>1
  <2>2. n[k] = b[m]
    BY <1>6, <2>1
  <2>3. b[m] = s[k - 1]
    BY <1>3, <2>1
  <2>4. QED
    BY <2>2, <2>3
<1>8. QED
  BY <1>1, <1>3, <1>5, <1>6, <1>7 DEF n

\* To move an element is to list the same ones by other numbers.
Renumbers(n, s) ==
  \E f \in [1..Len(s) -> 1..Len(s)] :
    /\ \A k, l \in 1..Len(s) : f[k] = f[l] => k = l
    /\ \A k \in 1..Len(s) : n[k] = s[f[k]]

LEMMA Moved ==
  ASSUME NEW s \in Seq(Groups), NEW i \in 1..Len(s), NEW j \in 1..Len(s)
  PROVE  /\ InsertAt(RemoveAt(s, i), j, s[i]) \in Seq(Groups)
         /\ Len(InsertAt(RemoveAt(s, i), j, s[i])) = Len(s)
         /\ Renumbers(InsertAt(RemoveAt(s, i), j, s[i]), s)
PROOF
<1> DEFINE r == RemoveAt(s, i)
           n == InsertAt(r, j, s[i])
           m(k) == IF k < j THEN k ELSE k - 1
           f == [k \in 1..Len(s) |-> IF k = j THEN i ELSE IF m(k) < i THEN m(k) ELSE m(k) + 1]
<1>1. Len(s) \in Nat /\ s[i] \in Groups
  BY LenProperties, ElementOfSeq
<1>2. /\ r \in Seq(Groups) /\ Len(r) = Len(s) - 1
      /\ \A k \in 1..(i - 1) : r[k] = s[k]
      /\ \A k \in i..Len(r) : r[k] = s[k + 1]
  BY Removed
<1> HIDE DEF r
<1>3. /\ n \in Seq(Groups) /\ Len(n) = Len(r) + 1
      /\ \A k \in 1..(j - 1) : n[k] = r[k]
      /\ n[j] = s[i]
      /\ \A k \in (j + 1)..Len(n) : n[k] = r[k - 1]
  <2>1. j \in 1..(Len(r) + 1)
    BY <1>1, <1>2
  <2>2. QED
    BY <1>1, <1>2, <2>1, Inserted
<1> HIDE DEF n
<1>4. f \in [1..Len(s) -> 1..Len(s)] /\ \A k, l \in 1..Len(s) : f[k] = f[l] => k = l
  BY <1>1
<1>5. \A k \in 1..(Len(s) - 1) : r[k] = s[IF k < i THEN k ELSE k + 1]
  BY <1>1, <1>2
<1>6. ASSUME NEW k \in 1..Len(s) PROVE n[k] = s[f[k]]
  <2>1. CASE k < j
    BY <1>1, <1>2, <1>3, <1>5, <2>1
  <2>2. CASE k = j
    BY <1>3, <2>2
  <2>3. CASE k > j
    BY <1>1, <1>2, <1>3, <1>5, <2>3
  <2>4. QED
    BY <2>1, <2>2, <2>3
<1> HIDE DEF f
<1>7. Renumbers(n, s)
  BY <1>4, <1>6, Zenon DEF Renumbers
<1>8. n \in Seq(Groups) /\ Len(n) = Len(s)
  BY <1>1, <1>2, <1>3
<1>9. QED
  BY <1>7, <1>8, Zenon DEF n, r

\* Dragging an item leaves the same groups on the list.
LEMMA MovedIsGiven ==
  ASSUME NEW s, Given(s), NEW n \in Reordered(s)
  PROVE  Given(n)
PROOF
<1>1. s \in Seq(Groups) /\ Len(s) \in Nat /\ DOMAIN s = 1..Len(s)
  BY LenProperties DEF Given
<1>2. PICK i, j \in 1..Len(s) : n = InsertAt(RemoveAt(s, i), j, s[i])
  BY <1>1 DEF Reordered
<1> DEFINE d == InsertAt(RemoveAt(s, i), j, s[i])
<1>3. /\ d \in Seq(Groups) /\ Len(d) = Len(s)
      /\ Renumbers(d, s)
  BY <1>1, <1>2, Moved, Zenon
<1> HIDE DEF d
<1>4. PICK f \in [1..Len(s) -> 1..Len(s)] :
        /\ \A k, l \in 1..Len(s) : f[k] = f[l] => k = l
        /\ \A k \in 1..Len(s) : d[k] = s[f[k]]
  BY <1>3 DEF Renumbers
<1>5. DOMAIN d = 1..Len(s)
  BY <1>3, LenProperties
<1>6. \A k, l \in 1..Len(s) : d[k] = d[l] => k = l
  BY <1>1, <1>4 DEF Given
<1>7. \A k \in 1..Len(s) : group[d[k]] # "absent"
  BY <1>1, <1>4 DEF Given
<1>8. QED
  BY <1>2, <1>3, <1>5, <1>6, <1>7 DEF Given, d

LEMMA ListingIsGiven ==
  ASSUME OrderingAssumption, OrderTypeOK, NEW s \in Listings
  PROVE  Given(s)
PROOF
<1>1. Cardinality(There) \in Nat /\ There \subseteq Groups
  BY FS_Subset, FS_CardinalityType DEF OrderingAssumption, There
<1>2. s \in [1..Cardinality(There) -> There] /\ InOrder(s, There)
  BY DEF Listings
<1>3. s \in Seq(Groups) /\ DOMAIN s = 1..Cardinality(There)
  BY <1>1, <1>2
<1>4. \A i \in DOMAIN s : s[i] \in There /\ group[s[i]] # "absent"
  BY <1>2 DEF There
<1>5. \A g \in Groups : ~Before(g, g)
  BY DEF Before, OrderingAssumption, OrderTypeOK
<1>6. \A i, j \in DOMAIN s : i < j => s[i] # s[j]
  BY <1>1, <1>2, <1>4, <1>5 DEF InOrder
<1>7. QED
  BY <1>1, <1>3, <1>4, <1>6 DEF Given

ItemsGiven == \A l \in Lists : Given(items[l])

\* A call waits in the tab of its list.
Called(t, c) == TAB[c.list] = t /\ (c.order # None => Given(c.order) /\ Given(c.previous))
CallsGiven == \A t \in Tabs : \A i \in DOMAIN queue[t] : Called(t, queue[t][i])

\* A transaction that saves has what it read and is still there before it or behind it, and
\* what it holds stays.
TxSound(t) ==
  /\ queue[t] # <<>> /\ tx[t].held \subseteq There
  /\ Order(t) # None =>
       /\ tx[t].left \cup tx[t].held \subseteq ToSet(Order(t))
       /\ There \cap ToSet(Order(t)) \subseteq tx[t].left \cup tx[t].held
TxInv == \A t \in Tabs : tx[t] # None => TxSound(t)

\* The rows committed last hold their places in the order that wrote them.
WinnerInv ==
  /\ winner.rows \subseteq There
  /\ winner.order = None => \A g \in winner.rows : priority[g] = None
  /\ winner.order # None =>
       /\ Given(winner.order)
       /\ There \cap ToSet(winner.order) = winner.rows
       /\ \A g \in winner.rows : priority[g] = Index(g, winner.order) - 1

\* A list vouched for comes back to the order committed last, whatever of its calls fail.
VouchInv ==
  \A l \in Lists :
    vouched[l] => winner.order # None /\ Shows(l, queue[TAB[l]], winner.order)

(***************************************************************************)
(* Neither property is inductive: OneOrderWins needs what the transactions  *)
(* hold, since they write it at once, and ScreenAgrees what the lists will  *)
(* come to show once the calls under way are answered.                      *)
(***************************************************************************)
OrderInv == OrderTypeOK /\ ItemsGiven /\ CallsGiven /\ TxInv /\ WinnerInv /\ VouchInv

\* A call that waits, or the first one, and the ones behind it.
LEMMA Waiting ==
  ASSUME OrderTypeOK, NEW t \in Tabs
  PROVE  /\ Len(queue[t]) \in Nat /\ DOMAIN queue[t] = 1..Len(queue[t])
         /\ \A i \in 1..Len(queue[t]) : queue[t][i] \in Saves \cup Resets
         /\ queue[t] # <<>> =>
              /\ Len(queue[t]) # 0 /\ Head(queue[t]) = queue[t][1]
              /\ Tail(queue[t]) \in Seq(Saves \cup Resets)
              /\ DOMAIN Tail(queue[t]) = 1..(Len(queue[t]) - 1)
              /\ \A i \in 1..(Len(queue[t]) - 1) : Tail(queue[t])[i] = queue[t][i + 1]
PROOF
<1>1. queue[t] \in Seq(Saves \cup Resets)
  BY DEF OrderTypeOK
<1> DEFINE q == queue[t]
<1> HIDE DEF q
<1>2. \A S : q \in Seq(S) =>
        /\ Len(q) \in Nat /\ DOMAIN q = 1..Len(q) /\ \A i \in 1..Len(q) : q[i] \in S
        /\ q # <<>> =>
             /\ Len(q) # 0 /\ Head(q) = q[1] /\ Tail(q) \in Seq(S)
             /\ DOMAIN Tail(q) = 1..(Len(q) - 1)
             /\ \A i \in 1..(Len(q) - 1) : Tail(q)[i] = q[i + 1]
  OBVIOUS
<1>3. QED
  BY <1>1, <1>2, Zenon DEF q

LEMMA Joining ==
  ASSUME OrderTypeOK, NEW t \in Tabs, NEW c \in Saves \cup Resets
  PROVE  LET a == Append(queue[t], c) IN
         /\ a \in Seq(Saves \cup Resets) /\ a # <<>>
         /\ DOMAIN a = 1..(Len(queue[t]) + 1)
         /\ \A i \in 1..Len(queue[t]) : a[i] = queue[t][i]
         /\ a[Len(queue[t]) + 1] = c
         /\ queue[t] # <<>> => Head(a) = Head(queue[t])
PROOF
<1>1. queue[t] \in Seq(Saves \cup Resets)
  BY DEF OrderTypeOK
<1> DEFINE q == queue[t]
<1> HIDE DEF q
<1>2. \A S : q \in Seq(S) /\ c \in S =>
        /\ Append(q, c) \in Seq(S) /\ Append(q, c) # <<>>
        /\ DOMAIN Append(q, c) = 1..(Len(q) + 1)
        /\ \A i \in 1..Len(q) : Append(q, c)[i] = q[i]
        /\ Append(q, c)[Len(q) + 1] = c
        /\ q # <<>> => Head(Append(q, c)) = Head(q)
  OBVIOUS
<1>3. QED
  BY <1>1, <1>2, Zenon DEF q

\* A group on a list stands at its index.
LEMMA IndexIsPlace ==
  ASSUME NEW s, Given(s), NEW g \in ToSet(s)
  PROVE  Index(g, s) \in Nat \ {0} /\ Index(g, s) \in DOMAIN s /\ s[Index(g, s)] = g
PROOF
<1>1. DOMAIN s = 1..Len(s) /\ Len(s) \in Nat
  BY LenProperties DEF Given
<1>2. \E i \in DOMAIN s : s[i] = g
  BY DEF ToSet
<1>3. Index(g, s) \in DOMAIN s /\ s[Index(g, s)] = g
  BY <1>2 DEF Index
<1>4. QED
  BY <1>1, <1>3

\* Shows, of a list that shows what is given.
Showing(shown, l, later, order) ==
  \/ (\A i \in DOMAIN later : ~SavedBy(l, later[i])) /\ shown = order
  \/ \E i \in DOMAIN later :
       /\ SavedBy(l, later[i]) /\ later[i].previous = order
       /\ \A j \in 1..(i - 1) : ~SavedBy(l, later[j])

\* A save goes back to what was shown when it was called.
LEMMA ShowingOn ==
  ASSUME NEW l, NEW q, NEW n \in Nat, NEW a, NEW shown, NEW next, NEW order,
         DOMAIN q = 1..n, DOMAIN a = 1..(n + 1), \A i \in 1..n : a[i] = q[i],
         SavedBy(l, a[n + 1]) => a[n + 1].previous = shown,
         ~SavedBy(l, a[n + 1]) => next = shown,
         Showing(shown, l, q, order)
  PROVE  Showing(next, l, a, order)
PROOF
<1>1. CASE (\A i \in 1..n : ~SavedBy(l, q[i])) /\ shown = order
  <2>1. \A i \in 1..n : ~SavedBy(l, a[i])
    BY <1>1
  <2>2. CASE SavedBy(l, a[n + 1])
    BY <1>1, <2>1, <2>2 DEF Showing
  <2>3. CASE ~SavedBy(l, a[n + 1])
    BY <1>1, <2>1, <2>3 DEF Showing
  <2>4. QED
    BY <2>2, <2>3
<1>2. ASSUME NEW i \in 1..n, SavedBy(l, q[i]), q[i].previous = order,
             \A j \in 1..(i - 1) : ~SavedBy(l, q[j])
      PROVE  Showing(next, l, a, order)
  BY <1>2 DEF Showing
<1>3. QED
  BY <1>1, <1>2 DEF Showing

\* The first call is answered: one that saved nothing of the list leaves it alone, and one
\* that fails with no call of the list behind it puts back what it remembers.
LEMMA ShowingAfter ==
  ASSUME NEW l, NEW q, NEW n \in Nat \ {0}, NEW r, NEW shown, NEW order,
         DOMAIN q = 1..n, DOMAIN r = 1..(n - 1), \A i \in 1..(n - 1) : r[i] = q[i + 1],
         Showing(shown, l, q, order)
  PROVE  /\ ~SavedBy(l, q[1]) => Showing(shown, l, r, order)
         /\ SavedBy(l, q[1]) /\ (\A i \in 2..n : q[i].list # l) =>
              Showing(q[1].previous, l, r, order)
PROOF
<1>1. ASSUME ~SavedBy(l, q[1]) PROVE Showing(shown, l, r, order)
  <2>1. CASE (\A i \in 1..n : ~SavedBy(l, q[i])) /\ shown = order
    BY <2>1 DEF Showing
  <2>2. ASSUME NEW i \in 1..n, SavedBy(l, q[i]), q[i].previous = order,
               \A j \in 1..(i - 1) : ~SavedBy(l, q[j])
        PROVE  Showing(shown, l, r, order)
    <3>1. i - 1 \in 1..(n - 1) /\ r[i - 1] = q[i]
      BY <1>1, <2>2
    <3>2. \A j \in 1..(i - 1 - 1) : ~SavedBy(l, r[j])
      BY <2>2, <3>1
    <3>3. QED
      BY <2>2, <3>1, <3>2 DEF Showing
  <2>3. QED
    BY <2>1, <2>2 DEF Showing
<1>2. ASSUME SavedBy(l, q[1]), \A i \in 2..n : q[i].list # l
      PROVE  Showing(q[1].previous, l, r, order)
  <2>1. q[1].previous = order
    BY <1>2 DEF Showing
  <2>2. \A i \in 1..(n - 1) : ~SavedBy(l, r[i])
    BY <1>2 DEF SavedBy
  <2>3. QED
    BY <2>1, <2>2 DEF Showing
<1>3. QED
  BY <1>1, <1>2

-----------------------------------------------------------------------------
(* What each step does to the order. *)

LEMMA MountStep ==
  ASSUME OrderingAssumption, OrderInv, NEW l \in Lists, Mount(l)
  PROVE  OrderInv'
PROOF
<1>1. PICK s \in Listings : items' = [items EXCEPT ![l] = s]
  BY DEF Mount
<1>2. Given(s)
  BY <1>1, ListingIsGiven DEF OrderInv
<1>3. UNCHANGED <<group, priority, queue, tx, calls, edits, failures, winner>>
  BY DEF Mount
<1>4. OrderTypeOK'
  BY <1>1, <1>2, <1>3 DEF OrderInv, OrderTypeOK, Mount, Given
<1>5. ItemsGiven'
  BY <1>1, <1>2, <1>3 DEF OrderInv, OrderTypeOK, ItemsGiven, Given
<1>6. CallsGiven' /\ TxInv' /\ WinnerInv'
  BY <1>3 DEF OrderInv, CallsGiven, Called, Given, TxInv, TxSound, Order, There, WinnerInv
<1>7. VouchInv'
  <2> SUFFICES ASSUME NEW m \in Lists, vouched'[m]
               PROVE  winner'.order # None /\ Shows(m, queue[TAB[m]], winner.order)'
    BY <1>3 DEF VouchInv
  <2>1. m # l /\ vouched[m]
    BY DEF Mount, OrderInv, OrderTypeOK
  <2>2. items'[m] = items[m]
    BY <1>1, <2>1 DEF OrderInv, OrderTypeOK
  <2>3. QED
    BY <1>3, <2>1, <2>2 DEF OrderInv, VouchInv, Shows
<1>8. QED
  BY <1>4, <1>5, <1>6, <1>7 DEF OrderInv

\* A call joins the queue of its list's tab.
LEMMA EnqueueStep ==
  ASSUME OrderingAssumption, OrderInv, NEW l \in Lists, NEW c \in Saves \cup Resets,
         c.list = l, Called(TAB[l], c), Enqueue(l, c), OrderTypeOK', ItemsGiven',
         SavedBy(l, c) => c.previous = items[l],
         \A m \in Lists : m # l \/ ~SavedBy(l, c) => items'[m] = items[m]
  PROVE  OrderInv'
PROOF
<1> DEFINE t == TAB[l]
           n == Len(queue[t])
<1>1. t \in Tabs /\ UNCHANGED <<group, priority, tx, edits, failures, winner, vouched>>
  BY DEF Enqueue, OrderingAssumption
<1>2. /\ \A u \in Tabs \ {t} : queue'[u] = queue[u]
      /\ queue'[t] = Append(queue[t], c)
  BY <1>1 DEF Enqueue, OrderInv, OrderTypeOK
<1>3. n \in Nat /\ DOMAIN queue[t] = 1..n
  BY <1>1, Waiting DEF OrderInv
<1>4. /\ DOMAIN queue'[t] = 1..(n + 1) /\ queue'[t] # <<>>
      /\ \A i \in 1..n : queue'[t][i] = queue[t][i]
      /\ queue'[t][n + 1] = c
      /\ queue[t] # <<>> => Head(queue'[t]) = Head(queue[t])
  BY <1>1, <1>2, Joining DEF OrderInv
<1> HIDE DEF t, n
<1>5. CallsGiven'
  <2> SUFFICES ASSUME NEW u \in Tabs, NEW i \in DOMAIN queue'[u] PROVE Called(u, queue[u][i])'
    BY DEF CallsGiven
  <2>1. ASSUME NEW d, Called(u, d) PROVE Called(u, d)'
    BY <1>1, <2>1 DEF Called, Given
  <2>2. CASE u # t \/ i # n + 1
    <3>1. queue'[u][i] = queue[u][i] /\ i \in DOMAIN queue[u]
      BY <1>2, <1>3, <1>4, <2>2
    <3>2. QED
      BY <1>1, <3>1 DEF OrderInv, CallsGiven, Called, Given
  <2>3. CASE u = t /\ i = n + 1
    BY <1>1, <1>4, <2>3 DEF Called, Given, t
  <2>4. QED
    BY <2>2, <2>3
<1>6. TxInv'
  <2> SUFFICES ASSUME NEW u \in Tabs, tx[u] # None PROVE TxSound(u)'
    BY <1>1 DEF TxInv
  <2>1. TxSound(u) /\ queue[u] # <<>>
    BY DEF OrderInv, TxInv, TxSound
  <2>2. queue'[u] # <<>> /\ Head(queue'[u]) = Head(queue[u])
    BY <1>2, <1>4, <2>1
  <2>3. QED
    BY <1>1, <2>1, <2>2 DEF TxSound, Order, There
<1>7. VouchInv'
  <2> SUFFICES ASSUME NEW m \in Lists, vouched[m]
               PROVE  winner.order # None /\ Showing(items'[m], m, queue'[TAB[m]], winner.order)
    BY <1>1 DEF VouchInv, Shows, Showing
  <2>1. winner.order # None /\ Showing(items[m], m, queue[TAB[m]], winner.order)
    BY DEF OrderInv, VouchInv, Shows, Showing
  <2>2. CASE TAB[m] # t
    BY <1>2, <2>1, <2>2 DEF t, OrderingAssumption
  <2>3. CASE TAB[m] = t
    <3>1. /\ SavedBy(m, c) => c.previous = items[m]
          /\ ~SavedBy(m, c) => items'[m] = items[m]
      BY DEF SavedBy
    <3>2. QED
      BY <1>3, <1>4, <2>1, <2>3, <3>1, ShowingOn
  <2>4. QED
    BY <2>2, <2>3
<1>8. WinnerInv'
  BY <1>1 DEF OrderInv, WinnerInv, There, Given
<1>9. QED
  BY <1>5, <1>6, <1>7, <1>8 DEF OrderInv

LEMMA PersistStep ==
  ASSUME OrderingAssumption, OrderInv, NEW l \in Lists, Persist(l)
  PROVE  OrderInv'
PROOF
<1>1. PICK next \in Reordered(items[l]) :
        /\ items' = [items EXCEPT ![l] = next]
        /\ Enqueue(l, [list |-> l, order |-> next, previous |-> items[l]])
  BY DEF Persist
<1> DEFINE c == [list |-> l, order |-> next, previous |-> items[l]]
<1>2. Given(items[l]) /\ Given(next)
  BY <1>1, MovedIsGiven DEF OrderInv, ItemsGiven
<1>3. c \in Saves /\ c.list = l /\ c.order = next /\ c.previous = items[l]
  BY <1>2 DEF Saves, Given
<1> HIDE DEF c
<1>4. Enqueue(l, c)
  BY <1>1 DEF c
<1>5. TAB[l] \in Tabs
  BY DEF OrderingAssumption
<1>6. queue' \in [Tabs -> Seq(Saves \cup Resets)]
  BY <1>3, <1>4, <1>5, Joining DEF Enqueue, OrderInv, OrderTypeOK
<1>7. OrderTypeOK'
  BY <1>1, <1>2, <1>4, <1>6 DEF OrderInv, OrderTypeOK, Enqueue, OrderingAssumption, Given
<1>8. ItemsGiven'
  BY <1>1, <1>2, <1>4 DEF OrderInv, OrderTypeOK, ItemsGiven, Given, Enqueue
<1>9. Called(TAB[l], c)
  BY <1>2, <1>3 DEF Called
<1>10. next # None
  BY <1>2 DEF Given, OrderingAssumption
<1>11. \A m \in Lists : m # l \/ ~SavedBy(l, c) => items'[m] = items[m]
  BY <1>1, <1>3, <1>10 DEF SavedBy, OrderInv, OrderTypeOK
<1>12. QED
  BY <1>3, <1>4, <1>7, <1>8, <1>9, <1>11, EnqueueStep

LEMMA ResetStep ==
  ASSUME OrderingAssumption, OrderInv, NEW l \in Lists, ResetOrder(l)
  PROVE  OrderInv'
PROOF
<1> DEFINE c == [list |-> l, order |-> None]
<1>1. c \in Resets /\ c.list = l /\ c.order = None
  BY DEF Resets
<1> HIDE DEF c
<1>2. Enqueue(l, c) /\ items' = items
  BY DEF ResetOrder, c
<1>3. TAB[l] \in Tabs
  BY DEF OrderingAssumption
<1>4. queue' \in [Tabs -> Seq(Saves \cup Resets)]
  BY <1>1, <1>2, <1>3, Joining DEF Enqueue, OrderInv, OrderTypeOK
<1>5. OrderTypeOK'
  BY <1>2, <1>4 DEF OrderInv, OrderTypeOK, Enqueue, OrderingAssumption
<1>6. ItemsGiven' /\ Called(TAB[l], c) /\ ~SavedBy(l, c)
  BY <1>1, <1>2 DEF OrderInv, ItemsGiven, Given, Enqueue, Called, SavedBy
<1>7. QED
  BY <1>1, <1>2, <1>5, <1>6, EnqueueStep

LEMMA TransactStep ==
  ASSUME OrderingAssumption, OrderInv, NEW t \in Tabs, Transact(t)
  PROVE  OrderInv'
PROOF
<1> DEFINE rows == IF Order(t) = None THEN There ELSE There \cap ToSet(Order(t))
<1>1. /\ UNCHANGED <<group, priority, items, queue, calls, edits, failures, winner, vouched>>
      /\ tx' = [tx EXCEPT ![t] = [left |-> rows, held |-> {}]] /\ queue[t] # <<>>
  BY DEF Transact
<1>2. rows \subseteq There /\ There \subseteq Groups
  BY DEF There
<1>3. OrderTypeOK'
  BY <1>1, <1>2 DEF OrderInv, OrderTypeOK
<1>4. ItemsGiven' /\ CallsGiven' /\ WinnerInv' /\ VouchInv'
  BY <1>1 DEF OrderInv, ItemsGiven, CallsGiven, Called, Given, WinnerInv, There, VouchInv, Shows
<1>5. TxInv'
  <2> SUFFICES ASSUME NEW u \in Tabs, tx'[u] # None PROVE TxSound(u)'
    BY DEF TxInv
  <2>1. CASE u = t
    <3>1. tx'[t].left = rows /\ tx'[t].held = {}
      BY <1>1 DEF OrderInv, OrderTypeOK
    <3>2. QED
      BY <1>1, <2>1, <3>1 DEF TxSound, Order, There
  <2>2. CASE u # t
    <3>1. tx'[u] = tx[u] /\ TxSound(u)
      BY <1>1, <2>2 DEF OrderInv, OrderTypeOK, TxInv
    <3>2. QED
      BY <1>1, <3>1 DEF TxSound, Order, There
  <2>3. QED
    BY <2>1, <2>2
<1>6. QED
  BY <1>3, <1>4, <1>5 DEF OrderInv

LEMMA UpdateStep ==
  ASSUME OrderInv, NEW t \in Tabs, Update(t)
  PROVE  OrderInv'
PROOF
<1>1. PICK g \in NextRow(t) :
        /\ Order(t) # None => g \in There
        /\ tx' = [tx EXCEPT ![t] = [left |-> @.left \ {g}, held |-> @.held \cup ({g} \cap There)]]
  BY DEF Update
<1>2. /\ UNCHANGED <<group, priority, items, queue, calls, edits, failures, winner, vouched>>
      /\ tx[t] # None
  BY DEF Update
<1>3. /\ tx[t] \in [left : SUBSET Groups, held : SUBSET Groups]
      /\ g \in tx[t].left /\ There \subseteq Groups
  BY <1>1, <1>2 DEF NextRow, OrderInv, OrderTypeOK, There
<1>4. /\ tx'[t] \in [left : SUBSET Groups, held : SUBSET Groups]
      /\ tx'[t].left = tx[t].left \ {g} /\ tx'[t].held = tx[t].held \cup ({g} \cap There)
      /\ \A u \in Tabs \ {t} : tx'[u] = tx[u]
  BY <1>1, <1>3 DEF OrderInv, OrderTypeOK
<1>5. OrderTypeOK'
  BY <1>1, <1>2, <1>4 DEF OrderInv, OrderTypeOK
<1>6. ItemsGiven' /\ CallsGiven' /\ WinnerInv' /\ VouchInv'
  BY <1>2 DEF OrderInv, ItemsGiven, CallsGiven, Called, Given, WinnerInv, There, VouchInv, Shows
<1>7. TxInv'
  <2> SUFFICES ASSUME NEW u \in Tabs, tx'[u] # None PROVE TxSound(u)'
    BY DEF TxInv
  <2>1. CASE u = t
    <3>1. TxSound(t)
      BY <1>2 DEF OrderInv, TxInv
    <3>2. QED
      BY <1>1, <1>2, <1>3, <1>4, <2>1, <3>1 DEF TxSound, Order, There
  <2>2. CASE u # t
    <3>1. tx'[u] = tx[u] /\ TxSound(u)
      BY <1>4, <2>2 DEF OrderInv, TxInv
    <3>2. QED
      BY <1>2, <3>1 DEF TxSound, Order, There
  <2>3. QED
    BY <2>1, <2>2
<1>8. QED
  BY <1>5, <1>6, <1>7 DEF OrderInv

\* The first call of a tab is answered, and its transaction with it.
LEMMA AnsweredStep ==
  ASSUME OrderInv, NEW t \in Tabs, queue[t] # <<>>, group' = group,
         queue' = [queue EXCEPT ![t] = Tail(@)], tx' = [tx EXCEPT ![t] = None]
  PROVE  /\ queue' \in [Tabs -> Seq(Saves \cup Resets)]
         /\ tx' \in [Tabs -> {None} \cup [left : SUBSET Groups, held : SUBSET Groups]]
         /\ CallsGiven' /\ TxInv'
PROOF
<1>1. /\ queue'[t] = Tail(queue[t]) /\ tx'[t] = None
      /\ \A u \in Tabs \ {t} : queue'[u] = queue[u] /\ tx'[u] = tx[u]
  BY DEF OrderInv, OrderTypeOK
<1>2. /\ Len(queue[t]) \in Nat /\ DOMAIN queue[t] = 1..Len(queue[t])
      /\ queue'[t] \in Seq(Saves \cup Resets)
      /\ DOMAIN queue'[t] = 1..(Len(queue[t]) - 1)
      /\ \A i \in 1..(Len(queue[t]) - 1) : queue'[t][i] = queue[t][i + 1]
  BY <1>1, Waiting DEF OrderInv
<1>3. queue' \in [Tabs -> Seq(Saves \cup Resets)]
  BY <1>1, <1>2 DEF OrderInv, OrderTypeOK
<1>4. tx' \in [Tabs -> {None} \cup [left : SUBSET Groups, held : SUBSET Groups]]
  BY DEF OrderInv, OrderTypeOK
<1>5. CallsGiven'
  <2> SUFFICES ASSUME NEW u \in Tabs, NEW i \in DOMAIN queue'[u] PROVE Called(u, queue[u][i])'
    BY DEF CallsGiven
  <2>1. PICK j \in DOMAIN queue[u] : queue'[u][i] = queue[u][j]
    <3>1. CASE u = t
      <4>1. i + 1 \in DOMAIN queue[t] /\ queue'[t][i] = queue[t][i + 1]
        BY <1>2, <3>1
      <4>2. QED
        BY <3>1, <4>1
    <3>2. CASE u # t
      BY <1>1, <3>2
    <3>3. QED
      BY <3>1, <3>2
  <2>2. QED
    BY <2>1 DEF OrderInv, CallsGiven, Called, Given
<1>6. TxInv'
  <2> SUFFICES ASSUME NEW u \in Tabs, tx'[u] # None PROVE TxSound(u)'
    BY DEF TxInv
  <2>1. u # t /\ tx'[u] = tx[u] /\ queue'[u] = queue[u] /\ TxSound(u)
    BY <1>1 DEF OrderInv, TxInv
  <2>2. QED
    BY <2>1 DEF TxSound, Order, There
<1>7. QED
  BY <1>3, <1>4, <1>5, <1>6

\* Only now are the rows written, each with its place, and the lists of the tab vouched for.
LEMMA CommitStep ==
  ASSUME OrderingAssumption, OrderInv, NEW t \in Tabs, Commit(t)
  PROVE  OrderInv'
PROOF
<1> DEFINE call == Head(queue[t])
           order == Order(t)
           held == tx[t].held
<1>1. /\ tx[t] # None /\ tx[t].left = {}
      /\ queue' = [queue EXCEPT ![t] = Tail(@)] /\ tx' = [tx EXCEPT ![t] = None]
      /\ winner' = [order |-> order, rows |-> held] /\ priority' = Prioritised(t)
      /\ UNCHANGED <<group, items, calls, edits, failures>>
      /\ vouched' = [l \in Lists |-> SavedBy(l, call) /\ Shows(l, Tail(queue[t]), order)]
  BY DEF Commit
<1>2. TxSound(t) /\ queue[t] # <<>> /\ held \subseteq There
  BY <1>1 DEF OrderInv, TxInv, TxSound
<1>3. call \in Saves \cup Resets /\ Called(t, call) /\ order = call.order
  BY <1>2, Waiting DEF OrderInv, CallsGiven, Order
<1>4. order # None => Given(order) /\ order \in Seq(Groups)
  BY <1>3 DEF Called, Given
<1>5. held \subseteq Groups /\ There \subseteq Groups
  BY <1>2 DEF There
<1>6. order # None => There \cap ToSet(order) = held
  BY <1>1, <1>2 DEF TxSound
<1>7. /\ CallsGiven' /\ TxInv' /\ queue' \in [Tabs -> Seq(Saves \cup Resets)]
      /\ tx' \in [Tabs -> {None} \cup [left : SUBSET Groups, held : SUBSET Groups]]
  BY <1>1, <1>2, AnsweredStep
<1>8. \A g \in held :
        priority'[g] = IF order = None THEN None ELSE Index(g, order) - 1
  BY <1>1, <1>5 DEF Prioritised
<1>9. \A g \in held : order # None => Index(g, order) - 1 \in Nat
  <2> SUFFICES ASSUME NEW g \in held, order # None PROVE Index(g, order) - 1 \in Nat
    OBVIOUS
  <2>1. g \in ToSet(order) /\ Given(order)
    BY <1>4, <1>6
  <2>2. Index(g, order) \in Nat \ {0}
    BY <2>1, IndexIsPlace
  <2>3. QED
    BY <2>2
<1>10. priority' \in [Groups -> Nat \cup {None}]
  <2>1. \A g \in Groups \ held : priority'[g] = priority[g]
    BY <1>1 DEF Prioritised
  <2>2. priority' = [g \in Groups |-> priority'[g]]
    BY <1>1 DEF Prioritised
  <2>3. \A g \in Groups : priority'[g] \in Nat \cup {None}
    BY <1>8, <1>9, <2>1 DEF OrderInv, OrderTypeOK
  <2>4. QED
    BY <2>2, <2>3
<1> HIDE DEF call, order, held
<1>11. winner'.order = order /\ winner'.rows = held
  BY <1>1
<1>12. OrderTypeOK'
  <2>1. winner' \in [order : Seq(Groups) \cup {None}, rows : SUBSET Groups]
    BY <1>1, <1>4, <1>5
  <2>2. vouched' \in [Lists -> BOOLEAN]
    BY <1>1
  <2>3. QED
    BY <1>1, <1>7, <1>10, <2>1, <2>2 DEF OrderInv, OrderTypeOK
<1>13. ItemsGiven'
  BY <1>1 DEF OrderInv, ItemsGiven, Given
<1>14. WinnerInv'
  <2>1. There' = There
    BY <1>1 DEF There
  <2>2. order # None => Given(winner.order)'
    BY <1>1, <1>4, <1>11 DEF Given
  <2>4. QED
    BY <1>2, <1>6, <1>8, <1>11, <2>1, <2>2 DEF WinnerInv
<1>15. VouchInv'
  <2> SUFFICES ASSUME NEW l \in Lists, vouched'[l]
               PROVE  winner'.order # None /\ Showing(items'[l], l, queue'[TAB[l]], winner'.order)
    BY DEF VouchInv, Shows, Showing
  <2>1. SavedBy(l, call) /\ Showing(items[l], l, Tail(queue[t]), order)
    BY <1>1 DEF Shows, Showing
  <2>2. TAB[l] = t /\ order # None
    BY <1>3, <2>1 DEF SavedBy, Called
  <2>3. queue'[t] = Tail(queue[t])
    BY <1>1 DEF OrderInv, OrderTypeOK
  <2>4. QED
    BY <1>1, <1>11, <2>1, <2>2, <2>3
<1>16. QED
  BY <1>7, <1>12, <1>13, <1>14, <1>15 DEF OrderInv

\* A failed save puts back what its list showed before, so a list that is vouched for and
\* has no call behind it shows the order committed last again.
LEMMA FailsStep ==
  ASSUME OrderingAssumption, OrderInv, NEW t \in Tabs, queue[t] # <<>>, Fails(t),
         failures' \in 0..MaxFailures
  PROVE  OrderInv'
PROOF
<1> DEFINE call == Head(queue[t])
           q == queue[t]
           n == Len(queue[t])
<1>1. /\ queue' = [queue EXCEPT ![t] = Tail(@)] /\ tx' = [tx EXCEPT ![t] = None]
      /\ items' = IF call.order = None THEN items
                  ELSE [items EXCEPT ![call.list] = call.previous]
      /\ vouched' = [vouched EXCEPT ![call.list] =
           @ /\ (call.order # None => \A i \in 2..n : q[i].list # call.list)]
      /\ UNCHANGED <<group, priority, calls, edits, winner>>
  BY DEF Fails
<1>2. /\ n \in Nat \ {0} /\ DOMAIN q = 1..n /\ call = q[1] /\ call \in Saves \cup Resets
      /\ DOMAIN Tail(q) = 1..(n - 1)
      /\ \A i \in 1..(n - 1) : Tail(q)[i] = q[i + 1]
  BY Waiting DEF OrderInv
<1>3. Called(t, call)
  BY <1>2 DEF OrderInv, CallsGiven
<1>4. call.list \in Lists
  BY <1>2 DEF Saves, Resets
<1>5. call.order # None => Given(call.previous)
  BY <1>3 DEF Called
<1>6. /\ CallsGiven' /\ TxInv' /\ queue' \in [Tabs -> Seq(Saves \cup Resets)]
      /\ tx' \in [Tabs -> {None} \cup [left : SUBSET Groups, held : SUBSET Groups]]
  BY <1>1, AnsweredStep
<1>7. queue'[t] = Tail(q) /\ \A u \in Tabs \ {t} : queue'[u] = queue[u]
  BY <1>1 DEF OrderInv, OrderTypeOK
<1> HIDE DEF call, q, n
<1>8. \A l \in Lists :
        items'[l] = IF call.order # None /\ l = call.list THEN call.previous ELSE items[l]
  BY <1>1, <1>4 DEF OrderInv, OrderTypeOK
<1>9. items' \in [Lists -> Seq(Groups)] /\ vouched' \in [Lists -> BOOLEAN]
  <2>1. items' \in [Lists -> Seq(Groups)]
    BY <1>1, <1>5 DEF OrderInv, OrderTypeOK, Given
  <2>2. \A l \in Lists : vouched'[l] \in BOOLEAN
    BY <1>1, <1>4 DEF OrderInv, OrderTypeOK
  <2>3. vouched' = [l \in Lists |-> vouched'[l]]
    BY <1>1 DEF OrderInv, OrderTypeOK
  <2>4. QED
    BY <2>1, <2>2, <2>3
<1>10. OrderTypeOK'
  BY <1>1, <1>6, <1>9 DEF OrderInv, OrderTypeOK
<1>11. ItemsGiven'
  BY <1>1, <1>5, <1>8 DEF OrderInv, ItemsGiven, Given
<1>12. WinnerInv'
  BY <1>1 DEF OrderInv, WinnerInv, There, Given
<1>13. VouchInv'
  <2> SUFFICES ASSUME NEW l \in Lists, vouched'[l]
               PROVE  winner.order # None /\ Showing(items'[l], l, queue'[TAB[l]], winner.order)
    BY <1>1 DEF VouchInv, Shows, Showing
  <2>1. vouched[l] /\ (l = call.list /\ call.order # None => \A i \in 2..n : q[i].list # l)
    BY <1>1, <1>4 DEF OrderInv, OrderTypeOK
  <2>2. winner.order # None /\ Showing(items[l], l, queue[TAB[l]], winner.order)
    BY <2>1 DEF OrderInv, VouchInv, Shows, Showing
  <2>3. CASE TAB[l] # t
    <3>1. queue'[TAB[l]] = queue[TAB[l]] /\ l # call.list
      BY <1>3, <1>7, <2>3 DEF Called, OrderingAssumption
    <3>2. QED
      BY <1>8, <2>2, <3>1
  <2>4. CASE TAB[l] = t
    <3>1. Showing(items[l], l, q, winner.order)
      BY <2>2, <2>4 DEF q
    <3>2. /\ ~SavedBy(l, q[1]) => Showing(items[l], l, Tail(q), winner.order)
          /\ SavedBy(l, q[1]) /\ (\A i \in 2..n : q[i].list # l) =>
               Showing(q[1].previous, l, Tail(q), winner.order)
      BY <1>2, <3>1, ShowingAfter
    <3>3. SavedBy(l, q[1]) <=> call.order # None /\ l = call.list
      BY <1>2 DEF SavedBy
    <3>4. QED
      BY <1>2, <1>7, <1>8, <2>1, <2>2, <2>4, <3>2, <3>3
  <2>5. QED
    BY <2>3, <2>4
<1>14. QED
  BY <1>6, <1>10, <1>11, <1>12, <1>13 DEF OrderInv

\* A group is created where it was not, or merged away while no transaction holds it.
LEMMA EditStep ==
  ASSUME OrderingAssumption, OrderInv, NEW g \in Groups, CreateGroup(g) \/ MergeAway(g)
  PROVE  OrderInv'
PROOF
<1>1. PICK from \in {"absent", "there"}, to \in {"there", "merged"} :
        /\ Edit(g, from, to)
        /\ from = "absent" => to = "there" /\ winner' = winner
        /\ from = "there" =>
             /\ to = "merged" /\ \A t \in Tabs : ~Locked(t, g)
             /\ winner' = [winner EXCEPT !.rows = @ \ {g}]
  BY DEF CreateGroup, MergeAway
<1>2. /\ UNCHANGED <<items, queue, tx, calls, failures, vouched>>
      /\ group[g] = from /\ group' = [group EXCEPT ![g] = to]
      /\ priority' = [priority EXCEPT ![g] = None]
      /\ edits < MaxEdits /\ edits' = edits + 1
  BY <1>1 DEF Edit
<1>3. /\ group' \in [Groups -> {"absent", "there", "merged"}]
      /\ group'[g] = to /\ \A h \in Groups \ {g} : group'[h] = group[h]
  BY <1>2 DEF OrderInv, OrderTypeOK
<1>4. priority'[g] = None /\ \A h \in Groups \ {g} : priority'[h] = priority[h]
  BY <1>2 DEF OrderInv, OrderTypeOK
<1>5. /\ winner'.order = winner.order
      /\ winner'.rows = IF from = "absent" THEN winner.rows ELSE winner.rows \ {g}
  BY <1>1 DEF OrderInv, OrderTypeOK
<1>6. OrderTypeOK'
  <2>1. winner' \in [order : Seq(Groups) \cup {None}, rows : SUBSET Groups]
    BY <1>1 DEF OrderInv, OrderTypeOK
  <2>2. edits' \in 0..MaxEdits
    BY <1>2 DEF OrderInv, OrderTypeOK, OrderingAssumption
  <2>3. priority' \in [Groups -> Nat \cup {None}]
    BY <1>2 DEF OrderInv, OrderTypeOK
  <2>4. QED
    BY <1>2, <1>3, <2>1, <2>2, <2>3 DEF OrderInv, OrderTypeOK
<1>7. ASSUME NEW s, Given(s)
      PROVE  Given(s)' /\ (from = "absent" => g \notin ToSet(s))
  <2>1. \A i \in DOMAIN s : s[i] \in Groups
    BY <1>7, ElementOfSeq, LenProperties DEF Given
  <2>2. from = "absent" => g \notin ToSet(s)
    BY <1>2, <1>7 DEF Given, ToSet
  <2>3. \A i \in DOMAIN s : group'[s[i]] # "absent"
    BY <1>1, <1>3, <1>7, <2>1 DEF Given
  <2>4. QED
    BY <1>7, <2>2, <2>3 DEF Given
<1>8. There' = IF from = "absent" THEN There \cup {g} ELSE There \ {g}
  BY <1>1, <1>2, <1>3 DEF There
<1>9. ItemsGiven'
  BY <1>2, <1>7 DEF OrderInv, ItemsGiven
<1>10. CallsGiven'
  BY <1>2, <1>7 DEF OrderInv, CallsGiven, Called
<1>11. TxInv'
  <2> SUFFICES ASSUME NEW t \in Tabs, tx[t] # None PROVE TxSound(t)'
    BY <1>2 DEF TxInv
  <2>1. TxSound(t)
    BY DEF OrderInv, TxInv
  <2>2. Order(t) # None => Given(Order(t))
    BY <2>1, Waiting DEF OrderInv, CallsGiven, Called, TxSound, Order
  <2>3. from = "absent" /\ Order(t) # None => g \notin ToSet(Order(t))
    BY <1>7, <2>2
  <2>4. from = "there" => g \notin tx[t].held
    BY <1>1 DEF Locked
  <2>5. Order(t)' = Order(t)
    BY <1>2 DEF Order
  <2>6. QED
    BY <1>2, <1>8, <2>1, <2>3, <2>4, <2>5 DEF TxSound
<1>12. WinnerInv'
  <2>1. winner.order # None => Given(winner.order)
    BY DEF OrderInv, WinnerInv
  <2>2. winner.order # None => Given(winner.order)' /\ (from = "absent" => g \notin ToSet(winner.order))
    BY <1>5, <1>7, <2>1
  <2>3. winner.rows \subseteq There /\ (from = "absent" => g \notin There)
    BY <1>2 DEF OrderInv, WinnerInv, There
  <2>4. winner'.rows = winner.rows \ {g}
    BY <1>1, <1>5, <2>3
  <2>5. winner.rows \subseteq Groups
    BY DEF OrderInv, OrderTypeOK
  <2>6. QED
    BY <1>4, <1>5, <1>8, <2>2, <2>3, <2>4, <2>5 DEF OrderInv, WinnerInv
<1>13. VouchInv'
  BY <1>2, <1>5 DEF OrderInv, VouchInv, Shows
<1>14. QED
  BY <1>6, <1>9, <1>10, <1>11, <1>12, <1>13 DEF OrderInv

LEMMA OrderInvInit ==
  ASSUME OrderingAssumption, OrderInit
  PROVE  OrderInv
PROOF
<1>1. OrderTypeOK
  <2>1. Cardinality(There) \in Nat /\ There \subseteq Groups
    BY FS_Subset, FS_CardinalityType DEF OrderingAssumption, There
  <2>2. \A s \in Listings : s \in Seq(Groups)
    BY <2>1 DEF Listings
  <2>3. items \in [Lists -> Seq(Groups)]
    BY <2>2 DEF OrderInit
  <2>4. queue \in [Tabs -> Seq(Saves \cup Resets)]
    BY DEF OrderInit
  <2>5. QED
    BY <2>1, <2>3, <2>4 DEF OrderInit, OrderTypeOK, OrderingAssumption
<1>2. ItemsGiven
  BY <1>1, ListingIsGiven DEF OrderInit, ItemsGiven
<1>3. CallsGiven /\ TxInv /\ VouchInv
  BY DEF OrderInit, CallsGiven, TxInv, VouchInv
<1>4. WinnerInv
  BY DEF OrderInit, WinnerInv, There
<1>5. QED
  BY <1>1, <1>2, <1>3, <1>4 DEF OrderInv

LEMMA OrderStep ==
  ASSUME OrderingAssumption, OrderInv, [OrderNext]_orderVars
  PROVE  OrderInv'
PROOF
<1>1. CASE UNCHANGED orderVars
  BY <1>1 DEF orderVars, OrderInv, OrderTypeOK, ItemsGiven, CallsGiven, Called, Given, TxInv,
              TxSound, Order, There, WinnerInv, VouchInv, Shows
<1>2. ASSUME NEW l \in Lists, Mount(l) \/ Persist(l) \/ ResetOrder(l) PROVE OrderInv'
  BY <1>2, MountStep, PersistStep, ResetStep
<1>3. ASSUME NEW t \in Tabs, Transact(t) \/ Update(t) \/ Commit(t) PROVE OrderInv'
  BY <1>3, TransactStep, UpdateStep, CommitStep
<1>4. ASSUME NEW t \in Tabs, Rejected(t) \/ RowIsGone(t) \/ Deadlock(t) PROVE OrderInv'
  <2>1. Fails(t)
    BY <1>4 DEF Rejected, RowIsGone, Deadlock
  <2>2. queue[t] # <<>>
    BY <1>4 DEF Rejected, RowIsGone, Deadlock, WaitsFor, OrderInv, TxInv, TxSound
  <2>3. failures' \in 0..MaxFailures
    BY <1>4 DEF Rejected, RowIsGone, Deadlock, OrderInv, OrderTypeOK, OrderingAssumption
  <2>4. QED
    BY <2>1, <2>2, <2>3, FailsStep
<1>5. ASSUME NEW g \in Groups, CreateGroup(g) \/ MergeAway(g) PROVE OrderInv'
  BY <1>5, EditStep
<1>6. QED
  BY <1>1, <1>2, <1>3, <1>4, <1>5 DEF OrderNext

\* No two rows hold one place, so a row is before another by its place.
LEMMA WinnerStands ==
  ASSUME OrderingAssumption, OrderInv, winner.order # None
  PROVE  InOrder(winner.order, winner.rows)
PROOF
<1> DEFINE s == winner.order
<1>1. Given(s) /\ \A g \in winner.rows : g \in ToSet(s) /\ priority[g] = Index(g, s) - 1
  BY DEF OrderInv, WinnerInv
<1>2. DOMAIN s = 1..Len(s) /\ Len(s) \in Nat
  BY <1>1, LenProperties DEF Given
<1> HIDE DEF s
<1>3. ASSUME NEW i \in DOMAIN s, s[i] \in winner.rows
      PROVE  priority[s[i]] = i - 1 /\ priority[s[i]] # None
  <2>1. Index(s[i], s) \in DOMAIN s /\ s[Index(s[i], s)] = s[i]
    BY <1>1, <1>3, IndexIsPlace
  <2>2. Index(s[i], s) = i
    BY <1>1, <2>1 DEF Given
  <2>3. priority[s[i]] = i - 1 /\ i - 1 \in Nat
    BY <1>1, <1>2, <1>3, <2>2
  <2>4. QED
    BY <2>3 DEF OrderingAssumption
<1>4. ASSUME NEW i \in DOMAIN s, NEW j \in DOMAIN s, s[i] \in winner.rows, s[j] \in winner.rows
      PROVE  i < j <=> Before(s[i], s[j])
  <2>1. /\ priority[s[i]] = i - 1 /\ priority[s[i]] # None
        /\ priority[s[j]] = j - 1 /\ priority[s[j]] # None
    BY <1>3, <1>4
  <2>2. CASE i = j
    <3>1. ~(SITEMAP[s[i]] < SITEMAP[s[i]])
      <4>1. s[i] \in Groups
        BY <1>4 DEF OrderInv, OrderTypeOK
      <4>2. QED
        BY <4>1 DEF OrderingAssumption
    <3>2. QED
      BY <1>2, <2>1, <2>2, <3>1 DEF Before
  <2>3. CASE i # j
    BY <1>2, <2>1, <2>3 DEF Before
  <2>4. QED
    BY <2>2, <2>3
<1>5. QED
  BY <1>4 DEF InOrder, s

\* Nothing but what the invariant says is ever stored, shown, queued or locked.
THEOREM OrderTypeCorrect == ASSUME OrderingAssumption PROVE OrderSpec => []OrderTypeOK
PROOF
<1>1. OrderInv => OrderTypeOK
  BY DEF OrderInv
<1>2. QED
  BY <1>1, OrderInvInit, OrderStep, PTL DEF OrderSpec

\* However many people drag the groups of a site at once, and whatever fails, is merged away
\* or created meanwhile, what a save wrote stands as it was ordered until another is committed
\* (reorderGroupsAction, resetGroupOrderAction).
THEOREM OneOrderStands == ASSUME OrderingAssumption PROVE OrderSpec => []OneOrderWins
PROOF
<1>1. ASSUME OrderInv PROVE OneOrderWins
  <2>1. winner.order # None => InOrder(winner.order, winner.rows)
    BY <1>1, WinnerStands
  <2>2. QED
    BY <1>1, <2>1 DEF OrderInv, WinnerInv, OneOrderWins
<1>2. QED
  BY <1>1, OrderInvInit, OrderStep, PTL DEF OrderSpec

\* A list whose save was answered ok shows the groups as they are swept, through every failure
\* of its own calls (useReorder, reorderGroupsAction).
THEOREM ListsAgree == ASSUME OrderingAssumption PROVE OrderSpec => []ScreenAgrees
PROOF
<1>1. ASSUME OrderInv PROVE ScreenAgrees
  <2> SUFFICES ASSUME NEW l \in Lists, vouched[l], ~Awaited(l) PROVE InOrder(items[l], There)
    BY DEF ScreenAgrees
  <2>1. winner.order # None /\ Shows(l, queue[TAB[l]], winner.order)
    BY <1>1 DEF OrderInv, VouchInv
  <2>2. items[l] = winner.order
    BY <2>1 DEF Shows, Awaited, SavedBy
  <2>3. InOrder(winner.order, winner.rows) /\ winner.rows = There \cap ToSet(winner.order)
    BY <1>1, <2>1, WinnerStands DEF OrderInv, WinnerInv
  <2>4. \A i \in DOMAIN winner.order : winner.order[i] \in ToSet(winner.order)
    BY DEF ToSet
  <2>5. QED
    BY <2>2, <2>3, <2>4 DEF InOrder
<1>2. QED
  BY <1>1, OrderInvInit, OrderStep, PTL DEF OrderSpec

-----------------------------------------------------------------------------
(* The order implements SerialOrder. *)

\* What a transaction has read has come, so no group that is still to come is in it.
ReadsHaveCome ==
  \A t \in Tabs : tx[t] # None =>
    \A g \in tx[t].left \cup tx[t].held : g \in Groups /\ group[g] # "absent"

ResetsUnderWay == [t \in Tabs |-> ToReset(t)]

LEMMA ReadsComeStep ==
  ASSUME OrderingAssumption, OrderInv, ReadsHaveCome, [OrderNext]_orderVars
  PROVE  ReadsHaveCome'
PROOF
<1>1. CASE UNCHANGED <<tx, group>>
  BY <1>1 DEF ReadsHaveCome
<1>2. ASSUME NEW t \in Tabs, Transact(t) PROVE ReadsHaveCome'
  <2>1. /\ UNCHANGED group
        /\ tx'[t].left \cup tx'[t].held \subseteq There
        /\ \A u \in Tabs : u # t => tx'[u] = tx[u]
    BY <1>2 DEF Transact, OrderInv, OrderTypeOK
  <2>2. QED
    BY <2>1 DEF ReadsHaveCome, There
<1>3. ASSUME NEW t \in Tabs, Update(t) PROVE ReadsHaveCome'
  <2>1. PICK g \in tx[t].left : tx' = [tx EXCEPT ![t] = [left |-> @.left \ {g}, held |-> @.held \cup ({g} \cap There)]]
    BY <1>3 DEF Update, NextRow
  <2>2. /\ UNCHANGED group /\ tx[t] # None
        /\ tx'[t].left \cup tx'[t].held \subseteq tx[t].left \cup tx[t].held
        /\ \A u \in Tabs : u # t => tx'[u] = tx[u]
    BY <1>3, <2>1 DEF Update, OrderInv, OrderTypeOK
  <2>3. QED
    BY <2>2 DEF ReadsHaveCome
<1>4. ASSUME NEW t \in Tabs, Commit(t) \/ Fails(t), UNCHANGED group PROVE ReadsHaveCome'
  <2>1. tx'[t] = None /\ \A u \in Tabs : u # t => tx'[u] = tx[u]
    BY <1>4 DEF Commit, Fails, OrderInv, OrderTypeOK
  <2>2. QED
    BY <1>4, <2>1 DEF ReadsHaveCome
<1>5. ASSUME NEW g \in Groups, CreateGroup(g) \/ MergeAway(g) PROVE ReadsHaveCome'
  <2>1. UNCHANGED tx /\ \A h \in Groups : group[h] # "absent" => group'[h] # "absent"
    BY <1>5 DEF CreateGroup, MergeAway, Edit, OrderInv, OrderTypeOK
  <2>2. QED
    BY <2>1 DEF ReadsHaveCome
<1>6. ASSUME NEW l \in Lists, Mount(l) \/ Persist(l) \/ ResetOrder(l) PROVE ReadsHaveCome'
  BY <1>1, <1>6 DEF Mount, Persist, ResetOrder, Enqueue
<1>7. ASSUME NEW t \in Tabs, Rejected(t) \/ RowIsGone(t) \/ Deadlock(t) PROVE ReadsHaveCome'
  BY <1>4, <1>7 DEF Rejected, RowIsGone, Deadlock, Fails
<1>8. ASSUME NEW t \in Tabs, Commit(t) PROVE ReadsHaveCome'
  BY <1>4, <1>8 DEF Commit
<1>9. QED
  BY <1>1, <1>2, <1>3, <1>5, <1>6, <1>7, <1>8 DEF OrderNext, orderVars

\* A call that joins leaves the first one where it is.
LEMMA EnqueueCalls ==
  ASSUME OrderInv, NEW l \in Lists, NEW c \in Saves \cup Resets, Enqueue(l, c), TAB[l] \in Tabs
  PROVE  Serial!Call(TAB[l])
PROOF
<1> DEFINE t == TAB[l]
           a == Append(queue[t], c)
<1>1. queue' = [queue EXCEPT ![t] = a] /\ UNCHANGED <<group, priority, tx>>
  BY DEF Enqueue
<1>2. queue'[t] = a /\ \A u \in Tabs : u # t => queue'[u] = queue[u]
  BY <1>1 DEF OrderInv, OrderTypeOK
<1>3. /\ Len(queue[t]) \in Nat /\ DOMAIN a = 1..(Len(queue[t]) + 1)
      /\ a[Len(queue[t]) + 1] = c
      /\ queue[t] # <<>> => Head(a) = Head(queue[t])
  BY Joining, Waiting DEF OrderInv
<1>4. c \in Serial!ToSet(queue'[t])
  <2>1. Len(queue[t]) + 1 \in DOMAIN a
    BY <1>3
  <2>2. QED
    BY <1>2, <1>3, <2>1 DEF Serial!ToSet
<1>5. \A u \in Tabs : ToReset(u)' = ToReset(u)
  <2> SUFFICES ASSUME NEW u \in Tabs PROVE ToReset(u)' = ToReset(u)
    OBVIOUS
  <2>1. There' = There /\ tx'[u] = tx[u]
    BY <1>1 DEF There
  <2>2. tx[u] # None => Order(u)' = Order(u)
    BY <1>2, <1>3 DEF Order, OrderInv, TxInv, TxSound
  <2>3. QED
    BY <2>1, <2>2 DEF ToReset
<1>6. UNCHANGED <<There, priority, ResetsUnderWay>>
  BY <1>1, <1>5 DEF There, ResetsUnderWay
<1>7. QED
  BY <1>1, <1>4, <1>6 DEF Serial!Call, ResetsUnderWay

\* The call is answered: the next of the tab has not begun, and the other tabs stay.
LEMMA AnswerIsOne ==
  ASSUME OrderInv, NEW t \in Tabs, queue[t] # <<>>, UNCHANGED group,
         queue' = [queue EXCEPT ![t] = Tail(@)], tx' = [tx EXCEPT ![t] = None]
  PROVE  Serial!Answered(t)
PROOF
<1>1. There' = There
  BY DEF There
<1>2. tx'[t] = None /\ \A u \in Tabs : u # t => tx'[u] = tx[u] /\ queue'[u] = queue[u]
  BY DEF OrderInv, OrderTypeOK
<1>3. ToReset(t)' = {} /\ \A u \in Tabs : u # t => ToReset(u)' = ToReset(u)
  BY <1>1, <1>2 DEF ToReset, Order
<1>4. ResetsUnderWay' = [ResetsUnderWay EXCEPT ![t] = {}]
  BY <1>3 DEF ResetsUnderWay
<1>5. QED
  BY <1>1, <1>4 DEF Serial!Answered, ResetsUnderWay

LEMMA CommitIsWhole ==
  ASSUME OrderingAssumption, OrderInv, NEW t \in Tabs, Commit(t)
  PROVE  Serial!Save(t) \/ Serial!Reset(t)
PROOF
<1>1. /\ tx[t] # None /\ tx[t].left = {} /\ priority' = Prioritised(t) /\ UNCHANGED group
      /\ queue' = [queue EXCEPT ![t] = Tail(@)] /\ tx' = [tx EXCEPT ![t] = None]
  BY DEF Commit
<1>2. TxSound(t) /\ queue[t] # <<>> /\ tx[t].held \subseteq There
  BY <1>1 DEF OrderInv, TxInv, TxSound
<1>3. Serial!Answered(t)
  BY <1>1, <1>2, AnswerIsOne
<1>4. CASE Order(t) = None
  <2>1. ResetsUnderWay[t] = tx[t].held
    BY <1>1, <1>2, <1>4 DEF ResetsUnderWay, ToReset
  <2>2. priority' = [g \in Groups |-> IF g \in ResetsUnderWay[t] THEN None ELSE priority[g]]
    BY <1>1, <1>4, <2>1 DEF Prioritised
  <2>3. QED
    BY <1>3, <1>4, <2>2 DEF Serial!Reset, Order, ResetsUnderWay
<1>5. CASE Order(t) # None
  <2>1. There \cap ToSet(Order(t)) = tx[t].held
    BY <1>1, <1>2, <1>5 DEF TxSound
  <2>2. \A g : g \in There /\ g \in Serial!ToSet(Order(t)) <=> g \in tx[t].held
    BY <2>1 DEF ToSet, Serial!ToSet
  <2>3. \A g : Serial!PlaceIn(Order(t), g) = Index(g, Order(t)) - 1
    BY DEF Serial!PlaceIn, Index
  <2>4. priority' = [g \in Groups |-> IF g \in There /\ g \in Serial!ToSet(Order(t))
                                      THEN Serial!PlaceIn(Order(t), g) ELSE priority[g]]
    BY <1>1, <1>5, <2>2, <2>3, Zenon DEF Prioritised
  <2>5. QED
    BY <1>3, <1>5, <2>4 DEF Serial!Save, Order
<1>6. QED
  BY <1>4, <1>5

\* To begin a reset reads the groups; an update changes nothing anybody sees.
LEMMA BeginsOrStutters ==
  ASSUME OrderingAssumption, OrderInv, NEW t \in Tabs, Transact(t) \/ Update(t)
  PROVE  Serial!Begin(t) \/ UNCHANGED <<There, priority, queue, ResetsUnderWay>>
PROOF
<1>1. UNCHANGED <<group, priority, queue>> /\ There' = There
  BY DEF Transact, Update, There
<1>2. \A u \in Tabs : u # t => tx'[u] = tx[u] /\ Order(u)' = Order(u)
  BY <1>1 DEF Transact, Update, Order, OrderInv, OrderTypeOK
<1>3. Order(t)' = Order(t) /\ \A u \in Tabs : u # t => ToReset(u)' = ToReset(u)
  BY <1>1, <1>2 DEF Order, ToReset
<1>4. CASE Update(t)
  <2>1. PICK g \in tx[t].left : tx' = [tx EXCEPT ![t] = [left |-> @.left \ {g}, held |-> @.held \cup ({g} \cap There)]]
    BY <1>4 DEF Update, NextRow
  <2>2. tx[t] # None /\ tx'[t] # None
        /\ There \cap (tx'[t].left \cup tx'[t].held) = There \cap (tx[t].left \cup tx[t].held)
    <3>1. tx[t] # None /\ tx'[t] = [left |-> tx[t].left \ {g}, held |-> tx[t].held \cup ({g} \cap There)]
      BY <1>4, <2>1 DEF Update, OrderInv, OrderTypeOK
    <3>2. tx[t].left \subseteq Groups /\ tx[t].held \subseteq Groups
      BY <3>1 DEF OrderInv, OrderTypeOK
    <3>3. tx'[t] # None
      BY <3>1, <3>2 DEF OrderingAssumption, There
    <3>4. QED
      BY <2>1, <3>1, <3>3
  <2>3. ToReset(t)' = ToReset(t)
    BY <1>1, <1>3, <2>2 DEF ToReset
  <2>4. UNCHANGED ResetsUnderWay
    BY <1>3, <2>3 DEF ResetsUnderWay
  <2>5. QED
    BY <1>1, <2>4
<1>5. CASE Transact(t)
  <2>1. tx[t] = None /\ queue[t] # <<>> /\ ToReset(t) = {}
    BY <1>5 DEF Transact, ToReset
  <2>2. CASE Order(t) # None
    <3>1. ToReset(t)' = {}
      BY <1>3, <2>2 DEF ToReset
    <3>2. QED
      BY <1>1, <1>3, <2>1, <3>1 DEF ResetsUnderWay
  <2>3. CASE Order(t) = None
    <3>1. tx'[t] = [left |-> There, held |-> {}]
      BY <1>5, <2>3 DEF Transact, OrderInv, OrderTypeOK
    <3>2. tx'[t] # None
      BY <3>1 DEF OrderingAssumption, There
    <3>3. ToReset(t)' = There
      BY <1>1, <1>3, <2>3, <3>1, <3>2 DEF ToReset
    <3>4. ResetsUnderWay' = [ResetsUnderWay EXCEPT ![t] = There]
      BY <1>3, <3>3 DEF ResetsUnderWay
    <3>5. QED
      BY <1>1, <2>1, <2>3, <3>4 DEF Serial!Begin, Order, ResetsUnderWay
  <2>4. QED
    BY <2>2, <2>3
<1>6. QED
  BY <1>4, <1>5

LEMMA GroupsComeAndGo ==
  ASSUME OrderInv, ReadsHaveCome, NEW g \in Groups, CreateGroup(g) \/ MergeAway(g)
  PROVE  Serial!Come(g) \/ Serial!Go(g)
PROOF
<1>1. /\ priority' = [priority EXCEPT ![g] = None] /\ UNCHANGED <<queue, tx>>
      /\ \A u \in Tabs : Order(u)' = Order(u) /\ tx'[u] = tx[u]
  BY DEF CreateGroup, MergeAway, Edit, Order
<1>2. CASE CreateGroup(g)
  <2>1. group[g] = "absent" /\ group' = [group EXCEPT ![g] = "there"]
    BY <1>2 DEF CreateGroup, Edit
  <2>2. g \notin There /\ There' = There \cup {g}
    BY <2>1 DEF There, OrderInv, OrderTypeOK
  <2>3. \A u \in Tabs : ToReset(u)' = ToReset(u)
    BY <1>1, <2>1, <2>2 DEF ToReset, ReadsHaveCome
  <2>4. QED
    BY <1>1, <2>2, <2>3 DEF Serial!Come, ResetsUnderWay
<1>3. CASE MergeAway(g)
  <2>1. group[g] = "there" /\ group' = [group EXCEPT ![g] = "merged"]
    BY <1>3 DEF MergeAway, Edit
  <2>2. g \in There /\ There' = There \ {g}
    BY <2>1 DEF There, OrderInv, OrderTypeOK
  <2>3. \A u \in Tabs : ToReset(u)' = ToReset(u) \ {g}
    BY <1>1, <2>2 DEF ToReset
  <2>4. QED
    BY <1>1, <2>2, <2>3 DEF Serial!Go
<1>4. QED
  BY <1>2, <1>3

LEMMA StepIsSerial ==
  ASSUME OrderingAssumption, OrderInv, ReadsHaveCome, [OrderNext]_orderVars
  PROVE  [Serial!Next]_(Serial!serialVars)
PROOF
<1> DEFINE Same == UNCHANGED <<There, priority, queue, ResetsUnderWay>>
<1>1. ASSUME UNCHANGED <<group, priority, queue, tx>> PROVE Same
  BY <1>1 DEF There, ResetsUnderWay, ToReset, Order
<1>2. ASSUME NEW l \in Lists, Mount(l) PROVE Same
  BY <1>1, <1>2 DEF Mount
<1>3. ASSUME NEW l \in Lists, Persist(l) \/ ResetOrder(l) PROVE Serial!Next
  <2>1. PICK c \in Saves \cup Resets : Enqueue(l, c)
    <3>1. CASE Persist(l)
      <4>1. PICK next \in Reordered(items[l]) :
              Enqueue(l, [list |-> l, order |-> next, previous |-> items[l]])
        BY <3>1 DEF Persist
      <4>2. next \in Seq(Groups) /\ items[l] \in Seq(Groups)
        BY <4>1, MovedIsGiven DEF OrderInv, ItemsGiven, Given
      <4>3. QED
        BY <4>1, <4>2 DEF Saves
    <3>2. CASE ResetOrder(l)
      BY <3>2 DEF ResetOrder, Resets
    <3>3. QED
      BY <1>3, <3>1, <3>2
  <2>2. TAB[l] \in Tabs
    BY DEF OrderingAssumption
  <2>3. QED
    BY <2>1, <2>2, EnqueueCalls DEF Serial!Next
<1>4. ASSUME NEW t \in Tabs, Transact(t) \/ Update(t) PROVE Serial!Next \/ Same
  BY <1>4, BeginsOrStutters DEF Serial!Next
<1>5. ASSUME NEW t \in Tabs, Commit(t) PROVE Serial!Next
  BY <1>5, CommitIsWhole DEF Serial!Next
<1>6. ASSUME NEW t \in Tabs, Rejected(t) \/ RowIsGone(t) \/ Deadlock(t) PROVE Serial!Next
  <2>1. queue[t] # <<>>
    BY <1>6 DEF Rejected, RowIsGone, Deadlock, WaitsFor, OrderInv, TxInv, TxSound
  <2>2. /\ queue' = [queue EXCEPT ![t] = Tail(@)] /\ tx' = [tx EXCEPT ![t] = None]
        /\ UNCHANGED <<group, priority>>
    BY <1>6 DEF Rejected, RowIsGone, Deadlock, Fails
  <2>3. Serial!Refuse(t)
    BY <2>1, <2>2, AnswerIsOne DEF Serial!Refuse
  <2>4. QED
    BY <2>3 DEF Serial!Next
<1>7. ASSUME NEW g \in Groups, CreateGroup(g) \/ MergeAway(g) PROVE Serial!Next
  BY <1>7, GroupsComeAndGo DEF Serial!Next
<1>8. ASSUME UNCHANGED orderVars PROVE Same
  BY <1>1, <1>8 DEF orderVars
<1>9. Serial!Next \/ Same
  BY <1>2, <1>3, <1>4, <1>5, <1>6, <1>7, <1>8 DEF OrderNext
<1>10. QED
  BY <1>9 DEF Serial!serialVars, ResetsUnderWay

\* Updates row by row, locks, deadlocks, failures and groups that come and go amid them come to
\* calls that are answered in turn and take effect whole, or not at all: Ordering implements
\* SerialOrder (reorderGroupsAction, resetGroupOrderAction).
THEOREM OrderIsSerial == ASSUME OrderingAssumption PROVE OrderSpec => SavesAreWhole
PROOF
<1>1. OrderInit => Serial!Init /\ ReadsHaveCome
  BY DEF OrderInit, Serial!Init, There, ToReset, ReadsHaveCome
<1>2. OrderInv /\ ReadsHaveCome /\ [OrderNext]_orderVars => OrderInv' /\ ReadsHaveCome'
  BY OrderStep, ReadsComeStep
<1>3. OrderInv /\ ReadsHaveCome /\ [OrderNext]_orderVars => [Serial!Next]_(Serial!serialVars)
  BY StepIsSerial
<1>4. QED
  BY <1>1, <1>2, <1>3, OrderInvInit, PTL DEF OrderSpec, SavesAreWhole, Serial!Spec

-----------------------------------------------------------------------------
(* Smallest things. *)

LEMMA LeastNatural ==
  ASSUME NEW D \in SUBSET Nat, D # {}
  PROVE  \E n \in D : \A m \in D : n <= m
PROOF
<1> DEFINE Less == {pair \in Nat \X Nat : pair[1] < pair[2]}
<1>1. IsWellFoundedOn(Less, Nat)
  BY NatLessThanWellFounded DEF OpToRel
<1>2. \A m, n \in Nat : m < n => <<m, n>> \in Less
  OBVIOUS
<1> HIDE DEF Less
<1>3. PICK n \in D : \A m \in D : <<m, n>> \notin Less
  BY <1>1, WFMin
<1>4. ASSUME NEW m \in D PROVE n <= m
  <2>1. m \in Nat /\ n \in Nat /\ ~(m < n)
    BY <1>2, <1>3
  <2> QED BY <2>1
<1> QED BY <1>4

\* Of some finite sets, one is the smallest.
LEMMA SmallestSet ==
  ASSUME NEW B, B # {}, \A s \in B : IsFiniteSet(s)
  PROVE  \E s \in B : \A t \in B : ~(Cardinality(t) < Cardinality(s))
PROOF
<1> DEFINE D == {Cardinality(s) : s \in B}
<1>1. D \in SUBSET Nat /\ D # {}
  BY FS_CardinalityType
<1> HIDE DEF D
<1>2. PICK n \in D : \A m \in D : n <= m
  BY <1>1, LeastNatural
<1>3. PICK s \in B : n = Cardinality(s)
  BY <1>2 DEF D
<1>4. ASSUME NEW t \in B PROVE ~(Cardinality(t) < Cardinality(s))
  <2>1. Cardinality(t) \in D /\ Cardinality(t) \in Nat /\ n \in Nat
    BY <1>1 DEF D
  <2> QED BY <2>1, <1>2, <1>3
<1> QED BY <1>4

\* A finite set that is not empty is smaller without one of its elements.
LEMMA OneLess ==
  ASSUME NEW S, IsFiniteSet(S), NEW x \in S
  PROVE  /\ IsFiniteSet(S \ {x}) /\ Cardinality(S \ {x}) \in Nat
         /\ Cardinality(S) = Cardinality(S \ {x}) + 1 /\ Cardinality(S \ {x}) < Cardinality(S)
PROOF
<1>1. IsFiniteSet(S \ {x}) /\ Cardinality(S \ {x}) = Cardinality(S) - 1
  BY FS_RemoveElement
<1>2. Cardinality(S) \in Nat /\ Cardinality(S \ {x}) \in Nat
  BY <1>1, FS_CardinalityType
<1> QED BY <1>1, <1>2

\* A finite set of integers that is not empty has a largest and a smallest element.
LEMMA HasExtremes ==
  ASSUME NEW S \in SUBSET Int, IsFiniteSet(S), S # {}
  PROVE  /\ Max(S) \in S /\ \A y \in S : Max(S) >= y
         /\ Min(S) \in S /\ \A y \in S : Min(S) <= y
PROOF
<1> DEFINE B == {s \in SUBSET S : s # {} /\ ~(\E x, z \in s : \A y \in s : x >= y /\ z <= y)}
<1>1. B = {}
  <2> SUFFICES ASSUME B # {} PROVE FALSE
    OBVIOUS
  <2>1. \A s \in B : IsFiniteSet(s)
    BY FS_Subset
  <2>2. PICK s \in B : \A t \in B : ~(Cardinality(t) < Cardinality(s))
    <3> HIDE DEF B
    <3> QED BY <2>1, SmallestSet, Zenon
  <2>3. PICK e \in s : TRUE
    BY DEF B
  <2>4. s \ {e} \notin B
    BY <2>1, <2>2, <2>3, OneLess
  <2>5. s \ {e} # {}
    BY <2>3
  <2>6. PICK x \in s \ {e}, z \in s \ {e} : \A y \in s \ {e} : x >= y /\ z <= y
    BY <2>4, <2>5
  <2>7. e \in Int /\ x \in Int /\ z \in Int /\ \A y \in s : y \in Int
    BY <2>3, <2>6
  <2>9. PICK hi \in {e, x} : hi >= e /\ hi >= x
    BY <2>7
  <2>10. PICK lo \in {e, z} : lo <= e /\ lo <= z
    BY <2>7
  <2>11. ASSUME NEW y \in s PROVE hi >= y /\ lo <= y
    <3>1. hi \in Int /\ lo \in Int /\ y \in Int
      BY <2>7, <2>9, <2>10
    <3>2. y = e \/ (x >= y /\ z <= y)
      BY <2>6
    <3>3. e \in Int /\ x \in Int /\ z \in Int /\ hi >= e /\ hi >= x /\ lo <= e /\ lo <= z
      BY <2>7, <2>9, <2>10
    <3> HIDE DEF B
    <3>4. CASE y = e
      BY <3>3, <3>4
    <3>5. CASE x >= y /\ z <= y
      BY ONLY <3>1, <3>3, <3>5
    <3> QED BY <3>2, <3>4, <3>5
  <2>12. hi \in s /\ lo \in s
    BY <2>3, <2>6, <2>9, <2>10
  <2>8. s \in B
    BY <2>2
  <2> QED BY <2>8, <2>11, <2>12
<1>2. \E x, z \in S : \A y \in S : x >= y /\ z <= y
  BY <1>1
<1> QED BY <1>2 DEF Max, Min

-----------------------------------------------------------------------------
(* Sums over finite sets. *)

Pick(s) == CHOOSE x \in s : TRUE

\* f sums up the terms d of every subset of S.
Fold(f, d, S) ==
  f = [s \in SUBSET S |-> IF s = {} THEN 0 ELSE d[Pick(s)] + f[s \ {Pick(s)}]]

LEMMA TotalIsFold ==
  ASSUME NEW d, NEW S PROVE Total(d, S) = (CHOOSE f : Fold(f, d, S))[S]
PROOF BY DEF Total, MapThenSumSet, MapThenFoldSet, Fold, Pick

\* The subsets of at most n elements, and their sums.
Level(S, n) == {s \in SUBSET S : Cardinality(s) <= n}
Partial(f, d, S, n) ==
  /\ f \in [Level(S, n) -> Int]
  /\ \A s \in Level(S, n) : f[s] = IF s = {} THEN 0 ELSE d[Pick(s)] + f[s \ {Pick(s)}]

LEMMA NextLevel ==
  ASSUME NEW D, NEW d \in [D -> Int], NEW S \in SUBSET D, IsFiniteSet(S), NEW n \in Nat, NEW g, Partial(g, d, S, n)
  PROVE  \E f : Partial(f, d, S, n + 1)
PROOF
<1> DEFINE f == [s \in Level(S, n + 1) |-> IF s = {} THEN 0 ELSE d[Pick(s)] + g[s \ {Pick(s)}]]
<1>1. \A s \in SUBSET S : IsFiniteSet(s) /\ Cardinality(s) \in Nat
  BY FS_Subset, FS_CardinalityType
<1>2. Level(S, n) \subseteq Level(S, n + 1)
  BY <1>1 DEF Level
<1>3. \A s \in Level(S, n + 1) :
        s # {} => Pick(s) \in s /\ Pick(s) \in S /\ s \ {Pick(s)} \in Level(S, n)
  <2> SUFFICES ASSUME NEW s \in Level(S, n + 1), s # {}
               PROVE  Pick(s) \in s /\ Pick(s) \in S /\ s \ {Pick(s)} \in Level(S, n)
    OBVIOUS
  <2>1. Pick(s) \in s /\ s \in SUBSET S /\ Cardinality(s) <= n + 1
    BY DEF Pick, Level
  <2>2. Cardinality(s) = Cardinality(s \ {Pick(s)}) + 1 /\ Cardinality(s \ {Pick(s)}) \in Nat
    BY <1>1, <2>1, OneLess
  <2>3. Cardinality(s \ {Pick(s)}) <= n
    BY <1>1, <2>1, <2>2
  <2> QED BY <2>1, <2>3 DEF Level
<1>4. \A s \in Level(S, n) : f[s] = g[s]
  BY <1>2 DEF Partial
<1>5. f \in [Level(S, n + 1) -> Int]
  BY <1>3 DEF Partial
<1>6. \A s \in Level(S, n + 1) : f[s] = IF s = {} THEN 0 ELSE d[Pick(s)] + f[s \ {Pick(s)}]
  BY <1>3, <1>4
<1> QED BY <1>5, <1>6 DEF Partial

LEMMA EveryLevel ==
  ASSUME NEW D, NEW d \in [D -> Int], NEW S \in SUBSET D, IsFiniteSet(S), NEW n \in Nat
  PROVE  \E f : Partial(f, d, S, n)
PROOF
<1> DEFINE B == {k \in Nat : ~(\E f : Partial(f, d, S, k))}
<1> SUFFICES B = {}
  OBVIOUS
<1> SUFFICES ASSUME B # {} PROVE FALSE
  OBVIOUS
<1>1. PICK k \in B : \A j \in B : k <= j
  <2>1. B \in SUBSET Nat
    OBVIOUS
  <2> HIDE DEF B
  <2> QED BY <2>1, LeastNatural
<1>2. CASE k = 0
  <2> DEFINE f == [s \in Level(S, 0) |-> 0]
  <2>1. \A s \in SUBSET S : IsFiniteSet(s) /\ Cardinality(s) \in Nat
    BY FS_Subset, FS_CardinalityType
  <2>2. \A s \in Level(S, 0) : s = {}
    BY <2>1, FS_EmptySet DEF Level
  <2>3. Partial(f, d, S, 0)
    BY <2>2 DEF Partial
  <2> QED BY <1>2, <2>3
<1>3. CASE k # 0
  <2>1. k - 1 \in Nat /\ k - 1 \notin B /\ k = (k - 1) + 1
    BY <1>1, <1>3
  <2>2. PICK g : Partial(g, d, S, k - 1)
    BY <2>1
  <2>3. \E f : Partial(f, d, S, (k - 1) + 1)
    BY <2>1, <2>2, NextLevel
  <2> QED BY <2>1, <2>3
<1> QED BY <1>2, <1>3

LEMMA FoldExists ==
  ASSUME NEW D, NEW d \in [D -> Int], NEW S \in SUBSET D, IsFiniteSet(S)
  PROVE  \E f : Fold(f, d, S) /\ f \in [SUBSET S -> Int]
PROOF
<1>1. Cardinality(S) \in Nat /\ \A s \in SUBSET S : Cardinality(s) <= Cardinality(S)
  BY FS_CardinalityType, FS_Subset
<1>2. Level(S, Cardinality(S)) = SUBSET S
  BY <1>1 DEF Level
<1>3. PICK f : Partial(f, d, S, Cardinality(S))
  BY <1>1, EveryLevel
<1>4. f \in [SUBSET S -> Int]
      /\ \A s \in SUBSET S : f[s] = IF s = {} THEN 0 ELSE d[Pick(s)] + f[s \ {Pick(s)}]
  BY <1>2, <1>3 DEF Partial
<1> QED BY <1>4 DEF Fold

\* Two sums of the same terms agree where both are defined.
LEMMA FoldsAgree ==
  ASSUME NEW S, NEW T, NEW d, NEW f, NEW g, Fold(f, d, S), Fold(g, d, T),
         NEW U \in SUBSET (S \cap T), IsFiniteSet(U)
  PROVE  f[U] = g[U]
PROOF
<1> DEFINE B == {s \in SUBSET U : f[s] # g[s]}
<1> SUFFICES B = {}
  OBVIOUS
<1> SUFFICES ASSUME B # {} PROVE FALSE
  OBVIOUS
<1>1. \A s \in B : IsFiniteSet(s)
  BY FS_Subset
<1>2. PICK s \in B : \A t \in B : ~(Cardinality(t) < Cardinality(s))
  <2> HIDE DEF B
  <2> QED BY <1>1, SmallestSet, Zenon
<1>3. s \in SUBSET S /\ s \in SUBSET T
  BY <1>2
<1>4. /\ f[s] = IF s = {} THEN 0 ELSE d[Pick(s)] + f[s \ {Pick(s)}]
      /\ g[s] = IF s = {} THEN 0 ELSE d[Pick(s)] + g[s \ {Pick(s)}]
  BY <1>3 DEF Fold
<1>5. s # {}
  BY <1>2, <1>4
<1>6. Pick(s) \in s
  BY <1>5 DEF Pick
<1>7. s \ {Pick(s)} \notin B
  BY <1>1, <1>2, <1>6, OneLess
<1>8. f[s \ {Pick(s)}] = g[s \ {Pick(s)}]
  BY <1>7
<1> QED BY <1>2, <1>4, <1>8

\* Totals are numbers, nothing adds up to nothing, and any term can be taken out first.
LEMMA TotalType ==
  ASSUME NEW D, NEW d \in [D -> Int], NEW S \in SUBSET D, IsFiniteSet(S)
  PROVE  Total(d, S) \in Int /\ (S = {} => Total(d, S) = 0)
PROOF
<1>3. PICK f : Fold(f, d, S) /\ f \in [SUBSET S -> Int]
  BY FoldExists
<1>4. Fold(CHOOSE g : Fold(g, d, S), d, S)
  BY <1>3
<1>5. Total(d, S) = f[S]
  BY <1>3, <1>4, TotalIsFold, FoldsAgree
<1>6. S = {} => f[S] = 0
  BY <1>3 DEF Fold
<1> QED BY <1>3, <1>5, <1>6

\* A total is the term of the element that is picked and the total of the rest.
LEMMA TotalStep ==
  ASSUME NEW D, NEW d \in [D -> Int], NEW S \in SUBSET D, IsFiniteSet(S), S # {}
  PROVE  Pick(S) \in S /\ Total(d, S) = d[Pick(S)] + Total(d, S \ {Pick(S)})
PROOF
<1> DEFINE R == S \ {Pick(S)}
<1>1. Pick(S) \in S
  BY DEF Pick
<1>2. R \in SUBSET D /\ R \in SUBSET S /\ IsFiniteSet(R)
  BY FS_Subset
<1>3. PICK f : Fold(f, d, S)
  BY FoldExists
<1>4. PICK g : Fold(g, d, R)
  <2> HIDE DEF R
  <2> QED BY <1>2, FoldExists
<1>5. Fold(CHOOSE h : Fold(h, d, S), d, S) /\ Fold(CHOOSE h : Fold(h, d, R), d, R)
  BY <1>3, <1>4
<1>6. Total(d, S) = f[S]
  BY <1>3, <1>5, TotalIsFold, FoldsAgree
<1>7. Total(d, R) = f[R]
  <2> HIDE DEF R
  <2>1. R \in SUBSET (R \cap S)
    BY <1>2
  <2> QED BY <1>2, <1>3, <1>5, <2>1, TotalIsFold, FoldsAgree
<1>8. f[S] = d[Pick(S)] + f[R]
  BY <1>3 DEF Fold
<1> QED BY <1>1, <1>6, <1>7, <1>8

LEMMA TakeOut ==
  ASSUME NEW D, NEW d \in [D -> Int], NEW S \in SUBSET D, IsFiniteSet(S), NEW x \in S
  PROVE  Total(d, S) = d[x] + Total(d, S \ {x})
PROOF
<1> DEFINE B == {s \in SUBSET S : \E y \in s : Total(d, s) # d[y] + Total(d, s \ {y})}
<1> SUFFICES B = {}
  OBVIOUS
<1> SUFFICES ASSUME B # {} PROVE FALSE
  OBVIOUS
<1>1. \A s \in SUBSET S : IsFiniteSet(s) /\ s \in SUBSET D
  BY FS_Subset
<1>2. PICK s \in B : \A t \in B : ~(Cardinality(t) < Cardinality(s))
  <2>1. \A s \in B : IsFiniteSet(s)
    BY <1>1
  <2> HIDE DEF B
  <2> QED BY <2>1, SmallestSet, Zenon
<1>3. PICK y \in s : Total(d, s) # d[y] + Total(d, s \ {y})
  BY <1>2
<1> DEFINE p == Pick(s)
<1>4. s \in SUBSET S /\ s \in SUBSET D /\ IsFiniteSet(s) /\ s # {}
  BY <1>1, <1>2, <1>3
<1>5. p \in s /\ Total(d, s) = d[p] + Total(d, s \ {p})
  BY <1>4, TotalStep
<1> HIDE DEF p
<1>6. p # y
  BY <1>3, <1>5
<1>7. s \ {p} \notin B /\ s \ {y} \notin B
  BY <1>2, <1>4, <1>5, OneLess
<1>8. Total(d, s \ {p}) = d[y] + Total(d, (s \ {p}) \ {y})
  BY <1>3, <1>4, <1>6, <1>7
<1>9. Total(d, s \ {y}) = d[p] + Total(d, (s \ {y}) \ {p})
  BY <1>4, <1>5, <1>6, <1>7
<1>10. (s \ {y}) \ {p} = (s \ {p}) \ {y} /\ (s \ {y}) \ {p} \in SUBSET S
  BY <1>4
<1>11. d[p] \in Int /\ d[y] \in Int /\ Total(d, (s \ {y}) \ {p}) \in Int
  BY <1>1, <1>3, <1>4, <1>5, <1>10, TotalType
<1> DEFINE rest == Total(d, (s \ {y}) \ {p})
<1>12. Total(d, s \ {p}) = d[y] + rest /\ Total(d, s \ {y}) = d[p] + rest /\ rest \in Int
  BY <1>8, <1>9, <1>10, <1>11, Zenon
<1> HIDE DEF rest
<1>13. d[p] + (d[y] + rest) = d[y] + (d[p] + rest)
  BY <1>11, <1>12
<1> QED BY <1>3, <1>5, <1>12, <1>13

\* A total lies between as many of the smallest terms and as many of the largest.
LEMMA TotalBounds ==
  ASSUME NEW D, NEW d \in [D -> Int], NEW S \in SUBSET D, IsFiniteSet(S),
         NEW lo \in Int, NEW hi \in Int, \A i \in S : lo <= d[i] /\ d[i] <= hi
  PROVE  lo * Cardinality(S) <= Total(d, S) /\ Total(d, S) <= hi * Cardinality(S)
PROOF
<1> DEFINE B == {s \in SUBSET S : ~(lo * Cardinality(s) <= Total(d, s) /\ Total(d, s) <= hi * Cardinality(s))}
<1> SUFFICES B = {}
  OBVIOUS
<1> SUFFICES ASSUME B # {} PROVE FALSE
  OBVIOUS
<1>1. \A s \in SUBSET S : IsFiniteSet(s) /\ s \in SUBSET D
  BY FS_Subset
<1>2. PICK s \in B : \A t \in B : ~(Cardinality(t) < Cardinality(s))
  <2>1. \A s \in B : IsFiniteSet(s)
    BY <1>1
  <2> HIDE DEF B
  <2> QED BY <2>1, SmallestSet, Zenon
<1>3. s \in SUBSET S /\ s \in SUBSET D /\ IsFiniteSet(s)
  BY <1>1, <1>2
<1>4. s # {}
  <2> SUFFICES ASSUME s = {} PROVE FALSE
    OBVIOUS
  <2>1. Total(d, s) = 0 /\ Cardinality(s) = 0
    BY <1>3, TotalType, FS_EmptySet
  <2> QED BY <1>2, <2>1
<1>5. PICK x \in s : TRUE
  BY <1>4
<1> DEFINE c == Cardinality(s \ {x})
           rest == Total(d, s \ {x})
<1>6. c \in Nat /\ Cardinality(s) = c + 1 /\ c < Cardinality(s)
  BY <1>3, OneLess
<1>7. s \ {x} \in SUBSET S /\ s \ {x} \notin B
  BY <1>2, <1>3, <1>6
<1>8. lo * c <= rest /\ rest <= hi * c
  BY <1>7
<1>9. Total(d, s) = d[x] + rest
  BY <1>3, TakeOut
<1>10. rest \in Int
  BY <1>1, <1>7, TotalType
<1>11. d[x] \in Int /\ lo <= d[x] /\ d[x] <= hi
  BY <1>3
<1> HIDE DEF c, rest
<1>12. /\ lo * c \in Int /\ hi * c \in Int
       /\ lo * (c + 1) = lo * c + lo /\ hi * (c + 1) = hi * c + hi
  BY <1>6
<1>13. lo * c + lo <= d[x] + rest /\ d[x] + rest <= hi * c + hi
  BY <1>8, <1>10, <1>11, <1>12
<1> QED BY <1>2, <1>6, <1>9, <1>12, <1>13

-----------------------------------------------------------------------------
(* The results of a page. *)

LEMMA ScoresAre ==
  ASSUME FiguresAssumption, NEW r \in Scores
  PROVE  /\ r.status \in {"ok", "error"}
         /\ r.performance \in Nat \cup {None} /\ r.lcp \in Nat \cup {None}
         /\ r.performance # None => r.status = "ok"
PROOF BY DEF FiguresAssumption, Scores, Failed

LEMMA HistoryIs ==
  ASSUME FiguresTypeOK
  PROVE  /\ Len(history) \in Nat /\ DOMAIN history = 1..Len(history)
         /\ \A i \in DOMAIN history : history[i] \in Scores
PROOF
<1>1. history \in Seq(Scores)
  BY DEF FiguresTypeOK
<1>2. Len(history) \in Nat /\ DOMAIN history = 1..Len(history)
  BY <1>1, LenProperties
<1> QED BY <1>1, <1>2, ElementOfSeq

\* A sequence without one of its elements.
LEMMA WithoutOne ==
  ASSUME NEW R, NEW s \in Seq(R), NEW i \in 1..Len(s)
  PROVE  LET r == SubSeq(s, 1, i - 1) \o SubSeq(s, i + 1, Len(s))
         IN r \in Seq(R) /\ Len(r) = Len(s) - 1
PROOF
<1> DEFINE a == SubSeq(s, 1, i - 1)
           b == SubSeq(s, i + 1, Len(s))
<1>1. Len(s) \in Nat /\ \A k \in 1..Len(s) : s[k] \in R
  BY LenProperties, ElementOfSeq
<1>2. a \in Seq(R) /\ Len(a) = i - 1
  <2>1. 1 \in Int /\ i - 1 \in Int /\ \A k \in 1..(i - 1) : s[k] \in R
    BY <1>1
  <2> QED BY <2>1, SubSeqProperties
<1>3. b \in Seq(R) /\ Len(b) = Len(s) - i
  <2>1. i + 1 \in Int /\ Len(s) \in Int /\ \A k \in (i + 1)..Len(s) : s[k] \in R
    BY <1>1
  <2> QED BY <1>1, <2>1, SubSeqProperties
<1>4. a \o b \in Seq(R) /\ Len(a \o b) = Len(s) - 1
  <2> HIDE DEF a, b
  <2>1. a \o b \in Seq(R) /\ Len(a \o b) = Len(a) + Len(b)
    BY <1>2, <1>3, ConcatProperties
  <2> QED BY <1>1, <1>2, <1>3, <2>1
<1> QED BY <1>4

LEMMA FiguresInitTypes ==
  ASSUME FiguresAssumption, FiguresInit
  PROVE  FiguresTypeOK
PROOF BY EmptySeq DEF FiguresAssumption, FiguresInit, FiguresTypeOK

LEMMA FiguresNextTypes ==
  ASSUME FiguresAssumption, FiguresTypeOK, [FiguresNext]_history
  PROVE  FiguresTypeOK'
PROOF
<1> USE DEF FiguresTypeOK
<1>1. CASE \E r \in Scores : Record(r)
  <2>1. PICK r \in Scores : Record(r)
    BY <1>1
  <2>2. Len(history') = Len(history) + 1 /\ history' \in Seq(Scores)
    BY <2>1 DEF Record
  <2>3. Len(history) \in Nat /\ Len(history) < MaxRows
    BY <2>1, HistoryIs DEF Record
  <2>4. Len(history') <= MaxRows
    BY <2>2, <2>3 DEF FiguresAssumption
  <2> QED BY <2>2, <2>4
<1>2. CASE \E i \in DOMAIN history : Discard(i)
  <2>1. PICK i \in 1..Len(history) : Discard(i)
    BY <1>2, HistoryIs
  <2>2. history' \in Seq(Scores) /\ Len(history') = Len(history) - 1
    <3>1. history \in Seq(Scores)
      OBVIOUS
    <3>2. LET r == SubSeq(history, 1, i - 1) \o SubSeq(history, i + 1, Len(history))
          IN r \in Seq(Scores) /\ Len(r) = Len(history) - 1
      BY <3>1, WithoutOne, Zenon
    <3> QED BY <2>1, <3>2 DEF Discard
  <2>3. Len(history) \in Nat /\ Len(history) <= MaxRows
    BY HistoryIs
  <2> QED BY <2>2, <2>3 DEF FiguresAssumption
<1>3. CASE UNCHANGED history
  BY <1>3
<1> QED BY <1>1, <1>2, <1>3 DEF FiguresNext

\* The history keeps results of what a run may measure, never more than are kept.
THEOREM FiguresTypesHold ==
  ASSUME FiguresAssumption
  PROVE  FiguresSpec => []FiguresTypeOK
PROOF
<1>1. FiguresInit => FiguresTypeOK
  BY FiguresInitTypes
<1>2. FiguresTypeOK /\ [FiguresNext]_history => FiguresTypeOK'
  BY FiguresNextTypes
<1> QED BY <1>1, <1>2, PTL DEF FiguresSpec

-----------------------------------------------------------------------------
(* Regressions. *)

LEMMA SnapshotIs ==
  ASSUME FiguresAssumption, FiguresTypeOK, NEW i
  PROVE  Snapshot(i).performance \in Nat \cup {None} /\ Snapshot(i).lcp \in Nat \cup {None}
PROOF
<1>1. Snapshot(i) \in Scores
  BY HistoryIs DEF Snapshot, Scores
<1> QED BY <1>1, ScoresAre

LEMMA FlagsEarned ==
  ASSUME FiguresAssumption, FiguresTypeOK
  PROVE  FlagsAreEarned
PROOF
<1> SUFFICES ASSUME NEW i \in Ok, Snapshot(i).performance # None
             PROVE  LET before == Previous(i)
                        score(k) == Snapshot(k).performance
                        earlier == {score(before), score(Previous(before))} \ {None}
                    IN /\ (\A s \in earlier : s - score(i) < SUSTAINED_DROP) => ScoreFlag(i) = "none"
                       /\ ScoreFlag(before) = "single-run-drop"
                            /\ score(Previous(before)) - score(i) >= SUSTAINED_DROP
                          => ScoreFlag(i) # "none"
  BY Zenon DEF FlagsAreEarned
<1> DEFINE a == Previous(i)
           b == Previous(a)
           now == Snapshot(i).performance
           before == Snapshot(a).performance
           older == Snapshot(b).performance
<1>1. now \in Nat /\ before \in Nat \cup {None} /\ older \in Nat \cup {None} /\ None \notin Int
  BY SnapshotIs DEF FiguresAssumption
<1>2. ScoreFlag(i) = IF None \in {now, before} THEN "none"
                     ELSE IF before - now >= 20 THEN "single-run-drop"
                     ELSE IF older # None /\ older - before >= 10 /\ older - now >= 10 THEN "sustained-drop"
                     ELSE "none"
  BY DEF ScoreFlag, Sustained, SUSTAINED_DROP, SINGLE_RUN_DROP
<1>3. ScoreFlag(a) = "single-run-drop" => None \notin {before, older} /\ older - before >= 20
  BY DEF ScoreFlag, SINGLE_RUN_DROP
<1> HIDE DEF now, before, older
<1>4. (\A s \in {before, older} \ {None} : s - now < 10) => ScoreFlag(i) = "none"
  BY <1>1, <1>2
<1>5. ScoreFlag(a) = "single-run-drop" /\ older - now >= 10 => ScoreFlag(i) # "none"
  BY <1>1, <1>2, <1>3
<1> QED BY <1>4, <1>5 DEF now, before, older, SUSTAINED_DROP

LEMMA WorseningTold ==
  ASSUME FiguresAssumption, FiguresTypeOK
  PROVE  WorseningIsTold
PROOF
<1> SUFFICES ASSUME NEW i \in Ok, Vitals(i)
             PROVE  LET rank(k) == Rank(Snapshot(k))
                        worse(k) == rank(k) > rank(Previous(Previous(i)))
                    IN Downgraded(i) <=> worse(i) /\ worse(Previous(i)) /\ rank(i) >= rank(Previous(i))
  BY Zenon DEF WorseningIsTold
<1> DEFINE now == Rank(Snapshot(i))
           before == Rank(Snapshot(Previous(i)))
           older == Rank(Snapshot(Previous(Previous(i))))
<1>1. now \in Nat /\ before \in Nat /\ older \in Nat
  BY DEF Rank, BUCKET_RANK, bucketOf
<1>2. Downgraded(i) <=> before > older /\ now >= before
  BY DEF Downgraded
<1> HIDE DEF now, before, older
<1>3. Downgraded(i) <=> now > older /\ before > older /\ now >= before
  BY <1>1, <1>2
<1> QED BY <1>3 DEF now, before, older

-----------------------------------------------------------------------------
(* The changes of a history. *)

GoodInHistory == {i \in InHistory : Good(i)}

LEMMA Indices ==
  ASSUME FiguresAssumption, FiguresTypeOK
  PROVE  /\ GoodInHistory \in SUBSET (1..Len(history)) /\ IsFiniteSet(GoodInHistory)
         /\ GoodInHistory \in SUBSET Int
         /\ \A i \in GoodInHistory : history[i].performance \in Int
         /\ \A i \in GoodInHistory : history[i].status = "ok"
PROOF
<1>1. GoodInHistory \in SUBSET (1..Len(history)) /\ Len(history) \in Nat
  BY HistoryIs DEF GoodInHistory, InHistory
<1>2. IsFiniteSet(GoodInHistory)
  <2>1. IsFiniteSet(1..Len(history))
    BY <1>1, FS_Interval
  <2> QED BY <1>1, <2>1, FS_Subset
<1>3. ASSUME NEW i \in GoodInHistory PROVE history[i].performance \in Int /\ history[i].status = "ok"
  <2>1. history[i] \in Scores /\ history[i].performance # None
    BY <1>1, HistoryIs DEF GoodInHistory, Good
  <2> QED BY <2>1, ScoresAre
<1> QED BY <1>1, <1>2, <1>3

\* The good scores shown before one, of which the newest counts.
LEMMA Earlier ==
  ASSUME FiguresAssumption, FiguresTypeOK, NEW i \in GoodInHistory
  PROVE  LET before == {j \in GoodInHistory : j < i}
         IN /\ performanceDelta(i)
                 = IF before = {} THEN None ELSE history[i].performance - history[Max(before)].performance
            /\ before # {} => /\ Max(before) \in before /\ \A j \in before : j <= Max(before)
                              /\ performanceDelta(i) \in Int
PROOF
<1> DEFINE before == {j \in GoodInHistory : j < i}
<1>1. before = {j \in InHistory : j < i /\ Good(j)} /\ Good(i)
  BY DEF GoodInHistory
<1>2. performanceDelta(i)
        = IF before = {} THEN None ELSE history[i].performance - history[Max(before)].performance
  BY <1>1 DEF performanceDelta
<1>3. before \in SUBSET Int /\ IsFiniteSet(before)
  BY Indices, FS_Subset
<1>4. before # {} => Max(before) \in before /\ \A j \in before : Max(before) >= j
  <2> HIDE DEF before
  <2> QED BY <1>3, HasExtremes
<1>5. before # {} => Max(before) \in Int /\ \A j \in before : j <= Max(before)
  BY <1>3, <1>4
<1>6. before # {} => performanceDelta(i) \in Int
  BY <1>2, <1>4, Indices
<1> QED BY <1>2, <1>4, <1>5, <1>6

StepsTold == {i \in GoodInHistory : performanceDelta(i) # None}
Changes == [i \in StepsTold |-> performanceDelta(i)]

LEMMA ChangesAre ==
  ASSUME FiguresAssumption, FiguresTypeOK
  PROVE  Changes \in [StepsTold -> Int] /\ IsFiniteSet(StepsTold)
PROOF
<1>1. \A i \in StepsTold : performanceDelta(i) \in Int
  BY Earlier DEF StepsTold
<1> QED BY <1>1, Indices, FS_Subset DEF Changes, StepsTold

\* The changes up to a good score add up to what it differs from the first.
LEMMA ChangesTelescope ==
  ASSUME FiguresAssumption, FiguresTypeOK, NEW last \in GoodInHistory
  PROVE  Total(Changes, {i \in StepsTold : i <= last})
           = history[last].performance - history[Min(GoodInHistory)].performance
PROOF
<1> DEFINE perf(k) == history[k].performance
           first == Min(GoodInHistory)
           Upto(k) == {i \in StepsTold : i <= k}
           B == {k \in GoodInHistory : Total(Changes, Upto(k)) # perf(k) - perf(first)}
<1> SUFFICES B = {}
  OBVIOUS
<1> SUFFICES ASSUME B # {} PROVE FALSE
  OBVIOUS
<1>1. PICK k \in B : \A j \in B : k <= j
  <2>1. B \in SUBSET Nat
    BY Indices, HistoryIs
  <2> HIDE DEF B
  <2> QED BY <2>1, LeastNatural
<1>2. k \in GoodInHistory /\ k \in Int /\ perf(k) \in Int
  BY <1>1, Indices
<1>3. first \in GoodInHistory /\ (\A j \in GoodInHistory : first <= j) /\ perf(first) \in Int
  BY <1>2, Indices, HasExtremes
<1> DEFINE before == {j \in GoodInHistory : j < k}
<1>4. CASE before = {}
  <2>1. k = first
    <3>1. first \in Int /\ ~(first < k) /\ first <= k
      BY <1>2, <1>3, <1>4, Indices
    <3> QED BY <1>2, <3>1
  <2>2. performanceDelta(k) = None
    BY <1>2, <1>4, Earlier
  <2>3. Upto(k) = {}
    <3> SUFFICES ASSUME NEW i \in Upto(k) PROVE FALSE
      OBVIOUS
    <3>1. i \in GoodInHistory /\ i \in Int /\ i <= k /\ performanceDelta(i) # None
      BY Indices DEF StepsTold
    <3>2. i = k
      BY <1>2, <1>3, <2>1, <3>1
    <3> QED BY <2>2, <3>1, <3>2
  <2>4. Total(Changes, Upto(k)) = 0
    <3>1. Upto(k) \in SUBSET StepsTold /\ IsFiniteSet(Upto(k))
      BY <2>3, FS_EmptySet
    <3> HIDE DEF Upto
    <3> QED BY <2>3, <3>1, ChangesAre, TotalType
  <2> QED BY <1>1, <1>2, <2>1, <2>4
<1>5. CASE before # {}
  <2> DEFINE j == Max(before)
  <2>1. /\ j \in before /\ \A i \in before : i <= j
        /\ performanceDelta(k) = perf(k) - perf(j)
        /\ performanceDelta(k) \in Int
    BY <1>2, <1>5, Earlier
  <2> HIDE DEF j
  <2>2. j \in GoodInHistory /\ j < k /\ j \in Int /\ perf(j) \in Int
    BY <2>1, Indices
  <2>3. j \notin B
    BY <1>1, <1>2, <2>2
  <2>4. Total(Changes, Upto(j)) = perf(j) - perf(first)
    BY <2>2, <2>3
  <2>5. k \in Upto(k) /\ Changes[k] = perf(k) - perf(j)
    BY <1>2, <2>1 DEF Changes, StepsTold, FiguresAssumption
  <2>6. Upto(k) \ {k} = Upto(j)
    <3>1. ASSUME NEW i \in Upto(k) \ {k} PROVE i \in Upto(j)
      <4>1. i \in GoodInHistory /\ i \in Int /\ i < k
        BY <1>2, Indices DEF StepsTold
      <4> QED BY <2>1, <4>1
    <3>2. ASSUME NEW i \in Upto(j) PROVE i \in Upto(k) \ {k}
      <4>1. i \in StepsTold /\ i \in Int /\ i <= j
        BY Indices DEF StepsTold
      <4> QED BY <1>2, <2>2, <4>1
    <3> QED BY <3>1, <3>2
  <2>7. Total(Changes, Upto(k)) = Changes[k] + Total(Changes, Upto(j))
    <3>1. Upto(k) \in SUBSET StepsTold /\ IsFiniteSet(Upto(k))
      BY ChangesAre, FS_Subset
    <3> HIDE DEF Upto
    <3>2. Total(Changes, Upto(k)) = Changes[k] + Total(Changes, Upto(k) \ {k})
      BY <2>5, <3>1, ChangesAre, TakeOut
    <3> QED BY <2>6, <3>2
  <2>8. (perf(k) - perf(j)) + (perf(j) - perf(first)) = perf(k) - perf(first)
    BY <1>2, <1>3, <2>2
  <2> QED BY <1>1, <2>4, <2>5, <2>7, <2>8
<1> QED BY <1>4, <1>5

LEMMA ChangesAdd ==
  ASSUME FiguresAssumption, FiguresTypeOK
  PROVE  ChangesAddUp
PROOF
<1> DEFINE n == Len(history)
<1>1. ASSUME GoodInHistory # {}
      PROVE  Total(Changes, StepsTold)
               = history[Max(GoodInHistory)].performance - history[Min(GoodInHistory)].performance
  <2>1. Max(GoodInHistory) \in GoodInHistory /\ \A i \in GoodInHistory : Max(GoodInHistory) >= i
    BY <1>1, Indices, HasExtremes
  <2>2. {i \in StepsTold : i <= Max(GoodInHistory)} = StepsTold
    BY <2>1, Indices DEF StepsTold
  <2> QED BY <2>1, <2>2, ChangesTelescope
<1>2. ASSUME n > 0, Good(n), previousScores # None, performanceDelta(n) # None
      PROVE  performanceDelta(n) = history[n].performance - previousScores
  <2> DEFINE before == {i \in 1..n-1 : history[i].status = "ok"}
             earlier == {j \in GoodInHistory : j < n}
  <2>1. n \in Nat /\ n \in InHistory /\ n \in GoodInHistory
    BY <1>2, HistoryIs DEF GoodInHistory, InHistory, FiguresAssumption
  <2>2. before # {} /\ previousScores = history[Max(before)].performance
    BY <1>2 DEF previousScores
  <2>3. earlier # {} /\ performanceDelta(n) = history[n].performance - history[Max(earlier)].performance
        /\ Max(earlier) \in earlier /\ \A j \in earlier : j <= Max(earlier)
    BY <1>2, <2>1, Earlier
  <2>4. Max(before) \in before /\ \A j \in before : Max(before) >= j
    <3>1. before \in SUBSET Int /\ IsFiniteSet(before)
      <4>1. IsFiniteSet(1..n-1) /\ before \in SUBSET (1..n-1)
        BY <2>1, FS_Interval
      <4> QED BY <2>1, <4>1, FS_Subset
    <3> HIDE DEF before
    <3> QED BY <2>2, <3>1, HasExtremes
  <2> DEFINE p == Max(before)
             q == Max(earlier)
  <2>5. p \in before /\ q \in earlier /\ p \in 1..n-1 /\ q \in GoodInHistory /\ q < n
    BY <2>3, <2>4
  <2> HIDE DEF p, q
  <2>6. q \in before
    BY <2>1, <2>5, Indices
  <2>7. p >= q
    BY <2>4, <2>6 DEF p
  <2>8. p \in GoodInHistory
    <3>1. Good(p)
      BY <1>2, <2>2 DEF Good, p
    <3>2. p \in InHistory
      <4>1. q > n - limit /\ q \in Int
        BY <2>5, Indices DEF GoodInHistory, InHistory
      <4> QED BY <2>1, <2>5, <2>7, <4>1, HistoryIs DEF InHistory, FiguresAssumption
    <3> QED BY <3>1, <3>2 DEF GoodInHistory
  <2>9. p <= q
    BY <2>1, <2>3, <2>5, <2>8 DEF q
  <2>10. p = q
    BY <2>1, <2>5, <2>6, <2>7, <2>9
  <2> QED BY <2>2, <2>3, <2>10 DEF p, q
<1> QED BY <1>1, <1>2 DEF ChangesAddUp, GoodInHistory, StepsTold, Changes

-----------------------------------------------------------------------------
(* The card of a group. *)

ScoreOf == [i \in Scored |-> history[i].performance]
Performances == {history[i].performance : i \in Scored}

LEMMA ScoredAre ==
  ASSUME FiguresAssumption, FiguresTypeOK
  PROVE  /\ Scored \in SUBSET (1..Len(history)) /\ IsFiniteSet(Scored)
         /\ Cardinality(Scored) \in Nat /\ Cardinality(Scored) <= Len(history)
         /\ \A i \in Scored : history[i].performance \in Nat
         /\ ScoreOf \in [Scored -> Int] /\ Sum = Total(ScoreOf, Scored) /\ Sum \in Int
PROOF
<1>1. Scored \in SUBSET (1..Len(history)) /\ Len(history) \in Nat
  BY HistoryIs DEF Scored
<1>2. IsFiniteSet(1..Len(history)) /\ Cardinality(1..Len(history)) = Len(history)
  BY <1>1, FS_Interval
<1>3. IsFiniteSet(Scored) /\ Cardinality(Scored) <= Len(history)
  BY <1>1, <1>2, FS_Subset
<1>4. Cardinality(Scored) \in Nat
  BY <1>3, FS_CardinalityType
<1>5. \A i \in Scored : history[i].performance \in Nat
  BY <1>1, HistoryIs, ScoresAre DEF Scored, Good
<1>6. ScoreOf \in [Scored -> Int]
  BY <1>5 DEF ScoreOf
<1>7. Sum = Total(ScoreOf, Scored)
  BY DEF Sum, ScoreOf
<1>8. Total(ScoreOf, Scored) \in Int
  BY <1>3, <1>6, TotalType
<1> QED BY <1>1, <1>3, <1>4, <1>5, <1>6, <1>7, <1>8

\* Each good score is in one band.
LEMMA EveryPageInABand ==
  ASSUME FiguresAssumption, FiguresTypeOK
  PROVE  InBand("pass") + InBand("average") + InBand("fail") = Cardinality(Scored)
PROOF
<1> DEFINE Band(b) == {i \in Scored : scoreBand(history[i].performance) = b}
           P == Band("pass")
           A == Band("average")
           F == Band("fail")
<1>1. P \in SUBSET Scored /\ A \in SUBSET Scored /\ F \in SUBSET Scored
  OBVIOUS
<1>2. P \cap A = {} /\ (P \cup A) \cap F = {}
  OBVIOUS
<1>3. (P \cup A) \cup F = Scored
  BY DEF scoreBand
<1>4. InBand("pass") = Cardinality(P) /\ InBand("average") = Cardinality(A) /\ InBand("fail") = Cardinality(F)
  BY DEF InBand
<1> HIDE DEF P, A, F
<1>5. IsFiniteSet(P) /\ IsFiniteSet(A) /\ IsFiniteSet(F) /\ IsFiniteSet(P \cup A)
  BY <1>1, ScoredAre, FS_Subset, FS_Union
<1>6. Cardinality(P \cup A) = Cardinality(P) + Cardinality(A) - Cardinality(P \cap A)
  BY <1>5, FS_Union
<1>7. Cardinality((P \cup A) \cup F) = Cardinality(P \cup A) + Cardinality(F) - Cardinality((P \cup A) \cap F)
  BY <1>5, FS_Union
<1>8. Cardinality({}) = 0
  BY FS_EmptySet
<1>9. Cardinality(P) \in Nat /\ Cardinality(A) \in Nat /\ Cardinality(F) \in Nat /\ Cardinality(P \cup A) \in Nat
  BY <1>5, FS_CardinalityType
<1>10. /\ Cardinality(P \cup A) = Cardinality(P) + Cardinality(A) - 0
       /\ Cardinality(Scored) = Cardinality(P \cup A) + Cardinality(F) - 0
  BY <1>2, <1>3, <1>6, <1>7, <1>8
<1> QED BY <1>4, <1>9, <1>10

LEMMA Quotient ==
  ASSUME NEW a \in Int, NEW b \in Int, b > 0
  PROVE  a \div b \in Int /\ b * (a \div b) <= a /\ a < b * (a \div b) + b
PROOF OBVIOUS

LEMMA WorstAndBest ==
  ASSUME FiguresAssumption, FiguresTypeOK, Scored # {}
  PROVE  /\ Min(Performances) \in Int /\ Max(Performances) \in Int
         /\ \A i \in Scored : Min(Performances) <= ScoreOf[i] /\ ScoreOf[i] <= Max(Performances)
PROOF
<1>1. ScoreOf \in Surjection(Scored, Performances)
  BY DEF ScoreOf, Performances, Surjection
<1>2. IsFiniteSet(Performances)
  BY <1>1, ScoredAre, FS_Surjection
<1>3. Performances \in SUBSET Int /\ Performances # {}
  BY ScoredAre DEF Performances
<1>4. /\ Min(Performances) \in Performances /\ Max(Performances) \in Performances
      /\ \A y \in Performances : Min(Performances) <= y /\ Max(Performances) >= y
  BY <1>2, <1>3, HasExtremes
<1>5. ASSUME NEW i \in Scored PROVE Min(Performances) <= ScoreOf[i] /\ ScoreOf[i] <= Max(Performances)
  <2>1. ScoreOf[i] \in Performances
    BY DEF ScoreOf, Performances
  <2>2. ScoreOf[i] \in Int /\ Max(Performances) \in Int
    BY <1>3, <1>4, <2>1
  <2> QED BY <1>4, <2>1, <2>2
<1> QED BY <1>3, <1>4, <1>5

\* The quotient rounded to the nearest: between the bounds of the terms, half a point off at most.
LEMMA Rounded ==
  ASSUME NEW s \in Int, NEW c \in Int, c > 0, NEW lo \in Int, NEW hi \in Int,
         lo * c <= s, s <= hi * c, NEW m \in Int, m = (2 * s + c) \div (2 * c)
  PROVE  /\ lo <= m /\ m <= hi
         /\ -c < 2 * (m * c - s) /\ 2 * (m * c - s) <= c
PROOF
<1>1. (2 * c) * m <= 2 * s + c /\ 2 * s + c < (2 * c) * m + 2 * c
  <2>1. 2 * s + c \in Int /\ 2 * c \in Int /\ 2 * c > 0
    OBVIOUS
  <2> QED BY <2>1, Quotient
<1> DEFINE mc == m * c
<1>2. mc \in Int /\ (2 * c) * m = 2 * mc
  OBVIOUS
<1>3. 2 * mc <= 2 * s + c /\ 2 * s + c < 2 * mc + 2 * c
  BY <1>1, <1>2
<1>4. ASSUME ~(lo <= m) PROVE FALSE
  <2>1. m + 1 <= lo
    BY <1>4
  <2>2. (m + 1) * c <= lo * c /\ (m + 1) * c = mc + c
    BY <2>1
  <2> QED BY <1>2, <1>3, <2>2
<1>5. ASSUME ~(m <= hi) PROVE FALSE
  <2>1. hi + 1 <= m
    BY <1>5
  <2>2. (hi + 1) * c <= mc /\ (hi + 1) * c = hi * c + c
    BY <2>1
  <2> QED BY <1>2, <1>3, <2>2
<1> HIDE DEF mc
<1>6. -c < 2 * (mc - s) /\ 2 * (mc - s) <= c
  BY <1>2, <1>3
<1> QED BY <1>4, <1>5, <1>6 DEF mc

LEMMA CardAdds ==
  ASSUME FiguresAssumption, FiguresTypeOK
  PROVE  CardAddsUp
PROOF
<1> DEFINE c == Cardinality(Scored)
<1>1. c \in Nat /\ c <= Len(history) /\ Len(history) \in Nat /\ Sum \in Int
  BY ScoredAre, HistoryIs
<1>2. ASSUME NEW pageCount \in Len(history)..MaxRows
      PROVE  InBand("pass") + InBand("average") + InBand("fail") + unaudited(pageCount) = pageCount
  <2>1. unaudited(pageCount) = IF pageCount - c > 0 THEN pageCount - c ELSE 0
    BY EveryPageInABand DEF unaudited
  <2>2. pageCount \in Int /\ c <= pageCount
    BY <1>1, <1>2
  <2>3. c + unaudited(pageCount) = pageCount
    BY <1>1, <2>1, <2>2
  <2> QED BY <2>3, EveryPageInABand
<1>3. ASSUME Scored = {} PROVE mean = None
  BY <1>3 DEF mean
<1>4. ASSUME Scored # {}
      PROVE  /\ mean \in Int /\ mean # None
             /\ worstPerformance <= mean /\ mean <= Max(Performances)
             /\ -c < 2 * (mean * c - Sum) /\ 2 * (mean * c - Sum) <= c
  <2>1. c > 0
    BY <1>1, <1>4, ScoredAre, FS_EmptySet
  <2>2. mean = (2 * Sum + c) \div (2 * c)
    BY <1>4 DEF mean
  <2>3. worstPerformance = Min(Performances)
    BY <1>4 DEF worstPerformance, Performances
  <2>4. Min(Performances) * c <= Sum /\ Sum <= Max(Performances) * c
    BY <1>4, ScoredAre, WorstAndBest, TotalBounds
  <2> HIDE DEF c
  <2>5. 2 * Sum + c \in Int /\ 2 * c \in Int /\ 2 * c > 0
    BY <1>1, <2>1
  <2>6. mean \in Int
    BY <2>2, <2>5, Quotient
  <2>7. Min(Performances) \in Int /\ Max(Performances) \in Int /\ c \in Int
    BY <1>1, <1>4, WorstAndBest
  <2>8. /\ Min(Performances) <= mean /\ mean <= Max(Performances)
        /\ -c < 2 * (mean * c - Sum) /\ 2 * (mean * c - Sum) <= c
    <3> DEFINE lo == Min(Performances)
               hi == Max(Performances)
               m == mean
               s == Sum
    <3>1. /\ s \in Int /\ c \in Int /\ c > 0 /\ lo \in Int /\ hi \in Int /\ m \in Int
          /\ lo * c <= s /\ s <= hi * c /\ m = (2 * s + c) \div (2 * c)
      BY <1>1, <2>1, <2>2, <2>4, <2>6, <2>7
    <3> HIDE DEF lo, hi, m, s
    <3>2. lo <= m /\ m <= hi /\ -c < 2 * (m * c - s) /\ 2 * (m * c - s) <= c
      BY <3>1, Rounded
    <3> QED BY <3>2 DEF lo, hi, m, s
  <2> QED BY <2>3, <2>6, <2>8 DEF FiguresAssumption
<1>5. (mean = None) = (Scored = {})
  BY <1>3, <1>4
<1> QED BY <1>2, <1>4, <1>5, <1>3 DEF CardAddsUp, Performances

-----------------------------------------------------------------------------
(* What the figures promise. *)

\* Whatever the scores measured, the runs that failed or were deleted and the entries
\* shown: a flag is earned and a drop that persists is told, the changes a history shows
\* add up, and a group's card accounts for its pages (detectRegressions,
\* getPageRunHistory, computeAggregate, computeDistribution).
THEOREM FiguresAreRight ==
  ASSUME FiguresAssumption
  PROVE  FiguresSpec => []FiguresTell
PROOF
<1>1. FiguresTypeOK => FiguresTell
  BY FlagsEarned, WorseningTold, ChangesAdd, CardAdds DEF FiguresTell
<1> QED BY <1>1, FiguresTypesHold, PTL

=============================================================================
