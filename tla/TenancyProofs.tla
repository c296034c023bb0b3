----------------------------- MODULE TenancyProofs -----------------------------
(***************************************************************************)
(* For any number of organisations, databases, admins and requests: a ready *)
(* organisation is on a migrated database, no two organisations point at    *)
(* one database, and the clients that requests share are those they asked   *)
(* for, and bounded.                                                        *)
(***************************************************************************)
EXTENDS Tenancy, SequenceTheorems, TLAPS

CentralTypes ==
  /\ org \in [Orgs -> [status : ProvisionStatus, url : Databases \cup {None}]]
  /\ tables \subseteq Databases
  /\ admin \in [Admins -> [at : {"idle", "mark", "migrate", "ready", "failed"},
                           org : Orgs \cup {None}, db : Databases \cup {None}]]
  /\ \A a \in Admins : admin[a].at # "idle" => admin[a].org \in Orgs /\ admin[a].db \in Databases

\* The migration that committed belongs to one save, and until that save is over its
\* database is nobody's.
Committed(a) == admin[a].at = "ready"
CommittedOnce ==
  /\ \A a \in Admins : Committed(a) => admin[a].db \in tables
  /\ \A a, b \in Admins : Committed(a) /\ Committed(b) /\ admin[a].db = admin[b].db => a = b
  /\ \A a \in Admins, o \in Orgs : Committed(a) => org[o].url # admin[a].db

\* A saved connection is to a migrated database, whatever the status says.
SavedMeansMigrated ==
  /\ \A o \in Orgs : org[o].url # None => org[o].url \in tables
  /\ \A o \in Orgs : org[o].status = "ready" => org[o].url # None

CentralInv == CentralTypes /\ CommittedOnce /\ SavedMeansMigrated /\ NoSharedDatabase

LEMMA CentralInit == Init => CentralInv
PROOF
<1> SUFFICES ASSUME Init PROVE CentralInv
  OBVIOUS
<1>1. CentralTypes
  BY DEF Init, CentralTypes, NoSave, ProvisionStatus
<1>2. CommittedOnce /\ SavedMeansMigrated /\ NoSharedDatabase
  BY DEF Init, NoSave, CommittedOnce, Committed, SavedMeansMigrated, NoSharedDatabase
<1>3. QED
  BY <1>1, <1>2 DEF CentralInv

\* A save that ends, in whatever way, without touching a row.
LEMMA EndedSave ==
  ASSUME CentralInv, NEW a \in Admins, admin' = [admin EXCEPT ![a] = NoSave],
         UNCHANGED <<org, tables>>
  PROVE  CentralInv'
PROOF
<1>1. CentralTypes'
  BY DEF CentralInv, CentralTypes, NoSave
<1>2. \A b \in Admins : Committed(b)' => Committed(b) /\ admin'[b].db = admin[b].db
  BY DEF CentralInv, CentralTypes, NoSave, Committed
<1>3. CommittedOnce'
  BY <1>2 DEF CentralInv, CommittedOnce
<1>4. SavedMeansMigrated' /\ NoSharedDatabase'
  BY DEF CentralInv, SavedMeansMigrated, NoSharedDatabase
<1>5. QED
  BY <1>1, <1>3, <1>4 DEF CentralInv

LEMMA CentralStep == CentralInv /\ [Next]_vars => CentralInv'
PROOF
<1> SUFFICES ASSUME CentralInv, [Next]_vars PROVE CentralInv'
  OBVIOUS
<1> USE TenancyAssumption
<1>1. ASSUME NEW a \in Admins, NEW o \in Orgs, NEW d \in Databases, Validate(a, o, d)
      PROVE  CentralInv'
  <2>1. CentralTypes'
    BY <1>1 DEF Validate, central, CentralInv, CentralTypes
  <2>2. \A b \in Admins : Committed(b)' => Committed(b) /\ admin'[b].db = admin[b].db
    BY <1>1 DEF Validate, CentralInv, CentralTypes, Committed
  <2>3. UNCHANGED <<org, tables>>
    BY <1>1 DEF Validate, central
  <2>4. CommittedOnce' /\ SavedMeansMigrated' /\ NoSharedDatabase'
    BY <2>2, <2>3 DEF CentralInv, CommittedOnce, SavedMeansMigrated, NoSharedDatabase
  <2>5. QED
    BY <2>1, <2>4 DEF CentralInv
<1>2. ASSUME NEW a \in Admins, Mark(a) PROVE CentralInv'
  <2>1. admin[a].org \in Orgs
    BY <1>2 DEF Mark, CentralInv, CentralTypes
  <2>2. CentralTypes'
    BY <1>2, <2>1 DEF Mark, CentralInv, CentralTypes, ProvisionStatus
  <2>3. \A o \in Orgs : /\ org'[o].url = org[o].url
                        /\ org'[o].status = "ready" => org[o].status = "ready"
    BY <1>2, <2>1 DEF Mark, CentralInv, CentralTypes
  <2>4. \A b \in Admins : Committed(b)' => Committed(b) /\ admin'[b].db = admin[b].db
    BY <1>2 DEF Mark, CentralInv, CentralTypes, Committed
  <2>5. tables' = tables
    BY <1>2 DEF Mark
  <2>6. CommittedOnce' /\ SavedMeansMigrated' /\ NoSharedDatabase'
    BY <2>3, <2>4, <2>5 DEF CentralInv, CommittedOnce, SavedMeansMigrated, NoSharedDatabase
  <2>7. QED
    BY <2>2, <2>6 DEF CentralInv
<1>3. ASSUME NEW a \in Admins, Migrate(a) PROVE CentralInv'
  <2>1. admin[a].db \in Databases
    BY <1>3 DEF Migrate, CentralInv, CentralTypes
  <2>2. CentralTypes'
    BY <1>3, <2>1 DEF Migrate, CentralInv, CentralTypes
  <2>3. CASE admin' = [admin EXCEPT ![a].at = "failed"]
    <3>1. \A b \in Admins : Committed(b)' => Committed(b) /\ admin'[b].db = admin[b].db
      BY <2>3 DEF CentralInv, CentralTypes, Committed
    <3>2. UNCHANGED org /\ tables \subseteq tables'
      BY <1>3 DEF Migrate
    <3>3. CommittedOnce' /\ SavedMeansMigrated' /\ NoSharedDatabase'
      BY <3>1, <3>2 DEF CentralInv, CommittedOnce, SavedMeansMigrated, NoSharedDatabase
    <3>4. QED
      BY <2>2, <3>3 DEF CentralInv
  <2>4. CASE /\ admin[a].db \notin tables
             /\ tables' = tables \cup {admin[a].db}
             /\ admin' = [admin EXCEPT ![a].at = "ready"]
    <3>1. \A b \in Admins : /\ admin'[b].db = admin[b].db
                            /\ b # a => (Committed(b)' <=> Committed(b))
      BY <2>4 DEF CentralInv, CentralTypes, Committed
    <3>2. \A b \in Admins : b # a /\ Committed(b) => admin[b].db # admin[a].db
      BY <2>4 DEF CentralInv, CommittedOnce
    <3>3. \A o \in Orgs : org[o].url # admin[a].db
      BY <2>1, <2>4 DEF CentralInv, SavedMeansMigrated
    <3>4. UNCHANGED org
      BY <1>3 DEF Migrate
    <3>5. CommittedOnce'
      BY <2>4, <3>1, <3>2, <3>3, <3>4 DEF CentralInv, CommittedOnce
    <3>6. SavedMeansMigrated' /\ NoSharedDatabase'
      BY <2>4, <3>4 DEF CentralInv, SavedMeansMigrated, NoSharedDatabase
    <3>7. QED
      BY <2>2, <3>5, <3>6 DEF CentralInv
  <2>5. QED
    BY <1>3, <2>3, <2>4 DEF Migrate
<1>4. ASSUME NEW a \in Admins, SaveReady(a) PROVE CentralInv'
  <2>1. /\ admin[a].org \in Orgs /\ admin[a].db \in Databases
        /\ Committed(a) /\ admin[a].db \in tables
    BY <1>4 DEF SaveReady, CentralInv, CentralTypes, CommittedOnce, Committed
  <2>2. CentralTypes'
    BY <1>4, <2>1 DEF SaveReady, CentralInv, CentralTypes, NoSave, ProvisionStatus
  <2>3. \A b \in Admins : Committed(b)' => b # a /\ Committed(b) /\ admin'[b].db = admin[b].db
    BY <1>4 DEF SaveReady, CentralInv, CentralTypes, NoSave, Committed
  <2>4. \A o \in Orgs : \/ org'[o] = org[o] /\ o # admin[a].org
                        \/ /\ o = admin[a].org
                           /\ org'[o] = [status |-> "ready", url |-> admin[a].db]
    BY <1>4, <2>1 DEF SaveReady, CentralInv, CentralTypes
  <2>5. tables' = tables
    BY <1>4 DEF SaveReady
  <2>6. CommittedOnce'
    <3>1. \A b \in Admins : Committed(b)' => admin[b].db # admin[a].db
      BY <2>1, <2>3 DEF CentralInv, CommittedOnce
    <3>2. QED
      BY <2>3, <2>4, <2>5, <3>1 DEF CentralInv, CommittedOnce
  <2>7. SavedMeansMigrated'
    BY <2>1, <2>4, <2>5 DEF CentralInv, SavedMeansMigrated
  <2>8. NoSharedDatabase'
    <3>1. \A o \in Orgs : org[o].url # admin[a].db
      BY <2>1 DEF CentralInv, CommittedOnce
    <3>2. QED
      BY <2>4, <3>1 DEF CentralInv, NoSharedDatabase
  <2>9. QED
    BY <2>2, <2>6, <2>7, <2>8 DEF CentralInv
<1>5. ASSUME NEW a \in Admins, SaveFailed(a) PROVE CentralInv'
  <2>1. admin[a].org \in Orgs
    BY <1>5 DEF SaveFailed, CentralInv, CentralTypes
  <2>2. CentralTypes'
    BY <1>5, <2>1 DEF SaveFailed, CentralInv, CentralTypes, NoSave, ProvisionStatus
  <2>3. \A o \in Orgs : /\ org'[o].url = org[o].url
                        /\ org'[o].status = "ready" => org[o].status = "ready"
    BY <1>5, <2>1 DEF SaveFailed, CentralInv, CentralTypes
  <2>4. \A b \in Admins : Committed(b)' => Committed(b) /\ admin'[b].db = admin[b].db
    BY <1>5 DEF SaveFailed, CentralInv, CentralTypes, NoSave, Committed
  <2>5. tables' = tables
    BY <1>5 DEF SaveFailed
  <2>6. CommittedOnce' /\ SavedMeansMigrated' /\ NoSharedDatabase'
    BY <2>3, <2>4, <2>5 DEF CentralInv, CommittedOnce, SavedMeansMigrated, NoSharedDatabase
  <2>7. QED
    BY <2>2, <2>6 DEF CentralInv
<1>6. ASSUME NEW o \in Orgs, Clear(o) PROVE CentralInv'
  <2>1. CentralTypes'
    BY <1>6 DEF Clear, CentralInv, CentralTypes, ProvisionStatus
  <2>2. \A p \in Orgs : \/ org'[p] = org[p]
                        \/ org'[p] = [status |-> "unprovisioned", url |-> None]
    BY <1>6 DEF Clear, CentralInv, CentralTypes
  <2>3. UNCHANGED <<tables, admin>>
    BY <1>6 DEF Clear
  <2>4. \A a \in Admins : Committed(a) => admin[a].db # None
    BY DEF CentralInv, CentralTypes, Committed
  <2>5. CommittedOnce'
    BY <2>2, <2>3, <2>4 DEF CentralInv, CommittedOnce, Committed
  <2>6. SavedMeansMigrated' /\ NoSharedDatabase'
    BY <2>2, <2>3 DEF CentralInv, SavedMeansMigrated, NoSharedDatabase
  <2>7. QED
    BY <2>1, <2>5, <2>6 DEF CentralInv
<1>7. ASSUME NEW a \in Admins, Die(a) PROVE CentralInv'
  BY <1>7, EndedSave DEF Die, central
<1>8. ASSUME UNCHANGED <<central, admin>> PROVE CentralInv'
  BY <1>8 DEF central, CentralInv, CentralTypes, CommittedOnce, Committed,
              SavedMeansMigrated, NoSharedDatabase
<1>9. ASSUME NEW q \in Requests, \/ \E o \in Orgs : Resolve(q, o)
                                 \/ Lookup(q) \/ Rotated(q) \/ Evicted(q) \/ Finish(q)
      PROVE  CentralInv'
  BY <1>8, <1>9 DEF Resolve, Lookup, Rotated, Evicted, Finish
<1>10. CASE UNCHANGED vars
  BY <1>8, <1>10 DEF vars
<1>11. QED
  BY <1>1, <1>2, <1>3, <1>4, <1>5, <1>6, <1>7, <1>9, <1>10 DEF Next

\* The invariant the results below are read off, for every behaviour.
THEOREM CentralAlways == Spec => []CentralInv
PROOF BY CentralInit, CentralStep, PTL DEF Spec

\* A ready organisation is on a database whose migration committed, whatever saves,
\* clears and crashes interleave.
THEOREM ReadyIsMigrated == Spec => []ReadyMeansMigrated
PROOF
<1>1. CentralInv => ReadyMeansMigrated
  BY DEF CentralInv, SavedMeansMigrated, ReadyMeansMigrated
<1>2. QED
  BY <1>1, CentralAlways, PTL

\* No two organisations ever point at one database: the transaction that creates the
\* tables commits for one save, and nothing else hands a database out.
THEOREM DatabasesAreDisjoint == Spec => []NoSharedDatabase
PROOF
<1>1. CentralInv => NoSharedDatabase
  BY DEF CentralInv
<1>2. QED
  BY <1>1, CentralAlways, PTL

-----------------------------------------------------------------------------
(* Tenancy implements Tenure. *)

Fresh == Databases \ tables
Home == [o \in Orgs |-> org[o].url]
Serving == {o \in Orgs : org[o].status = "ready"}

\* A save that is not at its end offers nothing, and one whose migration has committed
\* offers a database nobody else does.
LEMMA OfferedBy ==
  ASSUME CentralInv, NEW a \in Admins, \A b \in Admins : b # a => admin'[b] = admin[b]
  PROVE  /\ ~Committed(a) /\ ~Committed(a)' => OnOffer' = OnOffer
         /\ ~Committed(a) /\ Committed(a)' /\ admin'[a].db \in Databases =>
              OnOffer' = OnOffer \cup {admin'[a].db}
         /\ Committed(a) /\ ~Committed(a)' =>
              admin[a].db \in OnOffer /\ OnOffer' = OnOffer \ {admin[a].db}
PROOF
<1>1. \A b \in Admins : b # a => (Committed(b)' <=> Committed(b)) /\ admin'[b].db = admin[b].db
  BY DEF Committed
<1>2. \A d : d \in OnOffer <=> d \in Databases /\ \E b \in Admins : Committed(b) /\ admin[b].db = d
  BY DEF OnOffer, Committed
<1>3. \A d : d \in OnOffer' <=> d \in Databases /\ \E b \in Admins : Committed(b)' /\ admin'[b].db = d
  BY DEF OnOffer, Committed
<1>4. CASE ~Committed(a) /\ ~Committed(a)'
  BY <1>1, <1>2, <1>3, <1>4
<1>5. CASE ~Committed(a) /\ Committed(a)' /\ admin'[a].db \in Databases
  <2>1. \A d : d \in OnOffer' <=> d \in OnOffer \/ d = admin'[a].db
    BY <1>1, <1>2, <1>3, <1>5
  <2>2. QED
    BY <1>5, <2>1
<1>6. CASE Committed(a) /\ ~Committed(a)'
  <2>1. admin[a].db \in Databases
    BY <1>6 DEF CentralInv, CentralTypes, Committed
  <2>2. \A b \in Admins : b # a /\ Committed(b) => admin[b].db # admin[a].db
    BY <1>6 DEF CentralInv, CommittedOnce
  <2>3. \A d : d \in OnOffer' <=> d \in OnOffer /\ d # admin[a].db
    BY <1>1, <1>2, <1>3, <1>6, <2>2
  <2>4. QED
    BY <1>2, <1>6, <2>1, <2>3
<1>7. QED
  BY <1>4, <1>5, <1>6

\* What a change of the status alone does to the organisations that are served.
LEMMA StatusTakesOut ==
  ASSUME CentralInv, NEW o \in Orgs, NEW s \in ProvisionStatus, s # "ready",
         org' = [org EXCEPT ![o].status = s]
  PROVE  Home' = Home /\ Serving' = Serving \ {o}
PROOF
<1>1. /\ \A p \in Orgs : org'[p].url = org[p].url
      /\ org'[o].status = s /\ \A p \in Orgs : p # o => org'[p] = org[p]
  BY DEF CentralInv, CentralTypes
<1>2. QED
  BY <1>1 DEF Home, Serving

LEMMA StepIsTenure ==
  CentralInv /\ [Next]_vars => [Tenures!Next]_(Tenures!tenure)
PROOF
<1> DEFINE Same == UNCHANGED <<Fresh, OnOffer, Home, Serving>>
<1> SUFFICES ASSUME CentralInv, [Next]_vars PROVE Tenures!Next \/ Same
  BY DEF Tenures!tenure, Fresh, Home, Serving
<1>1. ASSUME UNCHANGED <<central, admin>> PROVE Same
  BY <1>1 DEF central, Fresh, OnOffer, Home, Serving
<1>2. ASSUME NEW a \in Admins, NEW o \in Orgs, NEW d \in Databases, Validate(a, o, d)
      PROVE  Same
  <2>1. /\ \A b \in Admins : b # a => admin'[b] = admin[b]
        /\ ~Committed(a) /\ ~Committed(a)'
    BY <1>2 DEF Validate, Committed, CentralInv, CentralTypes
  <2>2. UNCHANGED central
    BY <1>2 DEF Validate
  <2>3. QED
    BY <2>1, <2>2, OfferedBy DEF central, Fresh, Home, Serving
<1>3. ASSUME NEW a \in Admins, Mark(a) PROVE Tenures!Next
  <2>1. /\ admin[a].org \in Orgs /\ UNCHANGED tables
        /\ org' = [org EXCEPT ![admin[a].org].status = "provisioning"]
    BY <1>3 DEF Mark, CentralInv, CentralTypes
  <2>2. /\ \A b \in Admins : b # a => admin'[b] = admin[b]
        /\ ~Committed(a) /\ ~Committed(a)'
    BY <1>3 DEF Mark, Committed, CentralInv, CentralTypes
  <2>3. OnOffer' = OnOffer /\ Fresh' = Fresh
    BY <2>1, <2>2, OfferedBy DEF Fresh
  <2>4. Home' = Home /\ Serving' = Serving \ {admin[a].org}
    BY <2>1, StatusTakesOut DEF ProvisionStatus
  <2>5. QED
    BY <2>1, <2>3, <2>4 DEF Tenures!Next, Tenures!Suspend, Fresh, Home, Serving
<1>4. ASSUME NEW a \in Admins, SaveFailed(a) PROVE Tenures!Next
  <2>1. /\ admin[a].org \in Orgs /\ UNCHANGED tables
        /\ org' = [org EXCEPT ![admin[a].org].status = "failed"]
    BY <1>4 DEF SaveFailed, CentralInv, CentralTypes
  <2>2. /\ \A b \in Admins : b # a => admin'[b] = admin[b]
        /\ ~Committed(a) /\ ~Committed(a)'
    BY <1>4 DEF SaveFailed, Committed, NoSave, CentralInv, CentralTypes
  <2>3. OnOffer' = OnOffer /\ Fresh' = Fresh
    BY <2>1, <2>2, OfferedBy DEF Fresh
  <2>4. Home' = Home /\ Serving' = Serving \ {admin[a].org}
    BY <2>1, StatusTakesOut DEF ProvisionStatus
  <2>5. QED
    BY <2>1, <2>3, <2>4 DEF Tenures!Next, Tenures!Suspend, Fresh, Home, Serving
<1>5. ASSUME NEW a \in Admins, Migrate(a) PROVE Tenures!Next \/ Same
  <2>1. /\ UNCHANGED <<org, Home, Serving>> /\ admin[a].db \in Databases
        /\ \A b \in Admins : b # a => admin'[b] = admin[b]
        /\ ~Committed(a) /\ admin'[a].db = admin[a].db
    BY <1>5 DEF Migrate, Committed, Home, Serving, CentralInv, CentralTypes
  <2>2. CASE UNCHANGED tables
    <3>1. ~Committed(a)'
      BY <1>5, <2>1, <2>2 DEF Migrate, Committed, CentralInv, CentralTypes
    <3>2. QED
      BY <2>1, <2>2, <3>1, OfferedBy DEF Fresh
  <2>3. CASE admin[a].db \notin tables /\ tables' = tables \cup {admin[a].db}
    <3>1. admin[a].db \in Fresh /\ Fresh' = Fresh \ {admin[a].db}
      BY <2>1, <2>3 DEF Fresh
    <3>2. OnOffer' = OnOffer \/ OnOffer' = OnOffer \cup {admin[a].db}
      BY <2>1, OfferedBy
    <3>3. QED
      BY <2>1, <3>1, <3>2 DEF Tenures!Next, Tenures!Prepare, Fresh, Home, Serving
  <2>4. QED
    BY <1>5, <2>2, <2>3 DEF Migrate
<1>6. ASSUME NEW a \in Admins, SaveReady(a) PROVE Tenures!Next
  <2>1. /\ Committed(a) /\ admin[a].org \in Orgs /\ admin[a].db \in Databases /\ UNCHANGED tables
        /\ org' = [org EXCEPT ![admin[a].org] = [status |-> "ready", url |-> admin[a].db]]
    BY <1>6 DEF SaveReady, Committed, CentralInv, CentralTypes
  <2>2. /\ \A b \in Admins : b # a => admin'[b] = admin[b]
        /\ ~Committed(a)'
    BY <1>6 DEF SaveReady, Committed, NoSave, CentralInv, CentralTypes
  <2>3. admin[a].db \in OnOffer /\ OnOffer' = OnOffer \ {admin[a].db} /\ Fresh' = Fresh
    BY <2>1, <2>2, OfferedBy DEF Fresh
  <2>4. \A o \in Orgs : org'[o] = IF o = admin[a].org THEN [status |-> "ready", url |-> admin[a].db]
                                  ELSE org[o]
    BY <2>1 DEF CentralInv, CentralTypes
  <2>5. Home' = [Home EXCEPT ![admin[a].org] = admin[a].db]
    <3>1. \A o \in Orgs : org'[o].url = IF o = admin[a].org THEN admin[a].db ELSE org[o].url
      BY <2>4
    <3>2. Home' = [o \in Orgs |-> IF o = admin[a].org THEN admin[a].db ELSE org[o].url]
      BY <3>1 DEF Home
    <3>3. QED
      BY <2>1, <3>2 DEF Home
  <2>6. Serving' = Serving \cup {admin[a].org}
    BY <2>1, <2>4 DEF Serving
  <2>7. QED
    BY <2>1, <2>3, <2>5, <2>6 DEF Tenures!Next, Tenures!Give, Fresh, Home, Serving
<1>7. ASSUME NEW o \in Orgs, Clear(o) PROVE Tenures!Next
  <2>1. /\ UNCHANGED <<tables, admin>>
        /\ org' = [org EXCEPT ![o] = [status |-> "unprovisioned", url |-> None]]
    BY <1>7 DEF Clear
  <2>2. \A p \in Orgs : org'[p] = IF p = o THEN [status |-> "unprovisioned", url |-> None]
                                  ELSE org[p]
    BY <2>1 DEF CentralInv, CentralTypes
  <2>3. Home' = [Home EXCEPT ![o] = None]
    <3>1. \A p \in Orgs : org'[p].url = IF p = o THEN None ELSE org[p].url
      BY <2>2
    <3>2. Home' = [p \in Orgs |-> IF p = o THEN None ELSE org[p].url]
      BY <3>1 DEF Home
    <3>3. QED
      BY <3>2 DEF Home
  <2>4. Serving' = Serving \ {o}
    BY <2>2 DEF Serving
  <2>5. OnOffer' = OnOffer /\ Fresh' = Fresh
    BY <2>1 DEF OnOffer, Fresh
  <2>6. QED
    BY <2>3, <2>4, <2>5 DEF Tenures!Next, Tenures!Leave, Fresh, Home, Serving
<1>8. ASSUME NEW a \in Admins, Die(a) PROVE Tenures!Next \/ Same
  <2>1. /\ UNCHANGED <<Fresh, Home, Serving>>
        /\ \A b \in Admins : b # a => admin'[b] = admin[b]
        /\ ~Committed(a)'
    BY <1>8 DEF Die, central, Committed, NoSave, Fresh, Home, Serving, CentralInv, CentralTypes
  <2>2. CASE Committed(a)
    <3>1. admin[a].db \in OnOffer /\ OnOffer' = OnOffer \ {admin[a].db}
      BY <2>1, <2>2, OfferedBy
    <3>2. admin[a].db \in Databases
      BY <3>1 DEF OnOffer
    <3>3. QED
      BY <2>1, <3>1, <3>2 DEF Tenures!Next, Tenures!Withdraw, Fresh, Home, Serving
  <2>3. CASE ~Committed(a)
    BY <2>1, <2>3, OfferedBy
  <2>4. QED
    BY <2>2, <2>3
<1>9. ASSUME NEW q \in Requests, \/ \E o \in Orgs : Resolve(q, o)
                                 \/ Lookup(q) \/ Rotated(q) \/ Evicted(q) \/ Finish(q)
      PROVE  Same
  BY <1>1, <1>9 DEF Resolve, Lookup, Rotated, Evicted, Finish
<1>10. CASE UNCHANGED vars
  BY <1>1, <1>10 DEF vars
<1>11. QED
  BY <1>2, <1>3, <1>4, <1>5, <1>6, <1>7, <1>8, <1>9, <1>10 DEF Next

\* A database is prepared once, given to one organisation at most in all its life, and not
\* used again once it was let go, whatever saves overlap, fail, die or are cleared meanwhile:
\* Tenancy implements Tenure.
THEOREM KeepsTheTenure == Spec => DatabasesLiveOnce
PROOF
<1>1. Init => Tenures!Init
  BY DEF Init, NoSave, Tenures!Init, OnOffer
<1>2. QED
  BY <1>1, CentralAlways, StepIsTenure, PTL DEF Spec, DatabasesLiveOnce, Tenures!Spec

-----------------------------------------------------------------------------
(* The cache of clients. *)

HasKey(s, o) == \E i \in DOMAIN s : s[i].org = o
KeysAreUnique(s) == \A i, j \in DOMAIN s : s[i].org = s[j].org => i = j

\* Map.delete takes the entry of its key and no other.
LEMMA WithoutEffect ==
  ASSUME cache \in Seq(Entry), KeysAreUnique(cache), NEW o \in Orgs
  PROVE  /\ Without(o) \in Seq(Entry)
         /\ KeysAreUnique(Without(o))
         /\ Len(Without(o)) <= Len(cache)
         /\ HasKey(cache, o) => Len(Without(o)) = Len(cache) - 1
PROOF
<1>1. Len(cache) \in Nat /\ DOMAIN cache = 1..Len(cache) /\ \A k \in 1..Len(cache) : cache[k] \in Entry
  BY LenProperties
<1>2. CASE Cached(o) = {}
  <2>1. Without(o) = cache
    BY <1>2 DEF Without
  <2>2. ~HasKey(cache, o)
    BY <1>2 DEF HasKey, Cached
  <2>3. Without(o) \in Seq(Entry) /\ KeysAreUnique(Without(o))
    BY <2>1, Zenon
  <2>4. Len(Without(o)) <= Len(cache)
    BY <1>1, <2>1
  <2>5. QED
    BY <2>2, <2>3, <2>4
<1>3. CASE Cached(o) # {}
  <2> DEFINE i == CHOOSE k \in Cached(o) : TRUE
             before == SubSeq(cache, 1, i - 1)
             after == SubSeq(cache, i + 1, Len(cache))
  <2>1. i \in 1..Len(cache)
    BY <1>1, <1>3 DEF Cached
  <2>2. Without(o) = before \o after
    BY <1>3 DEF Without
  <2> HIDE DEF i
  <2>3. /\ before \in Seq(Entry) /\ Len(before) = i - 1
        /\ \A k \in 1..(i - 1) : before[k] = cache[k]
    <3>1. \A k \in 1..(i - 1) : cache[k] \in Entry
      BY <1>1, <2>1
    <3>2. /\ SubSeq(cache, 1, i - 1) \in Seq(Entry)
          /\ Len(SubSeq(cache, 1, i - 1)) = IF 1 <= i - 1 THEN (i - 1) - 1 + 1 ELSE 0
          /\ \A k \in 1..((i - 1) - 1 + 1) : SubSeq(cache, 1, i - 1)[k] = cache[1 + k - 1]
      BY <2>1, <3>1, SubSeqProperties
    <3>3. QED
      BY <2>1, <3>2
  <2>4. /\ after \in Seq(Entry) /\ Len(after) = Len(cache) - i
        /\ \A k \in 1..(Len(cache) - i) : after[k] = cache[k + i]
    <3>1. \A k \in (i + 1)..Len(cache) : cache[k] \in Entry
      BY <1>1, <2>1
    <3>2. /\ SubSeq(cache, i + 1, Len(cache)) \in Seq(Entry)
          /\ Len(SubSeq(cache, i + 1, Len(cache))) =
               IF i + 1 <= Len(cache) THEN Len(cache) - (i + 1) + 1 ELSE 0
          /\ \A k \in 1..(Len(cache) - (i + 1) + 1) :
               SubSeq(cache, i + 1, Len(cache))[k] = cache[(i + 1) + k - 1]
      BY <1>1, <2>1, <3>1, SubSeqProperties
    <3>3. Len(after) = Len(cache) - i
      <4> DEFINE n == Len(cache)
      <4>1. n \in Nat /\ i \in 1..n
        BY <1>1, <2>1
      <4>2. Len(after) = IF i + 1 <= n THEN n - (i + 1) + 1 ELSE 0
        BY <3>2
      <4> HIDE DEF n, after
      <4>3. Len(after) = n - i
        BY <4>1, <4>2
      <4>4. QED
        BY <4>3 DEF n
    <3>4. ASSUME NEW k \in 1..(Len(cache) - i) PROVE after[k] = cache[k + i]
      <4>1. k \in 1..(Len(cache) - (i + 1) + 1) /\ (i + 1) + k - 1 = k + i
        BY <1>1, <2>1
      <4>2. after[k] = cache[(i + 1) + k - 1]
        BY <3>2, <4>1
      <4>3. QED
        BY <4>1, <4>2
    <3>5. QED
      BY <3>2, <3>3, <3>4
  <2> HIDE DEF before, after
  <2>5. /\ Without(o) \in Seq(Entry)
        /\ Len(Without(o)) = Len(cache) - 1
        /\ \A k \in 1..(Len(cache) - 1) :
             Without(o)[k] = IF k <= i - 1 THEN cache[k] ELSE cache[k + 1]
    <3>1. /\ before \o after \in Seq(Entry)
          /\ Len(before \o after) = Len(before) + Len(after)
          /\ \A k \in 1..(Len(before) + Len(after)) :
               (before \o after)[k] =
                 IF k <= Len(before) THEN before[k] ELSE after[k - Len(before)]
      BY <2>3, <2>4, ConcatProperties
    <3>2. Len(before) + Len(after) = Len(cache) - 1
      BY <1>1, <2>1, <2>3, <2>4
    <3>3. ASSUME NEW k \in 1..(Len(cache) - 1)
          PROVE  (before \o after)[k] = IF k <= i - 1 THEN cache[k] ELSE cache[k + 1]
      <4>1. CASE k <= i - 1
        BY <1>1, <2>1, <2>3, <3>1, <3>2, <4>1
      <4>2. CASE ~(k <= i - 1)
        <5>1. k - (i - 1) \in 1..(Len(cache) - i)
          BY <1>1, <2>1, <3>3, <4>2
        <5>2. (before \o after)[k] = after[k - (i - 1)]
          BY <1>1, <2>1, <2>3, <3>1, <3>2, <4>2
        <5>3. after[k - (i - 1)] = cache[k - (i - 1) + i]
          BY <2>4, <5>1
        <5>4. QED
          BY <2>1, <4>2, <5>2, <5>3
      <4>3. QED
        BY <4>1, <4>2
    <3>4. QED
      BY <2>2, <3>1, <3>2, <3>3
  <2>6. KeysAreUnique(Without(o))
    <3>1. DOMAIN Without(o) = 1..(Len(cache) - 1)
      BY <2>5, LenProperties
    <3> SUFFICES ASSUME NEW j \in 1..(Len(cache) - 1), NEW k \in 1..(Len(cache) - 1),
                        Without(o)[j].org = Without(o)[k].org
                 PROVE  j = k
      BY <3>1 DEF KeysAreUnique
    <3> DEFINE At(n) == IF n <= i - 1 THEN n ELSE n + 1
    <3>2. /\ At(j) \in 1..Len(cache) /\ Without(o)[j] = cache[At(j)]
          /\ At(k) \in 1..Len(cache) /\ Without(o)[k] = cache[At(k)]
      BY <1>1, <2>1, <2>5
    <3>3. At(j) = At(k)
      <4> HIDE DEF At
      <4>1. cache[At(j)].org = cache[At(k)].org
        BY <3>2
      <4>2. QED
        BY <1>1, <3>2, <4>1 DEF KeysAreUnique
    <3>4. QED
      BY <2>1, <3>3
  <2>7. QED
    BY <1>1, <2>5, <2>6
<1>4. QED
  BY <1>2, <1>3

\* Map.set adds one entry at most, and loses none.
LEMMA WithEffect ==
  ASSUME NEW s \in Seq(Entry), KeysAreUnique(s), NEW o \in Orgs, NEW d \in Databases
  PROVE  /\ With(s, o, d) \in Seq(Entry)
         /\ KeysAreUnique(With(s, o, d))
         /\ Len(With(s, o, d)) <= Len(s) + 1
         /\ \A p \in Orgs : HasKey(s, p) => HasKey(With(s, o, d), p)
PROOF
<1> DEFINE e == [org |-> o, db |-> d]
           there == {i \in DOMAIN s : s[i].org = o}
<1>1. /\ Len(s) \in Nat /\ DOMAIN s = 1..Len(s) /\ e \in Entry
      /\ \A k \in 1..Len(s) : s[k] \in Entry
  BY LenProperties DEF Entry
<1>2. CASE there = {}
  <2>1. With(s, o, d) = Append(s, e)
    BY <1>2 DEF With
  <2>2. /\ Append(s, e) \in Seq(Entry) /\ Len(Append(s, e)) = Len(s) + 1
        /\ \A k \in 1..(Len(s) + 1) : Append(s, e)[k] = IF k <= Len(s) THEN s[k] ELSE e
        /\ DOMAIN Append(s, e) = 1..(Len(s) + 1)
    BY <1>1, AppendProperties, LenProperties
  <2>3. KeysAreUnique(Append(s, e))
    BY <1>1, <1>2, <2>2 DEF KeysAreUnique
  <2>4. \A p \in Orgs : HasKey(s, p) => HasKey(Append(s, e), p)
    BY <1>1, <2>2 DEF HasKey
  <2>5. QED
    BY <1>1, <2>1, <2>2, <2>3, <2>4
<1>3. CASE there # {}
  <2> DEFINE t == [i \in 1..Len(s) |-> IF i \in there THEN e ELSE s[i]]
  <2>1. With(s, o, d) = t
    BY <1>1, <1>3 DEF With
  <2>2. t \in Seq(Entry) /\ Len(t) = Len(s) /\ DOMAIN t = 1..Len(s)
    BY <1>1
  <2>3. \A i \in 1..Len(s) : t[i].org = s[i].org
    BY <1>1
  <2>4. KeysAreUnique(t)
    BY <1>1, <2>2, <2>3 DEF KeysAreUnique
  <2>5. \A p \in Orgs : HasKey(s, p) => HasKey(t, p)
    BY <1>1, <2>2, <2>3 DEF HasKey
  <2> HIDE DEF t
  <2>6. QED
    BY <1>1, <2>1, <2>2, <2>4, <2>5
<1>4. QED
  BY <1>2, <1>3

RequestTypes ==
  /\ req \in [Requests -> [at : {"idle", "lookup", "rotate", "evict", "use"},
                           org : Orgs \cup {None}, db : Databases \cup {None},
                           victim : Orgs \cup {None}, client : Databases \cup {None}]]
  /\ \A q \in Requests : req[q].at # "idle" => req[q].org \in Orgs /\ req[q].db \in Databases
  /\ \A q \in Requests : req[q].at = "evict" => req[q].victim \in Orgs
CacheTypes == cache \in Seq(Entry) /\ KeysAreUnique(cache) /\ clashed \in BOOLEAN

(***************************************************************************)
(* CacheBounded is not inductive: a request that comes back from evicting a *)
(* client must still find it, or the cache grows by its own.                *)
(***************************************************************************)
OneAwaits == ~clashed => \A q, r \in Awaiting : q = r
VictimStays ==
  ~clashed => \A q \in Requests : req[q].at = "evict" => HasKey(cache, req[q].victim)

CacheInv ==
  /\ RequestTypes /\ CacheTypes
  /\ OneAwaits /\ VictimStays /\ CacheBounded /\ GivenWhatItResolved

LEMMA CacheInit == Init => CacheInv
PROOF
<1> SUFFICES ASSUME Init PROVE CacheInv
  OBVIOUS
<1>1. \A q \in Requests : req[q] = NoRequest
  BY DEF Init
<1>2. RequestTypes /\ OneAwaits /\ VictimStays /\ GivenWhatItResolved
  BY <1>1 DEF Init, NoRequest, RequestTypes, OneAwaits, Awaiting, VictimStays,
              GivenWhatItResolved
<1>3. CacheTypes /\ CacheBounded
  <2>1. cache = <<>> /\ clashed = FALSE
    BY DEF Init
  <2>2. <<>> \in Seq(Entry) /\ Len(<<>>) = 0
    BY EmptySeq
  <2>3. KeysAreUnique(<<>>)
    BY DEF KeysAreUnique
  <2>4. QED
    <3>1. CacheTypes
      BY <2>1, <2>2, <2>3, Zenon DEF CacheTypes
    <3>2. CacheBounded
      BY <2>1, <2>2, TenancyAssumption DEF CacheBounded
    <3>3. QED
      BY <3>1, <3>2
<1>4. QED
  BY <1>2, <1>3 DEF CacheInv

\* A request that is given a client, or ends, out of a cache that has grown by s at most.
LEMMA GiveTypes ==
  ASSUME RequestTypes, NEW q \in Requests, NEW d \in Databases, Give(q, d)
  PROVE  /\ req' \in [Requests -> [at : {"idle", "lookup", "rotate", "evict", "use"},
                           org : Orgs \cup {None}, db : Databases \cup {None},
                           victim : Orgs \cup {None}, client : Databases \cup {None}]]
         /\ req'[q].at = "use" /\ req'[q].client = d
         /\ req'[q].org = req[q].org /\ req'[q].db = req[q].db
         /\ \A r \in Requests : r # q => req'[r] = req[r]
PROOF
<1> DEFINE Request == [at : {"idle", "lookup", "rotate", "evict", "use"},
                       org : Orgs \cup {None}, db : Databases \cup {None},
                       victim : Orgs \cup {None}, client : Databases \cup {None}]
           given == [req[q] EXCEPT !.at = "use", !.client = d, !.victim = None]
<1>1. req \in [Requests -> Request]
  BY DEF RequestTypes
<1>2. /\ given \in Request /\ given.at = "use" /\ given.client = d
      /\ given.org = req[q].org /\ given.db = req[q].db
  BY <1>1
<1>3. req' = [req EXCEPT ![q] = given]
  BY <1>1 DEF Give
<1> HIDE DEF Request, given
<1>4. /\ req' \in [Requests -> Request] /\ req'[q] = given
      /\ \A r \in Requests : r # q => req'[r] = req[r]
  BY <1>1, <1>2, <1>3
<1>5. QED
  BY <1>2, <1>4 DEF Request

\* A client of its connection is built and set for a request that does not await, or is
\* the only one that does.
LEMMA SetKeepsCache ==
  ASSUME CacheInv, NEW q \in Requests, req[q].at \in {"lookup", "rotate", "evict"},
         NEW s \in Seq(Entry), KeysAreUnique(s),
         Give(q, req[q].db), cache' = With(s, req[q].org, req[q].db), UNCHANGED clashed,
         ~clashed => Len(s) < MAX_CACHED_TENANT_CLIENTS,
         req[q].at = "lookup" => s = cache
  PROVE  CacheInv'
PROOF
<1> USE DEF CacheInv
<1>1. req[q].org \in Orgs /\ req[q].db \in Databases
  BY DEF RequestTypes
<1>2. /\ req'[q].at = "use" /\ req'[q].client = req[q].db
      /\ req'[q].org = req[q].org /\ req'[q].db = req[q].db
      /\ \A r \in Requests : r # q => req'[r] = req[r]
  BY <1>1, GiveTypes
<1>3. RequestTypes'
  BY <1>1, <1>2, GiveTypes DEF RequestTypes
<1>4. /\ cache' \in Seq(Entry) /\ KeysAreUnique(cache') /\ Len(cache') <= Len(s) + 1
      /\ \A p \in Orgs : HasKey(s, p) => HasKey(cache', p)
  BY <1>1, WithEffect
<1>5. CacheTypes'
  BY <1>4 DEF CacheTypes
<1>6. Awaiting' \subseteq Awaiting \ {q}
  BY <1>2 DEF Awaiting
<1>7. OneAwaits'
  BY <1>6 DEF OneAwaits
<1>8. VictimStays'
  <2> SUFFICES ASSUME ~clashed, NEW r \in Requests, req'[r].at = "evict"
               PROVE  HasKey(cache', req'[r].victim)
    BY DEF VictimStays
  <2>1. r # q /\ req'[r] = req[r] /\ r \in Awaiting
    BY <1>2 DEF Awaiting
  <2>2. q \notin Awaiting
    BY <2>1 DEF OneAwaits
  <2>3. s = cache
    BY <2>2 DEF Awaiting
  <2>4. QED
    BY <1>4, <2>1, <2>3 DEF VictimStays, RequestTypes
<1>9. CacheBounded'
  <2>1. Len(s) \in Nat /\ Len(cache') \in Nat
    BY <1>4, LenProperties
  <2>2. QED
    BY <1>4, <2>1, TenancyAssumption DEF CacheBounded
<1>10. GivenWhatItResolved'
  BY <1>2 DEF GivenWhatItResolved
<1>11. QED
  BY <1>3, <1>5, <1>7, <1>8, <1>9, <1>10

\* A request that is to await a disconnect is the only one, unless that is a clash.
LEMMA AwaitKeepsCache ==
  ASSUME CacheInv, NEW q \in Requests, req[q].at \in {"lookup", "rotate"},
         NEW place \in {"rotate", "evict"}, NEW victim \in Orgs,
         req' = [req EXCEPT ![q].at = place, ![q].victim = victim],
         clashed' = (clashed \/ Awaiting \ {q} # {}),
         cache' \in Seq(Entry), KeysAreUnique(cache'), Len(cache') <= Len(cache),
         place = "evict" => HasKey(cache', victim)
  PROVE  CacheInv'
PROOF
<1> USE DEF CacheInv
<1>1. /\ req'[q].at = place /\ req'[q].victim = victim
      /\ req'[q].org = req[q].org /\ req'[q].db = req[q].db
      /\ \A r \in Requests : r # q => req'[r] = req[r]
  BY DEF RequestTypes
<1>2. RequestTypes'
  <2>1. req' \in [Requests -> [at : {"idle", "lookup", "rotate", "evict", "use"},
                               org : Orgs \cup {None}, db : Databases \cup {None},
                               victim : Orgs \cup {None}, client : Databases \cup {None}]]
    BY DEF RequestTypes
  <2>2. QED
    BY <1>1, <2>1 DEF RequestTypes
<1>3. CacheTypes' /\ CacheBounded'
  <2>1. Len(cache) \in Nat /\ Len(cache') \in Nat
    BY LenProperties DEF CacheTypes
  <2>2. QED
    BY <2>1, TenancyAssumption DEF CacheTypes, CacheBounded
<1>4. Awaiting' \subseteq Awaiting \cup {q}
  BY <1>1 DEF Awaiting
<1>5. OneAwaits'
  BY <1>4 DEF OneAwaits
<1>6. VictimStays'
  BY <1>1, <1>4 DEF VictimStays, Awaiting
<1>7. GivenWhatItResolved'
  BY <1>1 DEF GivenWhatItResolved
<1>8. QED
  BY <1>2, <1>3, <1>5, <1>6, <1>7

LEMMA RoomKeepsCache ==
  ASSUME CacheInv, NEW q \in Requests, req[q].at \in {"lookup", "rotate"},
         NEW s \in Seq(Entry), KeysAreUnique(s), Len(s) <= Len(cache),
         req[q].at = "lookup" => s = cache,
         MakeRoom(q, s)
  PROVE  CacheInv'
PROOF
<1>1. CASE Len(s) < MAX_CACHED_TENANT_CLIENTS
  <2>1. Len(s) \in Nat /\ MAX_CACHED_TENANT_CLIENTS \in Nat
    BY LenProperties, TenancyAssumption
  <2>2. /\ cache' = With(s, req[q].org, req[q].db) /\ Give(q, req[q].db) /\ UNCHANGED clashed
    BY <1>1, <2>1 DEF MakeRoom
  <2>3. QED
    BY <1>1, <2>2, SetKeepsCache
<1>2. CASE ~(Len(s) < MAX_CACHED_TENANT_CLIENTS)
  <2>1. /\ req' = [req EXCEPT ![q].at = "evict", ![q].victim = Head(s).org]
        /\ clashed' = (clashed \/ Awaiting \ {q} # {}) /\ cache' = s
    BY <1>2 DEF MakeRoom
  <2>2. Len(s) \in Nat /\ Len(s) > 0 /\ DOMAIN s = 1..Len(s) /\ s[1] \in Entry
    BY <1>2, LenProperties, TenancyAssumption
  <2>3. Head(s) = s[1] /\ Head(s).org \in Orgs
    BY <2>2 DEF Entry
  <2>4. HasKey(s, Head(s).org)
    BY <2>2, <2>3 DEF HasKey
  <2>5. QED
    BY <2>1, <2>3, <2>4, AwaitKeepsCache
<1>3. QED
  BY <1>1, <1>2

LEMMA CacheStep == CentralInv /\ CacheInv /\ [Next]_vars => CacheInv'
PROOF
<1> SUFFICES ASSUME CentralInv, CacheInv, [Next]_vars PROVE CacheInv'
  OBVIOUS
<1>0. /\ cache \in Seq(Entry) /\ KeysAreUnique(cache) /\ Len(cache) \in Nat
      /\ \A q \in Requests : req[q].at # "idle" => req[q].org \in Orgs /\ req[q].db \in Databases
  BY LenProperties DEF CacheInv, CacheTypes, RequestTypes
<1>1. ASSUME UNCHANGED <<cache, req, clashed>> PROVE CacheInv'
  BY <1>1 DEF CacheInv, CacheTypes, RequestTypes, OneAwaits, Awaiting, VictimStays,
              CacheBounded, GivenWhatItResolved
<1>2. ASSUME NEW q \in Requests, NEW o \in Orgs, Resolve(q, o) PROVE CacheInv'
  <2>1. org[o].url \in Databases
    BY <1>2 DEF Resolve, CentralInv, CentralTypes
  <2>2. RequestTypes' /\ req'[q].at = "lookup" /\ \A r \in Requests : r # q => req'[r] = req[r]
    BY <1>2, <2>1 DEF Resolve, CacheInv, RequestTypes, NoRequest
  <2>3. UNCHANGED <<cache, clashed>>
    BY <1>2 DEF Resolve
  <2>4. QED
    BY <2>2, <2>3 DEF CacheInv, CacheTypes, OneAwaits, Awaiting, VictimStays, CacheBounded,
                      GivenWhatItResolved
<1>3. ASSUME NEW q \in Requests, Finish(q) PROVE CacheInv'
  <2>1. RequestTypes' /\ req'[q].at = "idle" /\ \A r \in Requests : r # q => req'[r] = req[r]
    BY <1>3 DEF Finish, CacheInv, RequestTypes, NoRequest
  <2>2. UNCHANGED <<cache, clashed>>
    BY <1>3 DEF Finish
  <2>3. QED
    BY <2>1, <2>2 DEF CacheInv, CacheTypes, OneAwaits, Awaiting, VictimStays, CacheBounded,
                      GivenWhatItResolved
<1>4. ASSUME NEW q \in Requests, Lookup(q) PROVE CacheInv'
  <2>0. req[q].at = "lookup" /\ req[q].org \in Orgs /\ req[q].db \in Databases
    BY <1>0, <1>4 DEF Lookup
  <2>1. CASE Hit(q) /\ UNCHANGED <<cache, clashed>>
    <3>1. Give(q, req[q].db)
      BY <2>1 DEF Hit
    <3>2. /\ req'[q].at = "use" /\ req'[q].client = req[q].db
          /\ req'[q].org = req[q].org /\ req'[q].db = req[q].db
          /\ \A r \in Requests : r # q => req'[r] = req[r]
          /\ RequestTypes'
      BY <2>0, <3>1, GiveTypes DEF CacheInv, RequestTypes
    <3>3. QED
      BY <2>1, <3>2 DEF CacheInv, CacheTypes, OneAwaits, Awaiting, VictimStays, CacheBounded,
                        GivenWhatItResolved
  <2>2. CASE Await(q, "rotate", req[q].org)
    <3>1. q \notin Awaiting
      BY <2>0 DEF Awaiting
    <3>2. /\ req' = [req EXCEPT ![q].at = "rotate", ![q].victim = req[q].org]
          /\ clashed' = (clashed \/ Awaiting \ {q} # {}) /\ cache' = cache
      BY <2>2, <3>1 DEF Await
    <3>3. cache' \in Seq(Entry) /\ KeysAreUnique(cache') /\ Len(cache') <= Len(cache)
      BY <1>0, <3>2
    <3>4. "rotate" \in {"rotate", "evict"} /\ "rotate" # "evict"
      OBVIOUS
    <3>5. req[q].at \in {"lookup", "rotate"}
      BY <2>0
    <3>6. QED
      BY <2>0, <3>2, <3>3, <3>4, <3>5, AwaitKeepsCache
  <2>3. CASE MakeRoom(q, cache)
    BY <1>0, <2>0, <2>3, RoomKeepsCache
  <2>4. QED
    BY <1>4, <2>1, <2>2, <2>3 DEF Lookup
<1>5. ASSUME NEW q \in Requests, Rotated(q) PROVE CacheInv'
  <2>1. req[q].at = "rotate" /\ req[q].org \in Orgs /\ MakeRoom(q, Without(req[q].org))
    BY <1>0, <1>5 DEF Rotated
  <2>2. /\ Without(req[q].org) \in Seq(Entry) /\ KeysAreUnique(Without(req[q].org))
        /\ Len(Without(req[q].org)) <= Len(cache)
    BY <1>0, <2>1, WithoutEffect
  <2>3. QED
    BY <2>1, <2>2, RoomKeepsCache
<1>6. ASSUME NEW q \in Requests, Evicted(q) PROVE CacheInv'
  <2>1. /\ req[q].at = "evict" /\ req[q].victim \in Orgs /\ UNCHANGED clashed
        /\ cache' = With(Without(req[q].victim), req[q].org, req[q].db) /\ Give(q, req[q].db)
    BY <1>6 DEF Evicted, CacheInv, RequestTypes
  <2>2. /\ Without(req[q].victim) \in Seq(Entry) /\ KeysAreUnique(Without(req[q].victim))
        /\ HasKey(cache, req[q].victim) => Len(Without(req[q].victim)) = Len(cache) - 1
    BY <1>0, <2>1, WithoutEffect
  <2>3. ~clashed => Len(Without(req[q].victim)) < MAX_CACHED_TENANT_CLIENTS
    BY <1>0, <2>1, <2>2, TenancyAssumption DEF CacheInv, VictimStays, CacheBounded
  <2>4. QED
    BY <2>1, <2>2, <2>3, SetKeepsCache
<1>7. ASSUME NEW a \in Admins,
             \/ Mark(a) \/ Migrate(a) \/ SaveReady(a) \/ SaveFailed(a) \/ Die(a)
             \/ \E o \in Orgs, d \in Databases : Validate(a, o, d)
      PROVE  CacheInv'
  BY <1>1, <1>7 DEF Mark, Migrate, SaveReady, SaveFailed, Die, Validate
<1>8. ASSUME NEW o \in Orgs, Clear(o) PROVE CacheInv'
  BY <1>1, <1>8 DEF Clear
<1>9. CASE UNCHANGED vars
  BY <1>1, <1>9 DEF vars
<1>10. QED
  BY <1>2, <1>3, <1>4, <1>5, <1>6, <1>7, <1>8, <1>9 DEF Next

\* A request is given a client of the connection it resolved, whatever is rotated and
\* evicted while it awaits; and the cache is bounded unless two requests awaited a
\* disconnect at one time.
THEOREM ClientsAreSound == Spec => []CacheSound
PROOF
<1>1. CacheInv => CacheSound
  BY DEF CacheInv, CacheSound
<1>2. QED
  BY <1>1, CentralAlways, CacheInit, CacheStep, PTL DEF Spec


-----------------------------------------------------------------------------

BudgetTypes == saves \in 0..MaxSaves /\ crashes \in 0..MaxCrashes

LEMMA BudgetInit == Init => BudgetTypes
PROOF BY TenancyAssumption DEF Init, BudgetTypes

LEMMA BudgetStep == BudgetTypes /\ [Next]_vars => BudgetTypes'
PROOF
<1> SUFFICES ASSUME BudgetTypes, [Next]_vars PROVE BudgetTypes'
  OBVIOUS
<1> USE TenancyAssumption DEF BudgetTypes
<1>1. CASE saves < MaxSaves /\ saves' = saves + 1 /\ crashes' = crashes
  BY <1>1
<1>2. CASE crashes < MaxCrashes /\ crashes' = crashes + 1 /\ saves' = saves
  BY <1>2
<1>3. CASE UNCHANGED budget
  BY <1>3 DEF budget
<1>4. QED
  BY <1>1, <1>2, <1>3 DEF Next, vars, budget, Validate, Mark, Migrate, SaveReady, SaveFailed,
                          Die, Clear, Resolve, Lookup, Rotated, Evicted, Finish

\* Every value stays in its type, the queue of cached clients included.
THEOREM TypesAreKept == Spec => []TypeOK
PROOF
<1>1. CentralInv /\ CacheInv /\ BudgetTypes => TypeOK
  BY DEF CentralInv, CentralTypes, SavedMeansMigrated, CacheInv, RequestTypes, CacheTypes,
         BudgetTypes, TypeOK
<1>2. QED
  BY <1>1, CentralAlways, CacheInit, CacheStep, BudgetInit, BudgetStep, PTL DEF Spec
=============================================================================
