------------------------------ MODULE ResultsProofs ------------------------------
(***************************************************************************)
(* For any number of pages, audit steps, runs and measurements, and any     *)
(* keep window: a result's evidence is its own, the cards show the newest   *)
(* result, and pruning leaves the keep window, up to the exceptions the     *)
(* properties name.                                                         *)
(***************************************************************************)
EXTENDS Results, FiniteSetTheorems, WellFoundedInduction, TLAPS

SomePage == CHOOSE p \in Pages : TRUE
Busy == {w \in Writers : writer[w].at # "idle"}
Waiting == {w \in Writers : writer[w].at \in {"store", "create"}}

WriterRecord == [at : {"idle", "store", "create", "commit"}, run : Runs,
                 page : Pages \cup {SomePage}, createdAt : Moment, evidence : Moment,
                 alone : BOOLEAN]

\* The page of a step that is idle means nothing.
WriterTypes == writer \in [Writers -> WriterRecord] /\ \A w \in Busy : writer[w].page \in Pages

\* Every row is a measurement of its own.
CountTypes ==
  /\ measured \in Moment /\ created \in Nat
  /\ IsFiniteSet(Waiting) /\ created + Cardinality(Waiting) <= measured

RowTypes ==
  /\ run \in [Runs -> {"none", "open", "terminal", "deleted"}]
  /\ results \subseteq Row /\ IsFiniteSet(results)
  /\ pointer \in [Pages -> Moment]
  /\ blob \in [Runs -> [Pages -> Moment]]

CleanerTypes ==
  /\ pruning \in [at : {"idle", "rows", "blobs"}, rows : SUBSET Row, runs : {{}},
                  keys : SUBSET (Runs \X Pages)]
  /\ removing \in [at : {"idle", "keys", "rows", "blobs"}, rows : {{}}, runs : SUBSET Runs,
                   keys : SUBSET (Runs \X Pages)]

NoteTypes == again \subseteq Runs \X Pages /\ raced \subseteq Pages /\ thinned \in BOOLEAN

PlainTypes == WriterTypes /\ CountTypes /\ RowTypes /\ CleanerTypes /\ NoteTypes

LEMMA Assumed ==
  ASSUME ResultsAssumption
  PROVE  /\ MaxMeasured \in Nat /\ MaxRuns \in Nat /\ Keep \in Nat /\ Keep > 1
         /\ 1 \in Runs /\ 0 \in Moment /\ NoWrite \in WriterRecord /\ NoWrite.at = "idle"
PROOF BY DEF ResultsAssumption, Runs, Moment, NoWrite, WriterRecord, SomePage

\* No more rows than measurements: the stamp of a row is one of them.
LEMMA CreatedIsMoment ==
  ASSUME ResultsAssumption, CountTypes
  PROVE  /\ created \in Moment
         /\ \A w \in Waiting : created + 1 \in Moment
PROOF
<1>1. Cardinality(Waiting) \in Nat
  BY FS_CardinalityType DEF CountTypes
<1>2. \A w \in Waiting : Cardinality(Waiting) # 0
  BY FS_EmptySet DEF CountTypes
<1>3. QED
  BY <1>1, <1>2, Assumed DEF CountTypes, Moment

\* One step of auditPage goes on or ends; the others stay as they are.
LEMMA WriterGoes ==
  ASSUME ResultsAssumption, PlainTypes, NEW w \in Writers, NEW r \in WriterRecord,
         writer' = [writer EXCEPT ![w] = r], r.at = "idle" \/ r.page \in Pages
  PROVE  /\ WriterTypes'
         /\ writer'[w] = r
         /\ \A v \in Writers : v # w => writer'[v] = writer[v]
         /\ Waiting' = IF r.at \in {"store", "create"} THEN Waiting \cup {w} ELSE Waiting \ {w}
PROOF BY DEF PlainTypes, WriterTypes, Busy, Waiting

\* The counts follow from whether the step has inserted its row.
LEMMA CountsKept ==
  ASSUME CountTypes, UNCHANGED measured,
         \/ Waiting' = Waiting /\ created' = created
         \/ \E w \in Writers :
              /\ Waiting' = Waiting \ {w}
              /\ created' = created \/ (w \in Waiting /\ created' = created + 1)
  PROVE  CountTypes'
PROOF
<1>1. Cardinality(Waiting) \in Nat
  BY FS_CardinalityType DEF CountTypes
<1>2. CASE Waiting' = Waiting /\ created' = created
  BY <1>2 DEF CountTypes
<1>3. ASSUME NEW w \in Writers, Waiting' = Waiting \ {w},
             created' = created \/ (w \in Waiting /\ created' = created + 1)
      PROVE  CountTypes'
  <2>1. /\ IsFiniteSet(Waiting')
        /\ Cardinality(Waiting') = IF w \in Waiting THEN Cardinality(Waiting) - 1
                                   ELSE Cardinality(Waiting)
    BY <1>3, FS_RemoveElement DEF CountTypes
  <2>2. /\ Cardinality(Waiting') \in Nat
        /\ created' + Cardinality(Waiting') <= created + Cardinality(Waiting)
    <3>1. CASE created' = created
      BY <1>1, <2>1, <3>1, FS_CardinalityType DEF CountTypes
    <3>2. CASE w \in Waiting /\ created' = created + 1
      BY <1>1, <2>1, <3>2, FS_CardinalityType DEF CountTypes
    <3>3. QED
      BY <1>3, <3>1, <3>2
  <2>3. created' \in Nat /\ measured \in Nat
    BY <1>3 DEF CountTypes, Moment
  <2>4. QED
    BY <1>1, <2>1, <2>2, <2>3 DEF CountTypes
<1>4. QED
  BY <1>2, <1>3

LEMMA MeasureTypes ==
  ASSUME ResultsAssumption, PlainTypes,
         NEW w \in Writers, NEW r \in Runs, NEW p \in Pages, Measure(w, r, p)
  PROVE  PlainTypes'
PROOF
<1> DEFINE x == [NoWrite EXCEPT !.at = "store", !.run = r, !.page = p, !.evidence = measured']
<1>1. measured' = measured + 1 /\ measured' \in Moment /\ UNCHANGED created
  BY Assumed DEF Measure, PlainTypes, CountTypes, Moment
<1>2. x \in WriterRecord /\ x.at = "store" /\ x.page = p
  BY <1>1, Assumed DEF NoWrite, WriterRecord
<1>3. writer' = [writer EXCEPT ![w] = x]
  BY DEF Measure
<1> HIDE DEF x
<1>4. WriterTypes' /\ Waiting' = Waiting \cup {w}
  BY <1>2, <1>3, WriterGoes
<1>5. CountTypes'
  <2>1. Cardinality(Waiting) \in Nat
    BY FS_CardinalityType DEF PlainTypes, CountTypes
  <2>2. IsFiniteSet(Waiting') /\ Cardinality(Waiting') <= Cardinality(Waiting) + 1
    <3>1. IsFiniteSet(Waiting)
      BY DEF PlainTypes, CountTypes
    <3>2. /\ IsFiniteSet(Waiting \cup {w})
          /\ Cardinality(Waiting \cup {w}) = IF w \in Waiting THEN Cardinality(Waiting)
                                             ELSE Cardinality(Waiting) + 1
      BY <3>1, FS_AddElement
    <3>3. QED
      BY <1>4, <2>1, <3>2
  <2>3. Cardinality(Waiting') \in Nat
    BY <2>2, FS_CardinalityType
  <2>4. QED
    BY <1>1, <2>1, <2>2, <2>3, Assumed DEF PlainTypes, CountTypes, Moment
<1>6. RowTypes' /\ CleanerTypes' /\ NoteTypes'
  BY DEF Measure, PlainTypes, RowTypes, CleanerTypes, NoteTypes
<1>7. QED
  BY <1>4, <1>5, <1>6 DEF PlainTypes

LEMMA StoreTypes ==
  ASSUME ResultsAssumption, PlainTypes, NEW w \in Writers, Store(w)
  PROVE  PlainTypes'
PROOF
<1>1. /\ writer[w] \in WriterRecord /\ writer[w].at = "store" /\ writer[w].page \in Pages
      /\ w \in Waiting
  BY DEF Store, PlainTypes, WriterTypes, Busy, Waiting
<1>2. PICK r \in WriterRecord :
        writer' = [writer EXCEPT ![w] = r] /\ r.at = "create" /\ r.page = writer[w].page
  <2>1. /\ [writer[w] EXCEPT !.at = "create"] \in WriterRecord
        /\ [writer[w] EXCEPT !.at = "create", !.evidence = 0] \in WriterRecord
    BY <1>1, Assumed DEF WriterRecord
  <2>2. \/ writer' = [writer EXCEPT ![w] = [writer[w] EXCEPT !.at = "create"]]
        \/ writer' = [writer EXCEPT ![w] = [writer[w] EXCEPT !.at = "create", !.evidence = 0]]
    BY DEF Store, PlainTypes, WriterTypes
  <2>3. QED
    BY <1>1, <2>1, <2>2 DEF WriterRecord
<1>3. WriterTypes' /\ Waiting' = Waiting
  <2>1. r.page \in Pages /\ r.at \in {"store", "create"}
    BY <1>1, <1>2
  <2>2. WriterTypes' /\ Waiting' = Waiting \cup {w}
    BY <1>2, <2>1, WriterGoes
  <2>3. QED
    BY <1>1, <2>2
<1>4. CountTypes'
  BY <1>3, CountsKept DEF Store, PlainTypes
<1>5. blob' \in [Runs -> [Pages -> Moment]]
  <2>1. writer[w].run \in Runs /\ writer[w].evidence \in Moment
    BY <1>1 DEF WriterRecord
  <2>2. \/ blob' = [blob EXCEPT ![writer[w].run][writer[w].page] = writer[w].evidence]
        \/ blob' = blob
    BY DEF Store
  <2>3. blob \in [Runs -> [Pages -> Moment]]
    BY DEF PlainTypes, RowTypes
  <2>4. [blob EXCEPT ![writer[w].run][writer[w].page] = writer[w].evidence]
          \in [Runs -> [Pages -> Moment]]
    BY <1>1, <2>1, <2>3
  <2>5. QED
    BY <2>2, <2>3, <2>4, Zenon
<1>6. RowTypes' /\ CleanerTypes' /\ NoteTypes'
  BY <1>5 DEF Store, PlainTypes, RowTypes, CleanerTypes, NoteTypes
<1>7. QED
  BY <1>3, <1>4, <1>6 DEF PlainTypes

\* What Create does to the steps, when it inserts.
LEMMA CreateEffect ==
  ASSUME ResultsAssumption, PlainTypes, NEW w \in Writers, Create(w), created' = created + 1
  PROVE  /\ w \in Waiting
         /\ writer'[w].at = "commit" /\ writer'[w].createdAt = created'
         /\ writer'[w].run = writer[w].run /\ writer'[w].page = writer[w].page
         /\ writer'[w].evidence = writer[w].evidence
         /\ writer'[w].alone <=> \A v \in Inside : writer[v].page # writer[w].page
         /\ \A v \in Writers : v # w =>
              /\ writer'[v].at = writer[v].at /\ writer'[v].createdAt = writer[v].createdAt
              /\ writer'[v].run = writer[v].run /\ writer'[v].page = writer[v].page
              /\ writer'[v].evidence = writer[v].evidence
              /\ writer'[v].alone <=>
                   writer[v].alone /\ ~(v \in Inside /\ writer[v].page = writer[w].page)
         /\ writer' \in [Writers -> WriterRecord]
         /\ run[writer[w].run] # "deleted" /\ ~Written(writer[w].run, writer[w].page)
PROOF
<1> DEFINE beside == {v \in Inside : writer[v].page = writer[w].page}
<1>1. created \in Nat /\ created + 1 # created
  BY DEF PlainTypes, CountTypes
<1>2. /\ writer' = [v \in Writers |->
           IF v = w THEN [writer[w] EXCEPT !.at = "commit", !.createdAt = created',
                                           !.alone = (beside = {})]
           ELSE IF v \in beside THEN [writer[v] EXCEPT !.alone = FALSE] ELSE writer[v]]
      /\ ~(run[writer[w].run] = "deleted" \/ Written(writer[w].run, writer[w].page))
      /\ writer[w].at = "create"
  BY <1>1 DEF Create
<1>3. w \in Waiting
  BY <1>2 DEF Waiting
<1>4. created' \in Moment
  BY <1>3, CreatedIsMoment DEF PlainTypes
<1>5. \A v \in Writers : writer[v] \in WriterRecord
  BY DEF PlainTypes, WriterTypes
<1> HIDE DEF beside
<1>6. /\ writer'[w] = [writer[w] EXCEPT !.at = "commit", !.createdAt = created',
                                        !.alone = (beside = {})]
      /\ writer'[w] \in WriterRecord
  BY <1>2, <1>4, <1>5 DEF WriterRecord
<1>7. ASSUME NEW v \in Writers, v # w
      PROVE  /\ writer'[v] = IF v \in beside THEN [writer[v] EXCEPT !.alone = FALSE] ELSE writer[v]
             /\ writer'[v] \in WriterRecord
  BY <1>2, <1>5, <1>7 DEF WriterRecord
<1>8. writer' \in [Writers -> WriterRecord]
  BY <1>2, <1>6, <1>7
<1>9. beside = {} <=> \A v \in Inside : writer[v].page # writer[w].page
  BY DEF beside
<1>10. /\ writer'[w].at = "commit" /\ writer'[w].createdAt = created'
       /\ writer'[w].run = writer[w].run /\ writer'[w].page = writer[w].page
       /\ writer'[w].evidence = writer[w].evidence
       /\ writer'[w].alone = (beside = {})
  BY <1>5, <1>6 DEF WriterRecord
<1>11. ASSUME NEW v \in Writers, v # w
       PROVE  /\ writer'[v].at = writer[v].at /\ writer'[v].createdAt = writer[v].createdAt
              /\ writer'[v].run = writer[v].run /\ writer'[v].page = writer[v].page
              /\ writer'[v].evidence = writer[v].evidence
              /\ writer'[v].alone <=>
                   writer[v].alone /\ ~(v \in Inside /\ writer[v].page = writer[w].page)
  <2>1. CASE v \in beside
    BY <1>5, <1>7, <1>11, <2>1 DEF WriterRecord, beside
  <2>2. CASE v \notin beside
    BY <1>7, <1>11, <2>2 DEF beside
  <2>3. QED
    BY <2>1, <2>2
<1>12. QED
  BY <1>2, <1>3, <1>8, <1>9, <1>10, <1>11

LEMMA CreateTypes ==
  ASSUME ResultsAssumption, PlainTypes, NEW w \in Writers, Create(w)
  PROVE  PlainTypes'
PROOF
<1>1. RowTypes' /\ CleanerTypes' /\ NoteTypes' /\ UNCHANGED measured
  BY DEF Create, PlainTypes, RowTypes, CleanerTypes, NoteTypes
<1>2. CASE writer' = [writer EXCEPT ![w] = NoWrite] /\ UNCHANGED created
  <2>1. WriterTypes' /\ Waiting' = Waiting \ {w}
    BY <1>2, Assumed, WriterGoes
  <2>2. CountTypes'
    BY <1>1, <1>2, <2>1, CountsKept DEF PlainTypes
  <2>3. QED
    BY <1>1, <2>1, <2>2 DEF PlainTypes
<1>3. CASE created' = created + 1
  <2>1. w \in Waiting /\ Waiting' = Waiting \ {w}
    BY <1>3, CreateEffect DEF Waiting
  <2>2. WriterTypes'
    BY <1>3, CreateEffect DEF PlainTypes, WriterTypes, Busy, Waiting
  <2>3. CountTypes'
    BY <1>1, <1>3, <2>1, CountsKept DEF PlainTypes
  <2>4. QED
    BY <1>1, <2>2, <2>3 DEF PlainTypes
<1>4. QED
  BY <1>2, <1>3 DEF Create

\* The row a transaction commits.
RowOf(w) == [createdAt |-> writer[w].createdAt, run |-> writer[w].run,
             page |-> writer[w].page, evidence |-> writer[w].evidence]

LEMMA CommitEffect ==
  ASSUME ResultsAssumption, PlainTypes, NEW w \in Writers, Commit(w)
  PROVE  /\ w \in Inside /\ RowOf(w) \in Row /\ writer[w].page \in Pages
         /\ results' = results \cup {RowOf(w)}
         /\ \A p \in Pages : pointer'[p] = IF p = writer[w].page THEN writer[w].createdAt
                                           ELSE pointer[p]
         /\ writer'[w] = NoWrite
         /\ \A v \in Writers : v # w => writer'[v] = writer[v]
         /\ PlainTypes'
PROOF
<1>1. /\ w \in Inside /\ writer[w] \in WriterRecord /\ writer[w].page \in Pages
  BY DEF Commit, Inside, PlainTypes, WriterTypes, Busy
<1>2. RowOf(w) \in Row
  BY <1>1 DEF RowOf, Row, WriterRecord
<1>3. results' = results \cup {RowOf(w)} /\ pointer' = Point(w)
      /\ writer' = [writer EXCEPT ![w] = NoWrite]
  BY DEF Commit, RowOf
<1>4. /\ WriterTypes' /\ writer'[w] = NoWrite /\ \A v \in Writers : v # w => writer'[v] = writer[v]
      /\ Waiting' = Waiting \ {w}
  BY <1>3, Assumed, WriterGoes
<1>5. CountTypes'
  BY <1>4, CountsKept DEF Commit, PlainTypes
<1>6. writer[w].createdAt \in Moment
  BY <1>1 DEF WriterRecord
<1>7. /\ pointer' \in [Pages -> Moment]
      /\ \A p \in Pages : pointer'[p] = IF p = writer[w].page THEN writer[w].createdAt ELSE pointer[p]
  BY <1>1, <1>3, <1>6 DEF Point, PlainTypes, RowTypes
<1>8. IsFiniteSet(results')
  BY <1>3, FS_AddElement DEF PlainTypes, RowTypes
<1>9. RowTypes' /\ CleanerTypes' /\ NoteTypes'
  BY <1>1, <1>2, <1>3, <1>7, <1>8 DEF Commit, PlainTypes, RowTypes, CleanerTypes, NoteTypes
<1>10. QED
  BY <1>1, <1>2, <1>3, <1>4, <1>5, <1>7, <1>9 DEF PlainTypes

LEMMA TypesStep ==
  ASSUME ResultsAssumption, PlainTypes, [ResultsNext]_resultVars
  PROVE  PlainTypes'
PROOF
<1>1. ASSUME NEW w \in Writers, WriterDies(w) PROVE PlainTypes'
  <2>1. WriterTypes' /\ Waiting' = Waiting \ {w}
    BY <1>1, Assumed, WriterGoes DEF WriterDies
  <2>2. CountTypes'
    BY <1>1, <2>1, CountsKept DEF WriterDies, PlainTypes
  <2>3. QED
    BY <1>1, <2>1, <2>2 DEF WriterDies, PlainTypes, RowTypes, CleanerTypes, NoteTypes
<1>2. ASSUME UNCHANGED <<writer, measured, created>> PROVE WriterTypes' /\ CountTypes'
  BY <1>2 DEF PlainTypes, WriterTypes, CountTypes, Busy, Waiting
<1>3. ASSUME NEW r \in Runs, Open(r) \/ Close(r) PROVE PlainTypes'
  <2>1. RowTypes'
    BY <1>3 DEF Open, Close, PlainTypes, RowTypes
  <2>2. QED
    BY <1>2, <1>3, <2>1 DEF Open, Close, PlainTypes, CleanerTypes, NoteTypes
<1>4. CASE ReadStale
  <2>1. Stale \in SUBSET Row /\ KeysOf(Stale) \in SUBSET (Runs \X Pages)
    BY DEF Stale, KeysOf, Row, PlainTypes, RowTypes
  <2>2. CleanerTypes'
    BY <1>4, <2>1 DEF ReadStale, NoWork, PlainTypes, CleanerTypes
  <2>3. QED
    BY <1>2, <1>4, <2>2 DEF ReadStale, PlainTypes, RowTypes, NoteTypes
<1>5. CASE PruneRows
  <2>1. results' \subseteq results /\ IsFiniteSet(results')
    BY <1>5, FS_Subset DEF PruneRows, PlainTypes, RowTypes
  <2>2. RowTypes'
    BY <1>5, <2>1 DEF PruneRows, PlainTypes, RowTypes
  <2>3. CleanerTypes'
    BY <1>5 DEF PruneRows, PlainTypes, CleanerTypes
  <2>4. QED
    BY <1>2, <1>5, <2>2, <2>3 DEF PruneRows, PlainTypes, NoteTypes
<1>6. ASSUME NEW keys, blob' = Without(keys) PROVE blob' \in [Runs -> [Pages -> Moment]]
  BY <1>6, Assumed DEF Without, PlainTypes, RowTypes
<1>7. CASE PruneBlobs
  BY <1>2, <1>6, <1>7 DEF PruneBlobs, NoWork, PlainTypes, RowTypes, CleanerTypes, NoteTypes
<1>8. ASSUME NEW r \in Runs, ReadRuns({r}) PROVE PlainTypes'
  <2>1. Deletable({r}) \in SUBSET Runs
    BY DEF Deletable
  <2>2. CleanerTypes'
    BY <1>8, <2>1 DEF ReadRuns, NoWork, PlainTypes, CleanerTypes
  <2>3. QED
    BY <1>2, <1>8, <2>2 DEF ReadRuns, PlainTypes, RowTypes, NoteTypes
<1>9. CASE ReadKeys
  <2>1. RunKeys \in SUBSET (Runs \X Pages)
    BY DEF RunKeys, KeysOf, Row, PlainTypes, RowTypes
  <2>2. CleanerTypes'
    BY <1>9, <2>1 DEF ReadKeys, PlainTypes, CleanerTypes
  <2>3. QED
    BY <1>2, <1>9, <2>2 DEF ReadKeys, PlainTypes, RowTypes, NoteTypes
<1>10. CASE RemoveRuns
  <2>1. results' \subseteq results /\ IsFiniteSet(results')
    BY <1>10, FS_Subset DEF RemoveRuns, PlainTypes, RowTypes
  <2>2. RowTypes'
    BY <1>10, <2>1 DEF RemoveRuns, PlainTypes, RowTypes
  <2>3. CleanerTypes'
    BY <1>10 DEF RemoveRuns, PlainTypes, CleanerTypes
  <2>4. NoteTypes'
    BY <1>10 DEF RemoveRuns, PlainTypes, RowTypes, NoteTypes, Row
  <2>5. QED
    BY <1>2, <1>10, <2>2, <2>3, <2>4 DEF RemoveRuns, PlainTypes
<1>11. CASE RemoveBlobs
  BY <1>2, <1>6, <1>11 DEF RemoveBlobs, NoWork, PlainTypes, RowTypes, CleanerTypes, NoteTypes
<1>12. CASE CleanerDies
  BY <1>2, <1>12 DEF CleanerDies, NoWork, PlainTypes, RowTypes, CleanerTypes, NoteTypes
<1>13. CASE UNCHANGED resultVars
  BY <1>2, <1>13 DEF resultVars, PlainTypes, RowTypes, CleanerTypes, NoteTypes
<1>14. QED
  BY <1>1, <1>3, <1>4, <1>5, <1>7, <1>8, <1>9, <1>10, <1>11, <1>12, <1>13,
     MeasureTypes, StoreTypes, CreateTypes, CommitEffect DEF ResultsNext

LEMMA TypesInit == ASSUME ResultsAssumption PROVE ResultsInit => PlainTypes
PROOF
<1> SUFFICES ASSUME ResultsInit PROVE PlainTypes
  OBVIOUS
<1>1. Waiting = {} /\ WriterTypes
  BY Assumed DEF ResultsInit, WriterTypes, Busy, Waiting
<1>2. CountTypes
  BY <1>1, FS_EmptySet, Assumed DEF ResultsInit, CountTypes, Moment
<1>3. RowTypes /\ CleanerTypes /\ NoteTypes
  BY FS_EmptySet, Assumed DEF ResultsInit, NoWork, RowTypes, CleanerTypes, NoteTypes
<1>4. QED
  BY <1>1, <1>2, <1>3 DEF PlainTypes

\* What the steps of a writer do to it, and that the others are left alone.
LEMMA MeasureEffect ==
  ASSUME ResultsAssumption, PlainTypes,
         NEW w \in Writers, NEW r \in Runs, NEW p \in Pages, Measure(w, r, p)
  PROVE  /\ writer[w].at = "idle" /\ run[r] = "open"
         /\ writer'[w].at = "store" /\ writer'[w].run = r /\ writer'[w].page = p
         /\ \A v \in Writers : v # w => writer'[v] = writer[v]
         /\ UNCHANGED <<run, results, pointer, blob, pruning, removing, created, raced, thinned>>
         /\ again \subseteq again'
         /\ \/ <<r, p>> \in again'
            \/ /\ ~Written(r, p) /\ blob[r][p] = 0
               /\ \A v \in Busy : ~(writer[v].run = r /\ writer[v].page = p)
PROOF
<1>1. /\ \A v \in Writers : v # w => writer'[v] = writer[v]
      /\ writer'[w] = [NoWrite EXCEPT !.at = "store", !.run = r, !.page = p, !.evidence = measured']
  BY DEF Measure, PlainTypes, WriterTypes
<1>2. writer'[w].at = "store" /\ writer'[w].run = r /\ writer'[w].page = p
  BY <1>1 DEF NoWrite
<1>3. QED
  BY <1>1, <1>2 DEF Measure, Busy

LEMMA StoreEffect ==
  ASSUME ResultsAssumption, PlainTypes, NEW w \in Writers, Store(w)
  PROVE  /\ writer[w].at = "store" /\ writer[w].run \in Runs /\ writer[w].page \in Pages
         /\ writer'[w].at = "create"
         /\ writer'[w].run = writer[w].run /\ writer'[w].page = writer[w].page
         /\ \A v \in Writers : v # w => writer'[v] = writer[v]
         /\ \/ writer'[w].evidence = 0 /\ blob' = blob
            \/ blob'[writer[w].run][writer[w].page] = writer'[w].evidence
         /\ \A r \in Runs, p \in Pages :
              (r = writer[w].run /\ p = writer[w].page) \/ blob'[r][p] = blob[r][p]
         /\ UNCHANGED <<run, results, pointer, pruning, removing, created, again, raced, thinned>>
PROOF
<1>1. writer[w] \in WriterRecord /\ writer[w].at = "store" /\ writer[w].page \in Pages
  BY DEF Store, PlainTypes, WriterTypes, Busy
<1>2. writer[w].run \in Runs
  BY <1>1 DEF WriterRecord
<1>3. \A v \in Writers : v # w => writer'[v] = writer[v]
  BY DEF Store, PlainTypes, WriterTypes
<1>4. CASE /\ blob' = [blob EXCEPT ![writer[w].run][writer[w].page] = writer[w].evidence]
           /\ writer' = [writer EXCEPT ![w].at = "create"]
  <2>1. writer'[w] = [writer[w] EXCEPT !.at = "create"]
    BY <1>4 DEF PlainTypes, WriterTypes
  <2>2. /\ writer'[w].at = "create" /\ writer'[w].run = writer[w].run
        /\ writer'[w].page = writer[w].page /\ writer'[w].evidence = writer[w].evidence
    BY <1>1, <2>1 DEF WriterRecord
  <2>3. \A r \in Runs, p \in Pages :
          blob'[r][p] = IF r = writer[w].run /\ p = writer[w].page THEN writer[w].evidence
                        ELSE blob[r][p]
    BY <1>1, <1>2, <1>4 DEF PlainTypes, RowTypes
  <2>4. QED
    BY <1>1, <1>2, <1>3, <2>2, <2>3 DEF Store
<1>5. CASE writer' = [writer EXCEPT ![w].at = "create", ![w].evidence = 0] /\ blob' = blob
  <2>1. writer'[w] = [writer[w] EXCEPT !.at = "create", !.evidence = 0]
    BY <1>5 DEF PlainTypes, WriterTypes
  <2>2. /\ writer'[w].at = "create" /\ writer'[w].run = writer[w].run
        /\ writer'[w].page = writer[w].page /\ writer'[w].evidence = 0
    BY <1>1, <2>1 DEF WriterRecord
  <2>3. QED
    BY <1>1, <1>2, <1>3, <1>5, <2>2 DEF Store
<1>6. QED
  BY <1>4, <1>5 DEF Store

LEMMA EndEffect ==
  ASSUME ResultsAssumption, PlainTypes, NEW w \in Writers, writer' = [writer EXCEPT ![w] = NoWrite]
  PROVE  writer'[w].at = "idle" /\ \A v \in Writers : v # w => writer'[v] = writer[v]
PROOF BY Assumed DEF PlainTypes, WriterTypes

-----------------------------------------------------------------------------
(* What a transaction that has inserted holds. *)

\* One row of a page and a run; a transaction that is about to commit holds its key, and
\* a run it refers to is there.  Runs that are being removed are closed.
Holds(w) == run[writer[w].run] # "deleted" /\ ~Written(writer[w].run, writer[w].page)
Inserted ==
  /\ \A x, y \in results : x.run = y.run /\ x.page = y.page => x = y
  /\ \A x \in results : run[x.run] \notin {"none", "deleted"}
  /\ \A w \in Busy : run[writer[w].run] # "none"
  /\ \A w \in Inside : Holds(w)
  /\ \A v, w \in Inside :
       writer[v].run = writer[w].run /\ writer[v].page = writer[w].page => v = w
  /\ removing.at # "idle" => \A r \in removing.runs : run[r] \in {"terminal", "deleted"}
  /\ removing.at = "rows" => \A k \in removing.keys : k[1] \in removing.runs
  /\ removing.at = "blobs" => \A k \in removing.keys : run[k[1]] = "deleted"

\* Steps that leave the rows alone and let nobody into a transaction.
LEMMA NobodyInserts ==
  ASSUME PlainTypes, Inserted, UNCHANGED <<run, results, removing>>,
         \A w \in Writers :
           /\ writer'[w].at # "idle" =>
                \/ run[writer'[w].run] # "none"
                \/ w \in Busy /\ writer'[w].run = writer[w].run
           /\ writer'[w].at = "commit" =>
                /\ w \in Inside
                /\ writer'[w].run = writer[w].run /\ writer'[w].page = writer[w].page
  PROVE  Inserted'
PROOF
<1>1. Inside' \subseteq Inside
  BY DEF Inside
<1>2. \A w \in Inside' : writer'[w].run = writer[w].run /\ writer'[w].page = writer[w].page
  BY DEF Inside
<1>3. \A w \in Busy' : run'[writer'[w].run] # "none"
  BY DEF Busy, Inserted
<1>4. QED
  BY <1>1, <1>2, <1>3 DEF Inserted, Holds, Written

LEMMA CreateInserted ==
  ASSUME ResultsAssumption, PlainTypes, Inserted, NEW w \in Writers, Create(w)
  PROVE  Inserted'
PROOF
<1>1. UNCHANGED <<run, results, removing>> /\ writer[w].at = "create"
  BY DEF Create
<1>2. CASE writer' = [writer EXCEPT ![w] = NoWrite]
  BY <1>1, <1>2, EndEffect, NobodyInserts DEF Busy, Inside
<1>3. CASE created' = created + 1
  <2>1. /\ writer'[w].at = "commit"
        /\ \A v \in Writers : v # w => writer'[v].at = writer[v].at
        /\ \A v \in Writers : writer'[v].run = writer[v].run /\ writer'[v].page = writer[v].page
        /\ run[writer[w].run] # "deleted" /\ ~Written(writer[w].run, writer[w].page)
    BY <1>3, CreateEffect
  <2>2. Inside' = Inside \cup {w} /\ Busy' = Busy
    BY <1>1, <2>1 DEF Inside, Busy
  <2>3. \A v \in Inside : writer[v].run # writer[w].run \/ writer[v].page # writer[w].page
    BY DEF Create
  <2>4. \A v \in Inside' : v \in Writers
    BY DEF Inside
  <2>5. /\ (\A v \in Inside : Holds(v))'
        /\ \A u, v \in Inside' :
             writer'[u].run = writer'[v].run /\ writer'[u].page = writer'[v].page => u = v
    BY <1>1, <2>1, <2>2, <2>3, <2>4 DEF Inserted, Holds, Written
  <2>6. \A v \in Busy' : run'[writer'[v].run] # "none"
    BY <1>1, <2>1, <2>2 DEF Inserted, Busy
  <2>7. QED
    BY <1>1, <2>5, <2>6 DEF Inserted
<1>4. QED
  BY <1>2, <1>3 DEF Create

LEMMA CommitInserted ==
  ASSUME ResultsAssumption, PlainTypes, Inserted, NEW w \in Writers, Commit(w)
  PROVE  Inserted'
PROOF
<1>1. /\ w \in Inside /\ results' = results \cup {RowOf(w)}
      /\ writer'[w].at = "idle" /\ \A v \in Writers : v # w => writer'[v] = writer[v]
      /\ UNCHANGED <<run, removing>>
  BY CommitEffect, Assumed DEF Commit
<1>2. /\ Inside' = Inside \ {w} /\ Busy' = Busy \ {w} /\ w \in Busy
      /\ \A v \in Inside' \cup Busy' : v \in Writers /\ v # w /\ writer'[v] = writer[v]
  BY <1>1 DEF Inside, Busy
<1>3. RowOf(w).run = writer[w].run /\ RowOf(w).page = writer[w].page
  BY DEF RowOf
<1>4. \A x \in results : x.run # writer[w].run \/ x.page # writer[w].page
  BY <1>1 DEF Inserted, Holds, Written
<1>5. /\ \A x, y \in results' : x.run = y.run /\ x.page = y.page => x = y
      /\ \A x \in results' : run'[x.run] \notin {"none", "deleted"}
  <2>1. run[RowOf(w).run] \notin {"none", "deleted"}
    BY <1>1, <1>2, <1>3 DEF Inserted, Holds
  <2>2. QED
    BY <1>1, <1>3, <1>4, <2>1 DEF Inserted
<1>6. /\ (\A v \in Inside : Holds(v))'
      /\ \A u, v \in Inside' :
           writer'[u].run = writer'[v].run /\ writer'[u].page = writer'[v].page => u = v
      /\ \A v \in Busy' : run'[writer'[v].run] # "none"
  BY <1>1, <1>2, <1>3 DEF Inserted, Holds, Written
<1>7. QED
  BY <1>1, <1>5, <1>6 DEF Inserted

LEMMA RemoveInserted ==
  ASSUME ResultsAssumption, PlainTypes, Inserted, RemoveRuns
  PROVE  Inserted'
PROOF
<1>1. /\ results' = {x \in results : x.run \notin removing.runs}
      /\ removing.at = "rows" /\ removing.runs \subseteq Runs
      /\ removing' = [removing EXCEPT !.at = "blobs"] /\ UNCHANGED writer
      /\ \A r \in Runs : run'[r] = IF r \in removing.runs THEN "deleted" ELSE run[r]
      /\ \A w \in Inside : writer[w].run \notin removing.runs
  BY DEF RemoveRuns, PlainTypes, CleanerTypes
<1>2. /\ removing'.at = "blobs" /\ removing'.runs = removing.runs
      /\ removing'.keys = removing.keys /\ removing.keys \subseteq Runs \X Pages
  BY <1>1 DEF PlainTypes, CleanerTypes
<1>3. Inside' = Inside /\ Busy' = Busy /\ \A w \in Busy : writer[w].run \in Runs
  BY <1>1 DEF Inside, Busy, PlainTypes, WriterTypes, WriterRecord
<1>4. Inside \subseteq Busy
  BY DEF Inside, Busy
<1>5. \A x \in results' : x \in results /\ x.run \in Runs /\ run'[x.run] = run[x.run]
  BY <1>1 DEF PlainTypes, RowTypes, Row
<1>6. /\ \A x, y \in results' : x.run = y.run /\ x.page = y.page => x = y
      /\ \A x \in results' : run'[x.run] \notin {"none", "deleted"}
  BY <1>5 DEF Inserted
<1>7. /\ \A w \in Busy' : run'[writer'[w].run] # "none"
      /\ (\A w \in Inside : Holds(w))'
      /\ \A v, w \in Inside' :
           writer'[v].run = writer'[w].run /\ writer'[v].page = writer'[w].page => v = w
  BY <1>1, <1>3, <1>4, <1>5 DEF Inserted, Holds, Written
<1>8. /\ \A r \in removing'.runs : run'[r] \in {"terminal", "deleted"}
      /\ \A k \in removing'.keys : run'[k[1]] = "deleted"
  BY <1>1, <1>2 DEF Inserted
<1>9. QED
  BY <1>2, <1>6, <1>7, <1>8 DEF Inserted

LEMMA InsertedStep ==
  ASSUME ResultsAssumption, PlainTypes, Inserted, [ResultsNext]_resultVars
  PROVE  Inserted'
PROOF
<1>1. ASSUME NEW w \in Writers, NEW r \in Runs, NEW p \in Pages, Measure(w, r, p)
      PROVE  Inserted'
  BY <1>1, MeasureEffect, NobodyInserts DEF Busy, Inside
<1>2. ASSUME NEW w \in Writers, Store(w) PROVE Inserted'
  BY <1>2, StoreEffect, NobodyInserts DEF Busy, Inside
<1>3. ASSUME NEW w \in Writers, WriterDies(w) PROVE Inserted'
  <2>1. UNCHANGED <<run, results, removing>> /\ writer' = [writer EXCEPT ![w] = NoWrite]
    BY <1>3 DEF WriterDies
  <2>2. QED
    BY <2>1, EndEffect, NobodyInserts DEF Busy, Inside
<1>4. ASSUME NEW r \in Runs, Open(r) \/ Close(r) PROVE Inserted'
  <2>1. /\ UNCHANGED <<results, writer, removing>>
        /\ run[r] \in {"none", "open"} /\ run'[r] \in {"open", "terminal"}
        /\ \A q \in Runs : q # r => run'[q] = run[q]
    BY <1>4 DEF Open, Close, PlainTypes, RowTypes
  <2>2. \A q \in Runs : /\ run[q] # "none" => run'[q] # "none"
                        /\ run[q] # "deleted" => run'[q] # "deleted"
                        /\ run[q] \in {"terminal", "deleted"} => run'[q] = run[q]
    BY <2>1
  <2>3. /\ Inside' = Inside /\ Busy' = Busy
        /\ \A w \in Busy \cup Inside : writer[w].run \in Runs
    BY <2>1 DEF Inside, Busy, PlainTypes, WriterTypes, WriterRecord
  <2>4. \A x \in results : x.run \in Runs
    BY DEF PlainTypes, RowTypes, Row
  <2>5. removing.runs \subseteq Runs /\ \A k \in removing.keys : k[1] \in Runs
    BY DEF PlainTypes, CleanerTypes
  <2>6. QED
    BY <2>1, <2>2, <2>3, <2>4, <2>5 DEF Inserted, Holds, Written
<1>5. ASSUME UNCHANGED <<run, writer>>, results' \subseteq results,
             removing' = removing \/ removing'.at = "idle"
      PROVE  Inserted'
  <2>1. Inside' = Inside /\ Busy' = Busy
    BY <1>5 DEF Inside, Busy
  <2>2. QED
    BY <1>5, <2>1 DEF Inserted, Holds, Written
<1>6. CASE ReadStale \/ PruneRows \/ PruneBlobs \/ RemoveBlobs \/ CleanerDies \/ UNCHANGED resultVars
  <2>1. NoWork.at = "idle"
    BY DEF NoWork
  <2>2. QED
    BY <1>5, <1>6, <2>1 DEF ReadStale, PruneRows, PruneBlobs, RemoveBlobs, CleanerDies, resultVars
<1>7. ASSUME NEW r \in Runs, ReadRuns({r}) PROVE Inserted'
  <2>1. /\ UNCHANGED <<run, writer, results>>
        /\ removing'.at = "keys" /\ removing'.runs = Deletable({r})
    BY <1>7 DEF ReadRuns, NoWork
  <2>2. \A q \in Deletable({r}) : run[q] = "terminal"
    BY DEF Deletable
  <2>3. Inside' = Inside /\ Busy' = Busy
    BY <2>1 DEF Inside, Busy
  <2>4. QED
    BY <2>1, <2>2, <2>3 DEF Inserted, Holds, Written
<1>8. CASE ReadKeys
  <2>1. /\ UNCHANGED <<run, writer, results>> /\ removing.at = "keys"
        /\ removing' = [removing EXCEPT !.at = "rows", !.keys = RunKeys]
    BY <1>8 DEF ReadKeys
  <2>2. removing'.at = "rows" /\ removing'.runs = removing.runs /\ removing'.keys = RunKeys
    BY <2>1 DEF PlainTypes, CleanerTypes
  <2>3. \A k \in RunKeys : k[1] \in removing.runs
    BY DEF RunKeys, KeysOf
  <2>4. Inside' = Inside /\ Busy' = Busy
    BY <2>1 DEF Inside, Busy
  <2>5. QED
    BY <2>1, <2>2, <2>3, <2>4 DEF Inserted, Holds, Written
<1>9. QED
  BY <1>1, <1>2, <1>3, <1>4, <1>6, <1>7, <1>8, CreateInserted, CommitInserted, RemoveInserted
     DEF ResultsNext

LEMMA KeysAlways == ASSUME ResultsAssumption PROVE ResultsSpec => [](PlainTypes /\ Inserted)
PROOF
<1>1. ResultsInit => Inserted
  BY Assumed DEF ResultsInit, NoWork, Inserted, Busy, Inside
<1>2. PlainTypes /\ Inserted /\ [ResultsNext]_resultVars => PlainTypes' /\ Inserted'
  BY TypesStep, InsertedStep
<1>3. QED
  BY <1>1, <1>2, TypesInit, PTL DEF ResultsSpec

\* Every value stays in its type, and a page has one row in a run that is there: the page
\* that an idle step names means nothing, but there must be one.
THEOREM TypeCorrect == ASSUME ResultsAssumption, Pages # {} PROVE ResultsSpec => []ResultsTypeOK
PROOF
<1>1. SomePage \in Pages
  BY DEF SomePage
<1>2. PlainTypes /\ Inserted => ResultsTypeOK
  BY <1>1, CreatedIsMoment DEF PlainTypes, WriterTypes, WriterRecord, CountTypes, RowTypes,
     CleanerTypes, NoteTypes, Inserted, ResultsTypeOK
<1>3. QED
  BY <1>2, KeysAlways, PTL

-----------------------------------------------------------------------------
(* The evidence. *)

At(w, r, p) == w \in Busy /\ writer[w].run = r /\ writer[w].page = p

\* What holds of a page that is measured once in a run: one step is at work on it and no
\* row is there yet, or nobody is; what is stored is what the step and the row say; and
\* what the pruning has noted down is measured no more.
Once(r, p) ==
  /\ \A v, w \in Writers : At(v, r, p) /\ At(w, r, p) => v = w
  /\ Written(r, p) => \A w \in Writers : ~At(w, r, p)
  /\ \A w \in Writers :
       At(w, r, p) /\ writer[w].at # "store" /\ run[r] # "deleted" =>
         writer[w].evidence = 0 \/ blob[r][p] = writer[w].evidence
  /\ \A x \in results : x.run = r /\ x.page = p => x.evidence = 0 \/ blob[r][p] = x.evidence
  /\ pruning.at # "idle" /\ <<r, p>> \in pruning.keys =>
       /\ run[r] = "deleted" \/ blob[r][p] # 0
       /\ \A w \in Writers : ~At(w, r, p)
       /\ \A x \in results : x.run = r /\ x.page = p => pruning.at = "rows" /\ x \in pruning.rows
OnceInv == \A r \in Runs, p \in Pages : <<r, p>> \in again \/ Once(r, p)

\* Steps that touch nothing of the page in the run: fewer rows, fewer steps at work.
LEMMA OnceKept ==
  ASSUME NEW r, NEW p, Once(r, p),
         \A x \in results' : x.run = r /\ x.page = p => x \in results,
         \A w \in Writers : At(w, r, p)' => At(w, r, p) /\ writer'[w] = writer[w],
         run[r] = "deleted" => run'[r] = "deleted",
         run'[r] = "deleted" \/ blob'[r][p] = blob[r][p],
         run'[r] = "deleted" => \A x \in results' : x.run # r,
         pruning'.at = "idle" \/ UNCHANGED pruning
  PROVE  Once(r, p)'
PROOF
<1>1. Written(r, p)' => Written(r, p)
  BY DEF Written
<1>2. QED
  BY <1>1 DEF Once

LEMMA OnceStep ==
  ASSUME ResultsAssumption, PlainTypes, Inserted, OnceInv, [ResultsNext]_resultVars
  PROVE  OnceInv'
PROOF
<1> SUFFICES ASSUME NEW r \in Runs, NEW p \in Pages, <<r, p>> \notin again'
             PROVE  Once(r, p)'
  BY DEF OnceInv
<1>0. /\ \A x \in results : run[x.run] # "deleted"
      /\ (\A x \in results : run[x.run] # "deleted")'
  BY InsertedStep DEF Inserted
<1>a. ASSUME <<r, p>> \notin again PROVE Once(r, p)
  BY <1>a DEF OnceInv
<1>1. ASSUME NEW w \in Writers, NEW q \in Runs, NEW o \in Pages, Measure(w, q, o)
      PROVE  Once(r, p)'
  <2>1. /\ writer[w].at = "idle" /\ run[q] = "open" /\ writer'[w].at = "store"
        /\ writer'[w].run = q /\ writer'[w].page = o
        /\ \A v \in Writers : v # w => writer'[v] = writer[v]
        /\ UNCHANGED <<run, results, blob, pruning>> /\ again \subseteq again'
        /\ \/ <<q, o>> \in again'
           \/ /\ ~Written(q, o) /\ blob[q][o] = 0
              /\ \A v \in Busy : ~(writer[v].run = q /\ writer[v].page = o)
    BY <1>1, MeasureEffect
  <2>2. Once(r, p)
    BY <1>a, <2>1
  <2>3. CASE q = r /\ o = p
    <3>1. ~Written(r, p) /\ blob[r][p] = 0 /\ \A v \in Writers : ~At(v, r, p)
      BY <2>1, <2>3 DEF At
    <3>2. \A v \in Writers : At(v, r, p)' => v = w
      BY <2>1, <3>1 DEF At, Busy
    <3>3. ~(pruning.at # "idle" /\ <<r, p>> \in pruning.keys)
      BY <2>1, <2>2, <2>3, <3>1 DEF Once
    <3>4. Written(r, p)' = Written(r, p)
      BY <2>1 DEF Written
    <3>5. QED
      BY <2>1, <2>2, <3>1, <3>2, <3>3, <3>4 DEF Once
  <2>4. CASE ~(q = r /\ o = p)
    <3>1. \A v \in Writers : At(v, r, p)' => At(v, r, p) /\ writer'[v] = writer[v]
      BY <2>1, <2>4 DEF At, Busy
    <3>2. QED
      BY <1>0, <2>1, <2>2, <3>1, OnceKept
  <2>5. QED
    BY <2>3, <2>4
<1>2. ASSUME NEW w \in Writers, Store(w) PROVE Once(r, p)'
  <2>1. /\ writer[w].at = "store" /\ writer'[w].at = "create"
        /\ writer'[w].run = writer[w].run /\ writer'[w].page = writer[w].page
        /\ \A v \in Writers : v # w => writer'[v] = writer[v]
        /\ \/ writer'[w].evidence = 0 /\ blob' = blob
           \/ blob'[writer[w].run][writer[w].page] = writer'[w].evidence
        /\ \A q \in Runs, o \in Pages :
             (q = writer[w].run /\ o = writer[w].page) \/ blob'[q][o] = blob[q][o]
        /\ UNCHANGED <<run, results, pruning, again>>
    BY <1>2, StoreEffect
  <2>2. Once(r, p)
    BY <1>a, <2>1
  <2>3. CASE writer[w].run = r /\ writer[w].page = p
    <3>1. At(w, r, p)
      BY <2>1, <2>3 DEF At, Busy
    <3>2. \A v \in Writers : At(v, r, p)' => v = w
      BY <2>1, <2>2, <3>1 DEF At, Busy, Once
    <3>3. /\ ~Written(r, p) /\ ~Written(r, p)'
          /\ ~(pruning.at # "idle" /\ <<r, p>> \in pruning.keys)
      BY <2>1, <2>2, <3>1 DEF Once, Written
    <3>4. writer'[w].evidence = 0 \/ blob'[r][p] = writer'[w].evidence
      BY <2>1, <2>3
    <3>5. QED
      BY <2>1, <3>2, <3>3, <3>4 DEF Once, Written
  <2>4. CASE ~(writer[w].run = r /\ writer[w].page = p)
    <3>1. \A v \in Writers : At(v, r, p)' => At(v, r, p) /\ writer'[v] = writer[v]
      BY <2>1, <2>4 DEF At, Busy
    <3>2. QED
      BY <1>0, <2>1, <2>2, <2>4, <3>1, OnceKept
  <2>5. QED
    BY <2>3, <2>4
<1>3. ASSUME NEW w \in Writers, Create(w) PROVE Once(r, p)'
  <2>1. UNCHANGED <<run, results, blob, pruning, again>> /\ writer[w].at = "create"
    BY <1>3 DEF Create
  <2>2. Once(r, p)
    BY <1>a, <2>1
  <2>3. \A v \in Writers :
          /\ At(v, r, p)' => At(v, r, p)
          /\ At(v, r, p)' /\ writer'[v].at # "store" =>
               writer[v].at # "store" /\ writer'[v].evidence = writer[v].evidence
    <3>1. CASE writer' = [writer EXCEPT ![w] = NoWrite]
      BY <3>1, EndEffect DEF At, Busy
    <3>2. CASE created' = created + 1
      BY <1>3, <2>1, <3>2, CreateEffect DEF At, Busy
    <3>3. QED
      BY <1>3, <3>1, <3>2 DEF Create
  <2>4. Written(r, p)' = Written(r, p)
    BY <2>1 DEF Written
  <2>5. QED
    BY <2>1, <2>2, <2>3, <2>4 DEF Once
<1>4. ASSUME NEW w \in Writers, Commit(w) PROVE Once(r, p)'
  <2>1. /\ w \in Inside /\ results' = results \cup {RowOf(w)}
        /\ writer'[w].at = "idle" /\ \A v \in Writers : v # w => writer'[v] = writer[v]
        /\ UNCHANGED <<run, blob, pruning, again>>
    BY <1>4, CommitEffect, Assumed DEF Commit
  <2>2. Once(r, p)
    BY <1>a, <2>1
  <2>3. /\ w \in Writers /\ writer[w].at = "commit" /\ run[writer[w].run] # "deleted"
        /\ RowOf(w).run = writer[w].run /\ RowOf(w).page = writer[w].page
        /\ RowOf(w).evidence = writer[w].evidence
    BY <2>1 DEF Inside, RowOf, Inserted, Holds
  <2>4. \A v \in Writers : At(v, r, p)' => v # w /\ At(v, r, p) /\ writer'[v] = writer[v]
    BY <2>1 DEF At, Busy
  <2>5. CASE writer[w].run = r /\ writer[w].page = p
    <3>1. At(w, r, p)
      BY <2>3, <2>5 DEF At, Busy
    <3>2. \A v \in Writers : ~At(v, r, p)'
      BY <2>2, <2>4, <3>1 DEF Once
    <3>3. /\ ~(pruning.at # "idle" /\ <<r, p>> \in pruning.keys)
          /\ \A x \in results : ~(x.run = r /\ x.page = p)
      BY <2>2, <3>1 DEF Once, Written
    <3>4. writer[w].evidence = 0 \/ blob[r][p] = writer[w].evidence
      BY <2>2, <2>3, <2>5, <3>1 DEF Once
    <3>5. \A x \in results' : x.run = r /\ x.page = p => x.evidence = 0 \/ blob'[r][p] = x.evidence
      BY <2>1, <2>3, <3>3, <3>4
    <3>6. QED
      BY <2>1, <3>2, <3>3, <3>5 DEF Once
  <2>6. CASE ~(writer[w].run = r /\ writer[w].page = p)
    <3>1. \A x \in results' : x.run = r /\ x.page = p => x \in results
      BY <2>1, <2>3, <2>6
    <3>2. QED
      BY <1>0, <2>1, <2>2, <2>4, <3>1, OnceKept
  <2>7. QED
    BY <2>5, <2>6
<1>5. ASSUME NEW w \in Writers, WriterDies(w) PROVE Once(r, p)'
  <2>1. /\ UNCHANGED <<run, results, blob, pruning, again>>
        /\ writer'[w].at = "idle" /\ \A v \in Writers : v # w => writer'[v] = writer[v]
    BY <1>5, EndEffect DEF WriterDies
  <2>2. \A v \in Writers : At(v, r, p)' => At(v, r, p) /\ writer'[v] = writer[v]
    BY <2>1 DEF At, Busy
  <2>3. QED
    BY <1>0, <1>a, <2>1, <2>2, OnceKept
<1>6. ASSUME UNCHANGED <<writer, again>>, \A x \in results' : x \in results,
             run[r] = "deleted" => run'[r] = "deleted",
             run'[r] = "deleted" \/ blob'[r][p] = blob[r][p],
             pruning'.at = "idle" \/ UNCHANGED pruning
      PROVE  Once(r, p)'
  <2>1. \A v \in Writers : At(v, r, p)' => At(v, r, p) /\ writer'[v] = writer[v]
    BY <1>6 DEF At, Busy
  <2>2. QED
    BY <1>0, <1>a, <1>6, <2>1, OnceKept
<1>7. ASSUME NEW q \in Runs, Open(q) \/ Close(q) PROVE Once(r, p)'
  <2>1. /\ UNCHANGED <<writer, again, results, blob, pruning>>
        /\ run[r] = "deleted" => run'[r] = "deleted"
    BY <1>7 DEF Open, Close, PlainTypes, RowTypes
  <2>2. QED
    BY <1>6, <2>1
<1>8. CASE ReadStale
  <2>1. /\ UNCHANGED <<run, writer, again, results, blob>> /\ Stale \subseteq results
        /\ pruning' = [NoWork EXCEPT !.at = "rows", !.rows = Stale, !.keys = KeysOf(Stale)]
    BY <1>8 DEF ReadStale, Stale
  <2>2. pruning'.at = "rows" /\ pruning'.rows = Stale /\ pruning'.keys = KeysOf(Stale)
    BY <2>1 DEF NoWork
  <2>3. Once(r, p) /\ Written(r, p)' = Written(r, p) /\ \A w \in Writers : At(w, r, p)' = At(w, r, p)
    BY <1>a, <2>1 DEF Written, At, Busy
  <2>4. ASSUME <<r, p>> \in KeysOf(Stale)
        PROVE  /\ blob[r][p] # 0 /\ Written(r, p)
               /\ \A x \in results : x.run = r /\ x.page = p => x \in Stale
    <3>1. PICK x \in Stale : x.run = r /\ x.page = p /\ x.evidence # 0
      BY <2>4 DEF KeysOf
    <3>2. QED
      BY <2>1, <2>3, <3>1 DEF Inserted, Once, Written
  <2>5. QED
    BY <2>1, <2>2, <2>3, <2>4 DEF Once
<1>9. CASE PruneRows
  <2>1. /\ UNCHANGED <<run, writer, again, blob>> /\ results' = results \ pruning.rows
        /\ pruning' = [pruning EXCEPT !.at = "blobs", !.rows = {}] /\ pruning.at = "rows"
    BY <1>9 DEF PruneRows
  <2>2. pruning'.at = "blobs" /\ pruning'.keys = pruning.keys
    BY <2>1 DEF PlainTypes, CleanerTypes
  <2>3. /\ Once(r, p) /\ Written(r, p)' => Written(r, p)
        /\ \A w \in Writers : At(w, r, p)' = At(w, r, p)
    BY <1>a, <2>1 DEF Written, At, Busy
  <2>4. QED
    BY <1>a, <2>1, <2>2, <2>3 DEF Once
<1>10. CASE PruneBlobs
  <2>1. /\ UNCHANGED <<run, writer, again, results>> /\ blob' = Without(pruning.keys)
        /\ pruning.at = "blobs" /\ pruning'.at = "idle"
    BY <1>10 DEF PruneBlobs, NoWork
  <2>2. CASE <<r, p>> \in pruning.keys
    <3>1. /\ \A w \in Writers : ~At(w, r, p)'
          /\ \A x \in results' : ~(x.run = r /\ x.page = p)
      BY <1>a, <2>1, <2>2 DEF Once, At, Busy
    <3>2. QED
      BY <2>1, <3>1 DEF Once, Written
  <2>3. CASE <<r, p>> \notin pruning.keys
    <3>1. blob'[r][p] = blob[r][p]
      BY <2>1, <2>3 DEF Without
    <3>2. QED
      BY <1>6, <2>1, <3>1
  <2>4. QED
    BY <2>2, <2>3
<1>11. CASE RemoveRuns
  <2>1. /\ UNCHANGED <<writer, again, blob, pruning>> /\ results' \subseteq results
        /\ run[r] = "deleted" => run'[r] = "deleted"
    BY <1>11 DEF RemoveRuns
  <2>2. QED
    BY <1>6, <2>1
<1>12. CASE RemoveBlobs
  <2>1. /\ UNCHANGED <<run, writer, again, results, pruning>> /\ blob' = Without(removing.keys)
        /\ removing.at = "blobs"
    BY <1>12 DEF RemoveBlobs
  <2>2. run[r] = "deleted" \/ blob'[r][p] = blob[r][p]
    <3>1. CASE <<r, p>> \in removing.keys
      BY <2>1, <3>1 DEF Inserted
    <3>2. CASE <<r, p>> \notin removing.keys
      BY <2>1, <3>2 DEF Without
    <3>3. QED
      BY <3>1, <3>2
  <2>3. QED
    BY <1>6, <2>1, <2>2
<1>13. CASE (\E q \in Runs : ReadRuns({q})) \/ ReadKeys \/ CleanerDies \/ UNCHANGED resultVars
  <2>1. NoWork.at = "idle"
    BY DEF NoWork
  <2>2. QED
    BY <1>6, <1>13, <2>1 DEF ReadRuns, ReadKeys, CleanerDies, resultVars
<1>14. QED
  BY <1>1, <1>2, <1>3, <1>4, <1>5, <1>7, <1>8, <1>9, <1>10, <1>11, <1>12, <1>13 DEF ResultsNext

\* The evidence under a row's key is the evidence of that row, unless the page was measured
\* again in the run: neither the pruning nor a deletion of runs nor a step that comes late
\* takes it away or replaces it.
THEOREM EvidenceStays == ASSUME ResultsAssumption PROVE ResultsSpec => []EvidenceIsItsOwn
PROOF
<1>1. ResultsInit => OnceInv
  BY DEF ResultsInit, NoWrite, NoWork, OnceInv, Once, Written, At, Busy
<1>2. PlainTypes /\ Inserted /\ OnceInv /\ [ResultsNext]_resultVars => OnceInv'
  BY OnceStep
<1>3. PlainTypes /\ OnceInv => EvidenceIsItsOwn
  BY DEF PlainTypes, RowTypes, Row, OnceInv, Once, EvidenceIsItsOwn
<1>4. QED
  BY <1>1, <1>2, <1>3, KeysAlways, PTL DEF ResultsSpec

-----------------------------------------------------------------------------
(* Stamps, and the newest result of a page. *)

\* Steps that insert, commit and delete no row, and let nobody into a transaction.
Aside ==
  /\ UNCHANGED <<results, pointer, created, raced, thinned>>
  /\ \A w \in Writers : writer'[w].at = "commit" => w \in Inside /\ writer'[w] = writer[w]
  /\ UNCHANGED pruning \/ pruning' = NoWork

LEMMA StepKinds ==
  ASSUME ResultsAssumption, PlainTypes, [ResultsNext]_resultVars
  PROVE  \/ \E w \in Writers : Create(w) /\ created' = created + 1
         \/ \E w \in Writers : Commit(w)
         \/ ReadStale \/ PruneRows \/ RemoveRuns
         \/ Aside
PROOF
<1>1. ASSUME NEW w \in Writers, NEW r \in Runs, NEW p \in Pages, Measure(w, r, p) PROVE Aside
  BY <1>1, MeasureEffect DEF Aside, Inside
<1>2. ASSUME NEW w \in Writers, Store(w) PROVE Aside
  BY <1>2, StoreEffect DEF Aside, Inside
<1>3. ASSUME NEW w \in Writers, writer' = [writer EXCEPT ![w] = NoWrite],
             UNCHANGED <<results, pointer, created, raced, thinned, pruning>>
      PROVE  Aside
  BY <1>3, EndEffect DEF Aside, Inside
<1>4. ASSUME NEW w \in Writers, WriterDies(w) PROVE Aside
  BY <1>3, <1>4 DEF WriterDies
<1>5. ASSUME NEW w \in Writers, Create(w), created' # created + 1 PROVE Aside
  BY <1>3, <1>5 DEF Create
<1>6. CASE \/ \E r \in Runs : Open(r) \/ Close(r)
           \/ PruneBlobs \/ (\E r \in Runs : ReadRuns({r}))
           \/ ReadKeys \/ RemoveBlobs \/ CleanerDies \/ UNCHANGED resultVars
  BY <1>6 DEF Aside, Inside, Open, Close, PruneBlobs, ReadRuns, ReadKeys, RemoveBlobs,
              CleanerDies, resultVars
<1>7. QED
  BY <1>1, <1>2, <1>4, <1>5, <1>6 DEF ResultsNext

\* Every row that was ever inserted has a stamp of its own, the later the greater: the rows
\* committed, those the pruning has read, and those not committed yet.
Stamps ==
  /\ \A x \in results \cup pruning.rows : x.createdAt <= created
  /\ \A w \in Inside : writer[w].createdAt <= created
  /\ \A w \in Inside : \A x \in results \cup pruning.rows : x.createdAt # writer[w].createdAt
  /\ \A v, w \in Inside : writer[v].createdAt = writer[w].createdAt => v = w

\* A step that is alone on its page inserts the newest row of it.
Leads(w) ==
  /\ \A x \in results : x.page = writer[w].page => x.createdAt < writer[w].createdAt
  /\ \A v \in Inside : writer[v].page = writer[w].page => v = w
StampInv == Stamps /\ \A w \in Inside : writer[w].alone => Leads(w)

LEMMA NothingStamped ==
  ASSUME StampInv, UNCHANGED created,
         \A w \in Writers : writer'[w].at = "commit" => w \in Inside /\ writer'[w] = writer[w],
         results' \subseteq results,
         pruning'.rows \subseteq results \cup pruning.rows
  PROVE  StampInv'
PROOF
<1>1. \A w \in Inside' : w \in Inside /\ writer'[w] = writer[w]
  BY DEF Inside
<1>2. Stamps'
  BY <1>1 DEF StampInv, Stamps
<1>3. (\A w \in Inside : writer[w].alone => Leads(w))'
  BY <1>1 DEF StampInv, Leads
<1>4. QED
  BY <1>2, <1>3 DEF StampInv

\* Numbers of the rows and of the transactions that have inserted.
LEMMA StampTypes ==
  ASSUME PlainTypes
  PROVE  /\ created \in Nat
         /\ \A x \in results \cup pruning.rows : x.createdAt \in Nat /\ x.page \in Pages
         /\ \A w \in Writers : writer[w].createdAt \in Nat
PROOF BY DEF PlainTypes, CountTypes, RowTypes, CleanerTypes, WriterTypes, WriterRecord, Row, Moment

LEMMA CreateStamped ==
  ASSUME ResultsAssumption, PlainTypes, StampInv,
         NEW w \in Writers, Create(w), created' = created + 1
  PROVE  StampInv'
PROOF
<1>0. UNCHANGED <<results, pruning>> /\ writer[w].at = "create"
  BY DEF Create
<1>1. /\ writer'[w].at = "commit" /\ writer'[w].createdAt = created'
      /\ writer'[w].page = writer[w].page
      /\ writer'[w].alone <=> \A v \in Inside : writer[v].page # writer[w].page
      /\ \A v \in Writers : v # w =>
           /\ writer'[v].at = writer[v].at /\ writer'[v].createdAt = writer[v].createdAt
           /\ writer'[v].page = writer[v].page
           /\ writer'[v].alone <=>
                writer[v].alone /\ ~(v \in Inside /\ writer[v].page = writer[w].page)
  BY CreateEffect
<1>2. Inside' = Inside \cup {w} /\ w \notin Inside
  BY <1>0, <1>1 DEF Inside
<1>3. \A v \in Inside : v \in Writers /\ v # w
  BY <1>2 DEF Inside
<1>4. /\ created' > created
      /\ \A x \in results \cup pruning.rows : x.createdAt < created' /\ x.createdAt \in Nat
      /\ \A v \in Inside : writer[v].createdAt < created'
      /\ created' \in Nat
  BY <1>3, StampTypes DEF StampInv, Stamps
<1>5. Stamps'
  <2>1. \A x \in results' \cup pruning'.rows : x.createdAt <= created' /\ x.createdAt # created'
    BY <1>0, <1>4
  <2>2. \A v \in Inside : writer'[v].createdAt = writer[v].createdAt
                          /\ writer'[v].createdAt <= created' /\ writer'[v].createdAt # created'
    BY <1>1, <1>3, <1>4, StampTypes
  <2>3. QED
    BY <1>0, <1>1, <1>2, <1>4, <2>1, <2>2 DEF StampInv, Stamps
<1>6. ASSUME NEW v \in Inside', writer'[v].alone PROVE Leads(v)'
  <2>1. CASE v = w
    <3>1. \A u \in Inside : writer'[u].page # writer'[w].page
      BY <1>1, <1>3, <1>6, <2>1
    <3>2. QED
      BY <1>0, <1>1, <1>2, <1>4, <2>1, <3>1 DEF Leads
  <2>2. CASE v # w
    <3>1. /\ v \in Inside /\ v \in Writers /\ writer[v].alone
          /\ writer[v].page # writer[w].page
          /\ writer'[v].page = writer[v].page /\ writer'[v].createdAt = writer[v].createdAt
      BY <1>1, <1>2, <1>3, <1>6, <2>2
    <3>2. Leads(v)
      BY <3>1 DEF StampInv
    <3>3. \A u \in Inside : writer'[u].page = writer[u].page
      BY <1>1, <1>3
    <3>4. QED
      BY <1>0, <1>1, <1>2, <3>1, <3>2, <3>3 DEF Leads
  <2>3. QED
    BY <2>1, <2>2
<1>7. QED
  BY <1>5, <1>6 DEF StampInv

LEMMA CommitStamped ==
  ASSUME ResultsAssumption, PlainTypes, StampInv, NEW w \in Writers, Commit(w)
  PROVE  StampInv'
PROOF
<1>1. /\ w \in Inside /\ results' = results \cup {RowOf(w)}
      /\ writer'[w].at = "idle" /\ \A v \in Writers : v # w => writer'[v] = writer[v]
      /\ UNCHANGED <<created, pruning>>
  BY CommitEffect, Assumed DEF Commit
<1>2. Inside' = Inside \ {w} /\ \A v \in Inside' : v # w /\ v \in Inside /\ writer'[v] = writer[v]
  BY <1>1 DEF Inside
<1>3. RowOf(w).createdAt = writer[w].createdAt /\ RowOf(w).page = writer[w].page
  BY DEF RowOf
<1>4. Stamps'
  BY <1>1, <1>2, <1>3 DEF StampInv, Stamps
<1>5. ASSUME NEW v \in Inside', writer'[v].alone PROVE Leads(v)'
  <2>1. v \in Inside /\ v # w /\ writer'[v] = writer[v] /\ Leads(v)
    BY <1>2, <1>5 DEF StampInv
  <2>2. writer[w].page # writer[v].page
    BY <1>1, <2>1 DEF Leads
  <2>3. QED
    BY <1>1, <1>2, <1>3, <2>1, <2>2 DEF Leads
<1>6. QED
  BY <1>4, <1>5 DEF StampInv

LEMMA StampStep ==
  ASSUME ResultsAssumption, PlainTypes, StampInv, [ResultsNext]_resultVars
  PROVE  StampInv'
PROOF
<1>1. NoWork.rows = {}
  BY DEF NoWork
<1>2. CASE Aside
  <2>1. pruning'.rows \subseteq pruning.rows
    BY <1>1, <1>2 DEF Aside
  <2>2. QED
    BY <1>2, <2>1, NothingStamped DEF Aside
<1>3. ASSUME UNCHANGED <<created, writer>>
      PROVE  \A w \in Writers : writer'[w].at = "commit" => w \in Inside /\ writer'[w] = writer[w]
  BY <1>3 DEF Inside
<1>4. CASE ReadStale
  <2>1. pruning'.rows = Stale /\ Stale \subseteq results
    BY <1>4 DEF ReadStale, NoWork, Stale
  <2>2. QED
    BY <1>3, <1>4, <2>1, NothingStamped DEF ReadStale
<1>5. CASE PruneRows
  <2>1. pruning'.rows = {}
    BY <1>5 DEF PruneRows, PlainTypes, CleanerTypes
  <2>2. QED
    BY <1>3, <1>5, <2>1, NothingStamped DEF PruneRows
<1>6. CASE RemoveRuns
  BY <1>3, <1>6, NothingStamped DEF RemoveRuns
<1>7. QED
  BY <1>2, <1>4, <1>5, <1>6, StepKinds, CreateStamped, CommitStamped

\* The page's pointer is at its newest row, a page with rows has one, and the pruning has
\* not read the row that is pointed to.
Pointed(p) ==
  /\ Card(p) = Newest(RowsOf(p))
  /\ RowsOf(p) # {} => Card(p) # {}
  /\ pruning.at = "rows" => Card(p) \cap pruning.rows = {}
PointedInv == \A p \in Pages : p \in raced \/ Pointed(p)

\* A row beyond the window is not the newest of its page.
LEMMA StaleIsNotNewest ==
  ASSUME ResultsAssumption, NEW x \in Stale
  PROVE  \E y \in RowsOf(x.page) : y.createdAt > x.createdAt
PROOF
<1>1. CASE Later(x) = {}
  <2>1. Cardinality(Later(x)) = 0
    BY <1>1, FS_EmptySet
  <2>2. QED
    BY <2>1, Assumed DEF Stale
<1>2. QED
  BY <1>1 DEF Later

LEMMA CommitPointed ==
  ASSUME ResultsAssumption, PlainTypes, StampInv, PointedInv, NEW w \in Writers, Commit(w)
  PROVE  PointedInv'
PROOF
<1> DEFINE o == writer[w].page
<1>1. /\ w \in Inside /\ results' = results \cup {RowOf(w)} /\ o \in Pages
      /\ \A p \in Pages : pointer'[p] = IF p = o THEN writer[w].createdAt ELSE pointer[p]
      /\ raced' = IF writer[w].alone THEN raced \ {o} ELSE raced \cup {o}
      /\ UNCHANGED pruning
  BY CommitEffect DEF Commit
<1>2. RowOf(w).createdAt = writer[w].createdAt /\ RowOf(w).page = o
  BY DEF RowOf
<1>3. ASSUME NEW p \in Pages, p \notin raced' PROVE Pointed(p)'
  <2>1. CASE p # o
    <3>1. RowsOf(p)' = RowsOf(p) /\ pointer'[p] = pointer[p] /\ p \notin raced
      BY <1>1, <1>2, <1>3, <2>1 DEF RowsOf
    <3>2. Pointed(p)
      BY <3>1 DEF PointedInv
    <3>3. QED
      BY <1>1, <3>1, <3>2 DEF Pointed, Card
  <2>2. CASE p = o
    <3>1. Leads(w)
      BY <1>1, <1>3, <2>2 DEF StampInv
    <3>2. /\ RowsOf(p)' = RowsOf(p) \cup {RowOf(w)}
          /\ pointer'[p] = RowOf(w).createdAt
          /\ \A x \in RowsOf(p) : x.createdAt < RowOf(w).createdAt
                                  /\ x.createdAt \in Nat
          /\ RowOf(w).createdAt \in Nat
      BY <1>1, <1>2, <2>2, <3>1, StampTypes DEF RowsOf, Leads
    <3>3. Card(p)' = {RowOf(w)}
      BY <3>2 DEF Card
    <3>4. Newest(RowsOf(p)') = {RowOf(w)}
      BY <3>2 DEF Newest
    <3>5. RowOf(w) \notin pruning.rows
      BY <1>1, <1>2 DEF StampInv, Stamps
    <3>6. (Newest(RowsOf(p)))' = Newest(RowsOf(p)')
      BY DEF Newest
    <3>7. QED
      BY <1>1, <3>3, <3>4, <3>5, <3>6 DEF Pointed
  <2>3. QED
    BY <2>1, <2>2
<1>4. QED
  BY <1>3 DEF PointedInv

LEMMA PointedStep ==
  ASSUME ResultsAssumption, PlainTypes, StampInv, PointedInv, [ResultsNext]_resultVars
  PROVE  PointedInv'
PROOF
<1>1. ASSUME UNCHANGED <<results, pointer, raced>>,
             pruning'.at = "rows" => \A p \in Pages : Pointed(p) => Card(p) \cap pruning'.rows = {}
      PROVE  PointedInv'
  <2>1. \A p \in Pages : RowsOf(p)' = RowsOf(p) /\ Card(p)' = Card(p)
                         /\ (Newest(RowsOf(p)))' = Newest(RowsOf(p))
    BY <1>1 DEF RowsOf, Card, Newest
  <2>2. QED
    BY <1>1, <2>1 DEF PointedInv, Pointed
<1>2. NoWork.at = "idle"
  BY DEF NoWork
<1>3. CASE Aside
  BY <1>1, <1>2, <1>3 DEF Aside, Pointed
<1>4. ASSUME NEW w \in Writers, Create(w) PROVE PointedInv'
  BY <1>1, <1>4 DEF Create, Pointed
<1>5. CASE ReadStale
  <2>1. pruning'.rows = Stale /\ UNCHANGED <<results, pointer, raced>>
    BY <1>5 DEF ReadStale, NoWork
  <2>2. ASSUME NEW p \in Pages, Pointed(p), NEW x \in Card(p), x \in Stale PROVE FALSE
    <3>1. x.page = p /\ \A y \in RowsOf(p) : y.createdAt <= x.createdAt
      BY <2>2 DEF Pointed, Newest, Card, RowsOf
    <3>2. PICK y \in RowsOf(x.page) : y.createdAt > x.createdAt
      BY <2>2, StaleIsNotNewest
    <3>3. x.createdAt \in Nat /\ y.createdAt \in Nat
      BY <2>2, StampTypes DEF Card, RowsOf
    <3>4. QED
      BY <3>1, <3>2, <3>3
  <2>3. QED
    BY <1>1, <2>1, <2>2
<1>6. CASE PruneRows
  <2>1. /\ pruning.at = "rows" /\ results' = results \ pruning.rows /\ pruning'.at = "blobs"
        /\ UNCHANGED <<pointer, raced>>
    BY <1>6 DEF PruneRows, PlainTypes, CleanerTypes
  <2>2. ASSUME NEW p \in Pages, Pointed(p) PROVE Pointed(p)'
    <3>1. Card(p) \cap pruning.rows = {} /\ Card(p) = Newest(RowsOf(p))
          /\ (RowsOf(p) # {} => Card(p) # {})
      BY <2>1, <2>2 DEF Pointed
    <3>2. RowsOf(p)' = RowsOf(p) \ pruning.rows
      BY <2>1 DEF RowsOf
    <3>3. Card(p)' = Card(p)
      BY <2>1, <3>1, <3>2 DEF Card
    <3>4. Newest(RowsOf(p) \ pruning.rows) = Newest(RowsOf(p))
      <4>1. CASE RowsOf(p) = {}
        BY <4>1 DEF Newest
      <4>2. CASE RowsOf(p) # {}
        <5>1. PICK z \in RowsOf(p) \ pruning.rows : \A y \in RowsOf(p) : y.createdAt <= z.createdAt
          BY <3>1, <4>2 DEF Newest
        <5>2. \A y \in RowsOf(p) : y.createdAt \in Nat
          BY StampTypes DEF RowsOf
        <5>3. ASSUME NEW x \in Newest(RowsOf(p) \ pruning.rows) PROVE x \in Newest(RowsOf(p))
          <6>1. x \in RowsOf(p) /\ z.createdAt <= x.createdAt
            BY <5>1, <5>3 DEF Newest
          <6>2. \A y \in RowsOf(p) : y.createdAt <= x.createdAt
            BY <5>1, <5>2, <6>1
          <6>3. QED
            BY <6>1, <6>2 DEF Newest
        <5>4. ASSUME NEW x \in Newest(RowsOf(p)) PROVE x \in Newest(RowsOf(p) \ pruning.rows)
          BY <3>1, <5>4 DEF Newest
        <5>5. QED
          BY <5>3, <5>4
      <4>3. QED
        BY <4>1, <4>2
    <3>5. (Newest(RowsOf(p)))' = Newest(RowsOf(p)')
      BY DEF Newest
    <3>6. QED
      BY <2>1, <3>1, <3>2, <3>3, <3>4, <3>5 DEF Pointed
  <2>3. QED
    BY <2>1, <2>2 DEF PointedInv
<1>7. CASE RemoveRuns
  <2>1. /\ results' = {x \in results : x.run \notin removing.runs}
        /\ raced' = raced \cup {x.page : x \in {y \in results : y.run \in removing.runs}}
        /\ UNCHANGED <<pointer, pruning>>
    BY <1>7 DEF RemoveRuns
  <2>2. ASSUME NEW p \in Pages, p \notin raced' PROVE Pointed(p)'
    <3>1. RowsOf(p)' = RowsOf(p) /\ p \notin raced
      BY <2>1, <2>2 DEF RowsOf
    <3>2. Pointed(p)
      BY <3>1 DEF PointedInv
    <3>3. QED
      BY <2>1, <3>1, <3>2 DEF Pointed, Card
  <2>3. QED
    BY <2>2 DEF PointedInv
<1>8. QED
  BY <1>3, <1>4, <1>5, <1>6, <1>7, StepKinds, CommitPointed

LEMMA StampsAlways ==
  ASSUME ResultsAssumption PROVE ResultsSpec => [](PlainTypes /\ StampInv)
PROOF
<1>1. ResultsInit => StampInv
  BY Assumed DEF ResultsInit, NoWrite, NoWork, StampInv, Stamps, Inside
<1>2. PlainTypes /\ StampInv /\ [ResultsNext]_resultVars => StampInv'
  BY StampStep
<1>3. PlainTypes /\ [ResultsNext]_resultVars => PlainTypes'
  BY TypesStep
<1>4. QED
  BY <1>1, <1>2, <1>3, TypesInit, PTL DEF ResultsSpec

\* The cards show each page by its newest result: pruning, however late, never takes the
\* row that is pointed to, and a step that wrote its page alone sets a pointer right that
\* another step, or a deletion of runs, had left behind.
THEOREM CardsShowTheNewest == ASSUME ResultsAssumption PROVE ResultsSpec => []CardIsNewest
PROOF
<1>1. ResultsInit => PointedInv
  BY DEF ResultsInit, NoWork, PointedInv, Pointed, Card, Newest, RowsOf
<1>2. PlainTypes /\ StampInv /\ PointedInv /\ [ResultsNext]_resultVars => PointedInv'
  BY PointedStep
<1>3. PointedInv => CardIsNewest
  BY DEF PointedInv, Pointed, CardIsNewest
<1>4. QED
  BY <1>1, <1>2, <1>3, StampsAlways, PTL DEF ResultsSpec

-----------------------------------------------------------------------------
(* The keep window. *)

\* Of a set of rows that is not empty one has the greatest stamp.
LEMMA Youngest ==
  ASSUME ResultsAssumption, NEW S \in SUBSET Row, S # {}
  PROVE  \E x \in S : \A y \in S : y.createdAt <= x.createdAt
PROOF
<1> DEFINE Less == {pair \in Nat \X Nat : pair[1] < pair[2]}
           D == {MaxMeasured - x.createdAt : x \in S}
<1>1. \A x \in S : x.createdAt \in Nat /\ MaxMeasured - x.createdAt \in Nat /\ MaxMeasured \in Nat
  BY Assumed DEF Row, Moment
<1>2. D \in SUBSET Nat /\ D # {}
  BY <1>1
<1>3. IsWellFoundedOn(Less, Nat)
  BY NatLessThanWellFounded DEF OpToRel
<1>4. \A m, n \in Nat : m < n => <<m, n>> \in Less
  OBVIOUS
<1> HIDE DEF Less
<1>5. PICK n \in D : \A m \in D : <<m, n>> \notin Less
  <2> HIDE DEF D
  <2> QED BY <1>2, <1>3, WFMin
<1>6. PICK x \in S : n = MaxMeasured - x.createdAt
  BY <1>5
<1>7. ASSUME NEW y \in S PROVE y.createdAt <= x.createdAt
  <2>1. MaxMeasured - y.createdAt \in D
    OBVIOUS
  <2>2. ~(MaxMeasured - y.createdAt < MaxMeasured - x.createdAt)
    BY <1>1, <1>4, <1>5, <1>6, <2>1
  <2>3. QED
    BY <1>1, <2>2
<1>8. QED
  BY <1>7

LEMMA LaterIsFinite ==
  ASSUME PlainTypes, NEW x PROVE IsFiniteSet(Later(x)) /\ Cardinality(Later(x)) \in Nat
PROOF
<1>1. Later(x) \subseteq results
  BY DEF Later, RowsOf
<1>2. QED
  BY <1>1, FS_Subset, FS_CardinalityType DEF PlainTypes, RowTypes

\* What the pruning reads leaves Keep rows newer than each row it read: those newer than the
\* newest row it read are all within the window.
LEMMA StaleLeavesWindow ==
  ASSUME ResultsAssumption, PlainTypes, NEW x \in Stale
  PROVE  Cardinality(Later(x) \ Stale) >= Keep
PROOF
<1> DEFINE S == {y \in Stale : y.page = x.page}
<1>1. S \in SUBSET Row /\ x \in S /\ S \subseteq results
  BY DEF Stale, PlainTypes, RowTypes
<1>2. PICK z \in S : \A y \in S : y.createdAt <= z.createdAt
  <2> HIDE DEF S
  <2> QED BY <1>1, Youngest
<1>3. z \in Stale /\ z.page = x.page /\ x.createdAt <= z.createdAt
  BY <1>1, <1>2
<1>4. \A y \in results : y.createdAt \in Nat
  BY StampTypes
<1>5. Later(z) \subseteq Later(x) \ Stale
  <2>1. SUFFICES ASSUME NEW y \in Later(z) PROVE y \in Later(x) \ Stale
    OBVIOUS
  <2>2. y \in results /\ y.page = x.page /\ y.createdAt > z.createdAt
    BY <1>3, <2>1 DEF Later, RowsOf
  <2>3. y.createdAt > x.createdAt /\ ~(y.createdAt <= z.createdAt)
    BY <1>1, <1>3, <1>4, <2>2
  <2>4. y \notin S
    BY <1>2, <2>3
  <2>5. QED
    BY <2>2, <2>3, <2>4 DEF Later, RowsOf
<1>6. Cardinality(Later(z)) \in Nat /\ Cardinality(Later(z)) + 1 > Keep
  BY <1>3, LaterIsFinite DEF Stale
<1>7. IsFiniteSet(Later(x) \ Stale)
  BY LaterIsFinite, FS_Difference
<1>8. /\ Cardinality(Later(x) \ Stale) \in Nat
      /\ Cardinality(Later(z)) <= Cardinality(Later(x) \ Stale)
  BY <1>5, <1>7, FS_Subset, FS_CardinalityType
<1>9. QED
  BY <1>6, <1>8, Assumed

\* Between the pruning's read and its delete the window of every row it read stays whole,
\* unless runs are deleted.
WindowInv ==
  pruning.at = "rows" /\ ~thinned =>
    \A x \in pruning.rows : Cardinality(Later(x) \ pruning.rows) >= Keep

LEMMA WindowStep ==
  ASSUME ResultsAssumption, PlainTypes, StampInv, WindowInv, [ResultsNext]_resultVars
  PROVE  WindowInv'
PROOF
<1>1. NoWork.at = "idle"
  BY DEF NoWork
<1>2. ASSUME UNCHANGED <<results, thinned>>, UNCHANGED pruning \/ pruning'.at # "rows"
      PROVE  WindowInv'
  <2>1. \A x : Later(x)' = Later(x)
    BY <1>2 DEF Later, RowsOf
  <2>2. QED
    BY <1>2, <2>1 DEF WindowInv
<1>3. CASE Aside
  BY <1>1, <1>2, <1>3 DEF Aside
<1>4. ASSUME NEW w \in Writers, Create(w) PROVE WindowInv'
  BY <1>2, <1>4 DEF Create
<1>5. ASSUME NEW w \in Writers, Commit(w) PROVE WindowInv'
  <2>1. /\ w \in Inside /\ results' = results \cup {RowOf(w)}
        /\ UNCHANGED <<pruning, thinned>>
    BY <1>5, CommitEffect DEF Commit
  <2>2. RowOf(w) \notin pruning.rows
    BY <2>1 DEF StampInv, Stamps, RowOf
  <2>3. ASSUME NEW x \in pruning.rows, Cardinality(Later(x) \ pruning.rows) >= Keep
        PROVE  Cardinality(Later(x)' \ pruning.rows) >= Keep
    <3>1. Later(x) \subseteq Later(x)'
      BY <2>1 DEF Later, RowsOf
    <3>2. PlainTypes'
      BY TypesStep
    <3>3. Later(x)' \subseteq results' /\ IsFiniteSet(results')
      BY <3>2 DEF Later, RowsOf, PlainTypes, RowTypes
    <3>4. IsFiniteSet(Later(x)' \ pruning.rows)
      BY <3>3, FS_Subset, FS_Difference
    <3>5. Later(x) \ pruning.rows \subseteq Later(x)' \ pruning.rows
      BY <3>1
    <3>6. /\ IsFiniteSet(Later(x) \ pruning.rows)
          /\ Cardinality(Later(x) \ pruning.rows) <= Cardinality(Later(x)' \ pruning.rows)
      BY <3>4, <3>5, FS_Subset
    <3>7. Cardinality(Later(x) \ pruning.rows) \in Nat /\ Cardinality(Later(x)' \ pruning.rows) \in Nat
      BY <3>4, <3>6, FS_CardinalityType
    <3>8. QED
      BY <2>3, <3>6, <3>7, Assumed
  <2>4. QED
    BY <2>1, <2>3 DEF WindowInv
<1>6. CASE ReadStale
  <2>1. pruning'.rows = Stale /\ UNCHANGED results
    BY <1>6 DEF ReadStale, NoWork
  <2>2. \A x : Later(x)' = Later(x)
    BY <2>1 DEF Later, RowsOf
  <2>3. QED
    BY <2>1, <2>2, StaleLeavesWindow DEF WindowInv
<1>7. CASE PruneRows
  <2>1. pruning'.at = "blobs"
    BY <1>7 DEF PruneRows, PlainTypes, CleanerTypes
  <2>2. QED
    BY <2>1 DEF WindowInv
<1>8. CASE RemoveRuns
  BY <1>8 DEF RemoveRuns, WindowInv
<1>9. QED
  BY <1>3, <1>4, <1>5, <1>6, <1>7, <1>8, StepKinds

\* A row that the pruning deletes leaves Keep newer rows of its page, though results were
\* committed between its read and its delete; only a deletion of runs can thin them.
THEOREM WindowStays == ASSUME ResultsAssumption PROVE ResultsSpec => WindowIsKept
PROOF
<1> DEFINE Left(x) == \/ x.run \in removing.runs
                      \/ thinned
                      \/ Cardinality(Later(x) \cap results') >= Keep
<1>1. ResultsInit => WindowInv
  BY DEF ResultsInit, NoWork, WindowInv
<1>2. PlainTypes /\ StampInv /\ WindowInv /\ [ResultsNext]_resultVars => WindowInv'
  BY WindowStep
<1>3. ASSUME PlainTypes, WindowInv, [ResultsNext]_resultVars PROVE \A x \in results \ results' : Left(x)
  <2> SUFFICES ASSUME NEW x \in results \ results' PROVE Left(x)
    OBVIOUS
  <2>1. CASE PruneRows
    <3>1. /\ pruning.at = "rows" /\ results' = results \ pruning.rows /\ x \in pruning.rows
      BY <2>1 DEF PruneRows
    <3>2. Later(x) \cap results' = Later(x) \ pruning.rows
      BY <3>1 DEF Later, RowsOf
    <3>3. thinned \/ Cardinality(Later(x) \ pruning.rows) >= Keep
      BY <1>3, <3>1 DEF WindowInv
    <3>4. QED
      BY <3>2, <3>3
  <2>2. CASE RemoveRuns
    BY <2>2 DEF RemoveRuns
  <2>3. CASE \E w \in Writers : Commit(w)
    BY <2>3 DEF Commit
  <2>4. CASE Aside \/ ReadStale \/ \E w \in Writers : Create(w)
    BY <2>4 DEF Aside, ReadStale, Create
  <2>5. QED
    BY <1>3, <2>1, <2>2, <2>3, <2>4, StepKinds
<1>4. PlainTypes /\ WindowInv /\ [ResultsNext]_resultVars => [\A x \in results \ results' : Left(x)]_resultVars
  BY <1>3
<1>5. QED
  BY <1>1, <1>2, <1>4, StampsAlways, PTL DEF ResultsSpec, WindowIsKept
=============================================================================
