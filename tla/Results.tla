-------------------------------- MODULE Results --------------------------------
(***************************************************************************)
(* The stored measurements of a site: written by audit steps that first put *)
(* the evidence into the blob store and then, in one transaction, the row   *)
(* and the page's pointer to it; pruned after each run; deleted with their  *)
(* runs on demand; and read by the report, the history and the group cards. *)
(* A page here is a (page, strategy) pair: the two never meet.              *)
(***************************************************************************)
EXTENDS Naturals, FiniteSets

CONSTANTS
  Pages,
  Writers,   \* audit steps at work at one time
  Keep,      \* RESULT_RETAIN_RUNS, per page
  MaxRuns,      \* bound: runs that are created
  MaxMeasured   \* bound: measurements

\* Assumed of the constants wherever the module is used.
ResultsAssumption == Keep \in Nat \ {0, 1} /\ MaxRuns \in Nat \ {0} /\ MaxMeasured \in Nat

\* Runs in the order of their creation.
Runs == 1..MaxRuns
\* Measurements, and rows in the order of their creation, are numbered; 0 is none.
Moment == 0..MaxMeasured

VARIABLES
  run,       \* the AuditRun rows
  results,   \* the AuditResult rows; createdAt identifies each
  pointer,   \* Page.latestResult<Strategy>Id
  blob,      \* the stored evidence, under the key of its run and page
  writer, pruning, removing,
  measured, created,
  again,     \* the (run, page) pairs measured more than once
  raced,     \* pages whose pointer may be behind: two steps wrote at one time, or
             \* a run of theirs was deleted
  thinned    \* whether runs were deleted since the pruning read its rows

resultVars == <<run, results, pointer, blob, writer, pruning, removing, measured, created,
          again, raced, thinned>>

Row == [createdAt : Moment, run : Runs, page : Pages, evidence : Moment]
NoWrite == [at |-> "idle", run |-> 1, page |-> CHOOSE p \in Pages : TRUE,
            createdAt |-> 0, evidence |-> 0, alone |-> FALSE]
NoWork == [at |-> "idle", rows |-> {}, runs |-> {}, keys |-> {}]

ResultsTypeOK ==
  /\ run \in [Runs -> {"none", "open", "terminal", "deleted"}]
  /\ results \subseteq Row
  \* @@unique([auditRunId, pageId, strategy])
  /\ \A x, y \in results : x.run = y.run /\ x.page = y.page => x = y
  /\ \A x \in results : run[x.run] \notin {"none", "deleted"}
  /\ pointer \in [Pages -> Moment]
  /\ blob \in [Runs -> [Pages -> Moment]]
  /\ writer \in [Writers -> [at : {"idle", "store", "create", "commit"}, run : Runs, page : Pages,
                             createdAt : Moment, evidence : Moment,
                             alone : BOOLEAN]]
  /\ pruning \in [at : {"idle", "rows", "blobs"}, rows : SUBSET Row, runs : {{}},
                  keys : SUBSET (Runs \X Pages)]
  /\ removing \in [at : {"idle", "keys", "rows", "blobs"}, rows : {{}}, runs : SUBSET Runs,
                   keys : SUBSET (Runs \X Pages)]
  /\ measured \in Moment /\ created \in Moment
  /\ again \subseteq Runs \X Pages /\ raced \subseteq Pages /\ thinned \in BOOLEAN

ResultsInit ==
  /\ run = [r \in Runs |-> "none"]
  /\ results = {}
  /\ pointer = [p \in Pages |-> 0]
  /\ blob = [r \in Runs |-> [p \in Pages |-> 0]]
  /\ writer = [w \in Writers |-> NoWrite]
  /\ pruning = NoWork /\ removing = NoWork
  /\ measured = 0 /\ created = 0
  /\ again = {} /\ raced = {} /\ thinned = FALSE

RowsOf(p) == {x \in results : x.page = p}
Later(x) == {y \in RowsOf(x.page) : y.createdAt > x.createdAt}
Newest(S) == {x \in S : \A y \in S : y.createdAt <= x.createdAt}
Written(r, p) == \E x \in results : x.run = r /\ x.page = p
\* Whose transactions have inserted and not committed.
Inside == {w \in Writers : writer[w].at = "commit"}

-----------------------------------------------------------------------------
(* auditPage and recordAuditResult. *)

\* One run at a time; two that got past the overlap guard together are Scheduler's.
Open(r) ==
  /\ run[r] = "none" /\ \A q \in Runs : run[q] # "open" /\ (q < r => run[q] # "none")
  /\ run' = [run EXCEPT ![r] = "open"]
  /\ UNCHANGED <<results, pointer, blob, writer, pruning, removing, measured, created,
                 again, raced, thinned>>

\* Bound: of the steps of a run, those that begin while it is open.  A step that is
\* replayed measures again.
Measure(w, r, p) ==
  /\ writer[w].at = "idle" /\ run[r] = "open"
  /\ measured < MaxMeasured /\ measured' = measured + 1
  /\ writer' = [writer EXCEPT ![w] = [NoWrite EXCEPT
       !.at = "store", !.run = r, !.page = p,
       !.evidence = measured']]
  /\ again' = IF \/ Written(r, p)
                 \/ blob[r][p] # 0
                 \/ \E v \in Writers : writer[v].at # "idle" /\ writer[v].run = r /\ writer[v].page = p
              THEN again \cup {<<r, p>>} ELSE again
  /\ UNCHANGED <<run, results, pointer, blob, pruning, removing, created, raced, thinned>>

\* Variant: the key is the page's, so the next run's evidence takes its place.
KeyedByPage(w) ==
  /\ writer[w].at = "store"
  /\ blob' = [r \in Runs |-> [blob[r] EXCEPT
       ![writer[w].page] = writer[w].evidence]]
  /\ writer' = [writer EXCEPT ![w].at = "create"]
  /\ UNCHANGED <<run, results, pointer, pruning, removing, measured, created, again, raced, thinned>>

\* storeRawJson.  Without evidence goes an error row, and a result whose evidence the
\* store refused for good; a transient failure ends the attempt, as a death does.
Store(w) ==
  /\ writer[w].at = "store"
  /\ \/ /\ blob' = [blob EXCEPT ![writer[w].run][writer[w].page] = writer[w].evidence]
        /\ writer' = [writer EXCEPT ![w].at = "create"]
     \/ /\ writer' = [writer EXCEPT ![w].at = "create", ![w].evidence = 0]
        /\ UNCHANGED blob
  /\ UNCHANGED <<run, results, pointer, pruning, removing, measured, created, again, raced, thinned>>

\* The insert inside the transaction, which stamps the row and waits for another
\* transaction that holds the same key.
Create(w) ==
  /\ writer[w].at = "create"
  /\ \A v \in Inside : writer[v].run # writer[w].run \/ writer[v].page # writer[w].page
  /\ IF run[writer[w].run] = "deleted" \/ Written(writer[w].run, writer[w].page)
     THEN writer' = [writer EXCEPT ![w] = NoWrite] /\ UNCHANGED created
     ELSE LET beside == {v \in Inside : writer[v].page = writer[w].page} IN
          /\ created' = created + 1
          /\ writer' = [v \in Writers |->
               IF v = w THEN [writer[w] EXCEPT !.at = "commit", !.createdAt = created',
                                               !.alone = (beside = {})]
               ELSE IF v \in beside THEN [writer[v] EXCEPT !.alone = FALSE] ELSE writer[v]]
  /\ UNCHANGED <<run, results, pointer, blob, pruning, removing, measured, again, raced, thinned>>

\* Variant: only a measurement that succeeded is pointed to.
PointIfOk(w) ==
  IF writer[w].evidence = 0 THEN pointer
  ELSE [pointer EXCEPT ![writer[w].page] = writer[w].createdAt]

\* Whoever commits last is the latest, whenever its row was created.
Point(w) == [pointer EXCEPT ![writer[w].page] = writer[w].createdAt]

Commit(w) ==
  /\ writer[w].at = "commit"
  /\ results' = results \cup {[createdAt |-> writer[w].createdAt, run |-> writer[w].run,
                              page |-> writer[w].page,
                              evidence |-> writer[w].evidence]}
  /\ pointer' = Point(w)
  /\ writer' = [writer EXCEPT ![w] = NoWrite]
  /\ raced' = IF writer[w].alone THEN raced \ {writer[w].page} ELSE raced \cup {writer[w].page}
  /\ UNCHANGED <<run, blob, pruning, removing, measured, created, again, thinned>>

\* After the evidence is stored: earlier nothing is done, and later the database undoes
\* the transaction.
WriterDies(w) ==
  /\ writer[w].at = "create"
  /\ writer' = [writer EXCEPT ![w] = NoWrite]
  /\ UNCHANGED <<run, results, pointer, blob, pruning, removing, measured, created, again, raced, thinned>>

\* Finalized or stopped, whatever steps are still at work.
Close(r) ==
  /\ run[r] = "open"
  /\ run' = [run EXCEPT ![r] = "terminal"]
  /\ UNCHANGED <<results, pointer, blob, writer, pruning, removing, measured, created, again, raced, thinned>>

-----------------------------------------------------------------------------
(* pruneSiteHistory, after a run that is finalized. *)

\* Variant: one row too many is beyond the window.
StaleFromKeep == {x \in results : Cardinality(Later(x)) + 1 >= Keep}

\* ROW_NUMBER() > keep, newest first.
Stale == {x \in results : Cardinality(Later(x)) + 1 > Keep}

KeysOf(rows) == {<<x.run, x.page>> : x \in {y \in rows : y.evidence # 0}}

ReadStale ==
  /\ pruning.at = "idle" /\ Stale # {} /\ \E r \in Runs : run[r] = "terminal"
  /\ pruning' = [NoWork EXCEPT !.at = "rows", !.rows = Stale, !.keys = KeysOf(Stale)]
  /\ thinned' = FALSE
  /\ UNCHANGED <<run, results, pointer, blob, writer, removing, measured, created, again, raced>>

PruneRows ==
  /\ pruning.at = "rows"
  /\ results' = results \ pruning.rows
  /\ pruning' = [pruning EXCEPT !.at = "blobs", !.rows = {}]
  /\ UNCHANGED <<run, pointer, blob, writer, removing, measured, created, again, raced, thinned>>

Without(keys) == [r \in Runs |-> [p \in Pages |-> IF <<r, p>> \in keys THEN 0 ELSE blob[r][p]]]

\* deleteRawJsonBlobs: when the store fails nobody is told, as if the pruning had died.
PruneBlobs ==
  /\ pruning.at = "blobs"
  /\ blob' = Without(pruning.keys)
  /\ pruning' = NoWork
  /\ UNCHANGED <<run, results, pointer, writer, removing, measured, created, again, raced, thinned>>

-----------------------------------------------------------------------------
(* deleteRuns. *)

\* Only what is terminal.
Deletable(asked) == {r \in asked : run[r] = "terminal"}

\* Bound: Next asks for one run at a time.
ReadRuns(asked) ==
  /\ removing.at = "idle" /\ Deletable(asked) # {}
  /\ removing' = [NoWork EXCEPT !.at = "keys", !.runs = Deletable(asked)]
  /\ UNCHANGED <<run, results, pointer, blob, writer, pruning, measured, created, again, raced, thinned>>

RunKeys == KeysOf({x \in results : x.run \in removing.runs})

ReadKeys ==
  /\ removing.at = "keys"
  /\ removing' = [removing EXCEPT !.at = "rows", !.keys = RunKeys]
  /\ UNCHANGED <<run, results, pointer, blob, writer, pruning, measured, created, again, raced, thinned>>

\* The rows cascade; a transaction that holds a reference to the run is waited for.
\* Nothing cascades to the pages' pointers.
RemoveRuns ==
  /\ removing.at = "rows"
  /\ \A w \in Inside : writer[w].run \notin removing.runs
  /\ run' = [r \in Runs |-> IF r \in removing.runs THEN "deleted" ELSE run[r]]
  /\ results' = {x \in results : x.run \notin removing.runs}
  /\ removing' = [removing EXCEPT !.at = "blobs"]
  /\ raced' = raced \cup {x.page : x \in {y \in results : y.run \in removing.runs}}
  /\ thinned' = TRUE
  /\ UNCHANGED <<pointer, blob, writer, pruning, measured, created, again>>

RemoveBlobs ==
  /\ removing.at = "blobs"
  /\ blob' = Without(removing.keys)
  /\ removing' = NoWork
  /\ UNCHANGED <<run, results, pointer, writer, pruning, measured, created, again, raced, thinned>>

\* The invocation that prunes or deletes dies when the rows are gone: before, it has
\* only read.
CleanerDies ==
  /\ \/ pruning.at = "blobs" /\ pruning' = NoWork /\ UNCHANGED removing
     \/ removing.at = "blobs" /\ removing' = NoWork /\ UNCHANGED pruning
  /\ UNCHANGED <<run, results, pointer, blob, writer, measured, created, again, raced, thinned>>

-----------------------------------------------------------------------------

ResultsNext ==
  \/ \E w \in Writers, r \in Runs, p \in Pages : Measure(w, r, p)
  \/ \E w \in Writers : Store(w) \/ Create(w) \/ Commit(w) \/ WriterDies(w)
  \/ \E r \in Runs : Open(r) \/ Close(r)
  \/ ReadStale \/ PruneRows \/ PruneBlobs
  \/ \E r \in Runs : ReadRuns({r})
  \/ ReadKeys \/ RemoveRuns \/ RemoveBlobs \/ CleanerDies

ResultsSpec == ResultsInit /\ [][ResultsNext]_resultVars

-----------------------------------------------------------------------------
(* What the screens show. *)

\* The row the group cards and page lists count a page by.
Card(p) == {x \in RowsOf(p) : x.createdAt = pointer[p]}

\* getPageReport: the row pointed to; the newest when the page has no pointer.
Latest(p) == IF pointer[p] # 0 THEN Card(p) ELSE Newest(RowsOf(p))

-----------------------------------------------------------------------------

\* A result's evidence is its own measurement's: what is under its key was stored by
\* the step that wrote the row, unless that page was measured twice in the run.
EvidenceIsItsOwn ==
  \A x \in results : x.evidence = 0 \/ <<x.run, x.page>> \in again
                     \/ blob[x.run][x.page] = x.evidence

\* "Which denormalized pointer": the cards show each page by its newest result, unless
\* two steps wrote the page at one time or a run of it was deleted since.
CardIsNewest == \A p \in Pages : p \in raced \/ Card(p) = Newest(RowsOf(p))

\* "Keep window": pruning takes a row only when Keep newer ones stay, unless runs were
\* deleted between its read and its delete.
WindowIsKept ==
  [][\A x \in results \ results' :
       \/ x.run \in removing.runs
       \/ thinned
       \/ Cardinality(Later(x) \cap results') >= Keep]_resultVars

\* "A stale or missing one must not hide a result that exists": a page with results has
\* a report.
PointerNeverHides == \A p \in Pages : RowsOf(p) # {} => Latest(p) # {}

=============================================================================
