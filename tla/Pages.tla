--------------------------------- MODULE Pages ---------------------------------
(***************************************************************************)
(* Sitemap ingests against the people who rename, merge and move: an ingest *)
(* crawls, reads the aliases, reads the groups, creates the missing groups, *)
(* writes the pages batch by batch and deactivates the rest, in so many     *)
(* transactions; a rename or a merge is one.                                *)
(***************************************************************************)
EXTENDS Naturals, FiniteSets, Null

CONSTANTS
  Urls,
  Slugs,
  SLUG,       \* deriveGroup: the slug of each url's path
  DOCUMENT,   \* the sitemap document that lists each url, if it is listed
  Ingests,    \* ingests that run at one time
  BatchSize,  \* rows per transaction
  MaxGroups,  \* bound: rows of Group
  MaxEdits,   \* bound: renames, merges, moves and edits of the sitemap
  MaxIngests  \* bound: ingests that begin

\* Rows are numbered as they are created.
Groups == 1..MaxGroups
Documents == {DOCUMENT[u] : u \in Urls}

\* What a page row keeps of where it belongs.
PageRow == [group : Groups \cup {None}, active : BOOLEAN, manual : BOOLEAN]

\* Assumed of the constants wherever the module is used.
PagesAssumption ==
  /\ None \notin Groups /\ None \notin Slugs /\ None \notin PageRow
  /\ SLUG \in [Urls -> Slugs] /\ DOMAIN DOCUMENT = Urls
  /\ BatchSize \in Nat \ {0}
  /\ MaxGroups \in Nat /\ MaxEdits \in Nat /\ MaxIngests \in Nat

VARIABLES
  listed,    \* the urls on the sitemap now
  page,      \* the Page row of each url, None before there is one
  slug,      \* the Group rows: the slug of each, None before and after
  groups,    \* how many were ever created
  alias,     \* the GroupAlias rows: where each slug was renamed or merged to
  merging,   \* the merge that has moved its pages but not committed
  ingest,    \* each ingest: its next step and what it has read
  edits, begun,
  calm,      \* ingests nothing else has overlapped with
  fresh      \* whether a calm ingest was the last thing to happen

pageRows == <<page, slug, groups, alias>>
pageVars == <<listed, pageRows, merging, ingest, edits, begun, calm, fresh>>

NoIngest == [at |-> "idle", seen |-> {}, listed |-> {}, left |-> {},
             alias |-> [s \in Slugs |-> None], group |-> [s \in Slugs |-> None]]

PagesTypeOK ==
  /\ listed \subseteq Urls
  /\ page \in [Urls -> PageRow \cup {None}]
  /\ \A u \in Urls : page[u] # None /\ page[u].group # None => slug[page[u].group] # None
  /\ slug \in [Groups -> Slugs \cup {None}]
  /\ \A g, h \in Groups : slug[g] = slug[h] /\ slug[g] # None => g = h
  /\ groups \in 0..MaxGroups
  /\ alias \in [Slugs -> Groups \cup {None}]
  /\ \A s \in Slugs : alias[s] # None => slug[alias[s]] # None
  /\ ingest \in [Ingests ->
       [at : {"idle", "aliases", "groups", "pages", "active", "deactivate"},
        seen : SUBSET Urls, listed : SUBSET Urls, left : SUBSET Urls,
        alias : [Slugs -> Groups \cup {None}], group : [Slugs -> Groups \cup {None}]]]
  /\ merging \in [from : Groups, to : Groups, moved : SUBSET Urls] \cup {None}
  /\ edits \in 0..MaxEdits /\ begun \in 0..MaxIngests
  /\ calm \subseteq Ingests /\ fresh \in BOOLEAN

PagesInit ==
  /\ listed = Urls
  /\ page = [u \in Urls |-> None]
  /\ slug = [g \in Groups |-> None]
  /\ groups = 0
  /\ alias = [s \in Slugs |-> None]
  /\ ingest = [i \in Ingests |-> NoIngest]
  /\ merging = None /\ edits = 0 /\ begun = 0
  /\ calm = {} /\ fresh = FALSE

Running == {i \in Ingests : ingest[i].at # "idle"}
GroupOf(s) == {g \in Groups : slug[g] = s}
Needed(i) == {SLUG[u] : u \in ingest[i].seen}
Abort(i) == ingest' = [ingest EXCEPT ![i] = NoIngest]

-----------------------------------------------------------------------------
(* ingestSitemap. *)

\* What the documents list that answered: one that fails is passed over.
Crawl(i, failing) ==
  /\ ingest[i].at = "idle" /\ begun < MaxIngests
  /\ LET seen == {u \in listed : DOCUMENT[u] \notin failing} IN
     ingest' = [ingest EXCEPT ![i] = [NoIngest EXCEPT
       !.at = "aliases", !.seen = seen, !.left = seen, !.listed = listed]]
  /\ begun' = begun + 1
  /\ calm' = IF Running = {} /\ failing = {} /\ merging = None THEN {i} ELSE {}
  /\ fresh' = FALSE
  /\ UNCHANGED <<listed, pageRows, merging, edits>>

ReadAliases(i) ==
  /\ ingest[i].at = "aliases"
  /\ ingest' = [ingest EXCEPT ![i].at = "groups",
       ![i].alias = [s \in Slugs |-> IF s \in Needed(i) THEN alias[s] ELSE None]]
  /\ UNCHANGED <<listed, pageRows, merging, edits, begun, calm, fresh>>

\* Variant: the groups are all there is to look at.
ResolveByGroup(i, s) == ingest[i].group[s]

\* Where a slug goes: to its alias before a group of its name.
Resolve(i, s) == IF ingest[i].alias[s] # None THEN ingest[i].alias[s] ELSE ingest[i].group[s]

ReadGroups(i) ==
  /\ ingest[i].at = "groups"
  /\ ingest' = [ingest EXCEPT ![i].at = "pages",
       ![i].group = [s \in Slugs |->
         IF s \in Needed(i) /\ GroupOf(s) # {} THEN CHOOSE g \in GroupOf(s) : TRUE ELSE None]]
  /\ UNCHANGED <<listed, pageRows, merging, edits, begun, calm, fresh>>

Unplaced(i) == {s \in Needed(i) : Resolve(i, s) = None}

\* The groups that neither an alias nor a row accounts for are created one by one; one
\* that somebody else has created meanwhile ends the ingest.
CreateGroup(i, s) ==
  /\ ingest[i].at = "pages" /\ s \in Unplaced(i)
  /\ IF GroupOf(s) # {}
     THEN Abort(i) /\ UNCHANGED <<groups, slug>>
     ELSE /\ groups < MaxGroups
          /\ groups' = groups + 1
          /\ slug' = [slug EXCEPT ![groups + 1] = s]
          /\ ingest' = [ingest EXCEPT ![i].group[s] = groups + 1]
  /\ UNCHANGED <<listed, page, alias, merging, edits, begun, calm, fresh>>

\* Variant: a page somebody moved is taken back.
RegroupAll(i, u) == Resolve(i, SLUG[u])

\* Variant: the assignment of a page nobody moved is left alone too.
RegroupNothing(i, u) == page[u].group

\* A page somebody moved stays where it is.
Regroup(i, u) == IF page[u].manual THEN page[u].group ELSE Resolve(i, SLUG[u])

Upserted(i, u) ==
  IF page[u] = None
  THEN [group |-> Resolve(i, SLUG[u]), active |-> TRUE, manual |-> FALSE]
  ELSE [page[u] EXCEPT !.group = Regroup(i, u), !.active = TRUE]

\* The rows a merge in progress has locked.
Locked == IF merging = None THEN {} ELSE merging.moved

\* One transaction: it fails, and the ingest with it, when a group it resolved is gone.
UpsertBatch(i, batch) ==
  /\ ingest[i].at = "pages" /\ Unplaced(i) = {}
  /\ batch \subseteq ingest[i].left \ Locked
  /\ Cardinality(batch) = (IF Cardinality(ingest[i].left) < BatchSize
                           THEN Cardinality(ingest[i].left) ELSE BatchSize)
  /\ IF \E u \in batch : Upserted(i, u).group # None /\ slug[Upserted(i, u).group] = None
     THEN Abort(i) /\ UNCHANGED page
     ELSE /\ page' = [u \in Urls |-> IF u \in batch THEN Upserted(i, u) ELSE page[u]]
          /\ ingest' = [ingest EXCEPT ![i].left = @ \ batch,
                          ![i].at = IF batch = ingest[i].left THEN "active" ELSE "pages"]
  /\ UNCHANGED <<listed, slug, groups, alias, merging, edits, begun, calm, fresh>>

\* Variant: every url that was ever a page is looked at, not this crawl's.
UnseenByNobody(i) == {u \in Urls : page[u] # None /\ page[u].active /\ u \notin listed}

Unseen(i) == {u \in Urls : page[u] # None /\ page[u].active /\ u \notin ingest[i].seen}

ReadActive(i) ==
  /\ ingest[i].at = "active"
  /\ ingest' = [ingest EXCEPT ![i].at = "deactivate", ![i].left = Unseen(i)]
  /\ UNCHANGED <<listed, pageRows, merging, edits, begun, calm, fresh>>

\* Not a delete: the page keeps its history.
Deactivate(i) ==
  /\ ingest[i].at = "deactivate" /\ ingest[i].left \cap Locked = {}
  /\ page' = [u \in Urls |-> IF u \in ingest[i].left THEN [page[u] EXCEPT !.active = FALSE]
                             ELSE page[u]]
  /\ Abort(i)
  /\ fresh' = (i \in calm)
  /\ calm' = calm \ {i}
  /\ UNCHANGED <<listed, slug, groups, alias, merging, edits, begun>>

\* The invocation is killed between two statements: what is written stays.
IngestDies(i) ==
  /\ ingest[i].at # "idle"
  /\ Abort(i) /\ calm' = calm \ {i}
  /\ UNCHANGED <<listed, pageRows, merging, edits, begun, fresh>>

-----------------------------------------------------------------------------
(* renameGroup, mergeGroups, a page moved by hand, and the site's own edits. *)

\* Bound: one of them at a time.
Edit ==
  /\ merging = None
  /\ edits < MaxEdits /\ edits' = edits + 1
  /\ calm' = {} /\ fresh' = FALSE
  /\ UNCHANGED <<ingest, begun>>

\* The old slug keeps resolving; a slug that is taken fails the transaction.
Rename(g, s) ==
  /\ Edit
  /\ slug[g] # None /\ s # slug[g] /\ GroupOf(s) = {}
  /\ alias' = [alias EXCEPT ![slug[g]] = g]
  /\ slug' = [slug EXCEPT ![g] = s]
  /\ UNCHANGED <<listed, page, groups, merging>>

\* The merging transaction moves the pages it sees.
Merge(g, target) ==
  /\ Edit
  /\ g # target /\ slug[g] # None /\ slug[target] # None
  /\ merging' = [from |-> g, to |-> target,
                 moved |-> {u \in Urls : page[u] # None /\ page[u].group = g}]
  /\ UNCHANGED <<listed, pageRows>>

\* Variant: the source's slug is forgotten with its row.
Forwarded(g, target) == [s \in Slugs |-> IF alias[s] = g THEN target ELSE alias[s]]

\* The slug and the aliases of the source go to the target.
Aliased(g, target) ==
  [s \in Slugs |-> IF s = slug[g] \/ alias[s] = g THEN target ELSE alias[s]]

\* The source is deleted: a page put into it meanwhile loses its group (SetNull).
MergeCommits ==
  /\ merging # None
  /\ page' = [u \in Urls |->
       IF page[u] = None \/ page[u].group # merging.from THEN page[u]
       ELSE [page[u] EXCEPT !.group = IF u \in merging.moved THEN merging.to ELSE None]]
  /\ alias' = Aliased(merging.from, merging.to)
  /\ slug' = [slug EXCEPT ![merging.from] = None]
  /\ merging' = None
  /\ UNCHANGED <<listed, groups, ingest, edits, begun, calm, fresh>>

MoveByHand(u, g) ==
  /\ Edit
  /\ page[u] # None /\ slug[g] # None
  /\ page' = [page EXCEPT ![u].group = g, ![u].manual = TRUE]
  /\ UNCHANGED <<listed, slug, groups, alias, merging>>

SiteEdits(u) ==
  /\ Edit
  /\ listed' = IF u \in listed THEN listed \ {u} ELSE listed \cup {u}
  /\ UNCHANGED <<pageRows, merging>>

-----------------------------------------------------------------------------

PagesNext ==
  \/ \E i \in Ingests, failing \in SUBSET Documents : Crawl(i, failing)
  \/ \E i \in Ingests : ReadAliases(i) \/ ReadGroups(i) \/ ReadActive(i) \/ Deactivate(i) \/ IngestDies(i)
  \/ \E i \in Ingests, s \in Slugs : CreateGroup(i, s)
  \/ \E i \in Ingests, batch \in SUBSET Urls : UpsertBatch(i, batch)
  \/ \E g \in Groups, s \in Slugs : Rename(g, s)
  \/ \E g, target \in Groups : Merge(g, target)
  \/ MergeCommits
  \/ \E u \in Urls, g \in Groups : MoveByHand(u, g)
  \/ \E u \in Urls : SiteEdits(u)

PagesSpec == PagesInit /\ [][PagesNext]_pageVars

-----------------------------------------------------------------------------

Home(s) == IF alias[s] # None THEN {alias[s]} ELSE GroupOf(s)

\* An ingest that nothing overlapped with, and whose documents all answered, leaves the
\* pages as the sitemap has them, whatever earlier ingests, merges and crashes did:
\* active exactly when listed, and in their slug's group unless moved by hand.
ExactWhenCalm ==
  fresh => \A u \in Urls :
    /\ u \in listed <=> page[u] # None /\ page[u].active
    /\ u \in listed /\ ~page[u].manual => page[u].group \in Home(SLUG[u])

\* "Stops a merged-away slug from being recreated": an ingest creates a group only for
\* a slug nothing resolves, unless an edit came between its two reads.
NotRecreated ==
  [][groups' > groups =>
       \/ \A s \in Slugs : slug'[groups'] = s => Home(s) = {}
       \/ \E i \in Ingests \ calm : ingest'[i] # ingest[i]]_pageVars

\* "Manual overrides win permanently": a page moved by hand leaves its group only by
\* hand or with the group.
HandMovesStick ==
  [][\A u \in Urls : page[u] # None /\ page[u].manual /\ page'[u].group # page[u].group =>
       edits' > edits \/ (merging # None /\ merging' = None)]_pageVars

\* "Deactivate anything the sitemap no longer lists": nothing it listed when it was read.
OnlyUnlistedIsDeactivated ==
  [][\A u \in Urls : page[u] # None /\ page[u].active /\ ~page'[u].active =>
       \E i \in Ingests : ingest[i].at = "deactivate" /\ u \notin ingest[i].listed]_pageVars

=============================================================================
